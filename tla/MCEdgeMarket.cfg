SPECIFICATION MCSpec
CONSTANTS
    fixed = fixed
    s2 = s2
    own = own
    inv = inv
    Instances = {i1, i2}
    Fixed = fixed
    Others = {s2, d1}
    People = {own, inv}
    Originator = own
    SeedHoldings <- MCSeedHoldings
    Supply = 2
    Amounts = {1}
    Loans = {l1}
    Swaps = {w1}
    Stragglers <- MCStragglers
    MaxLate = 1
    MaxRequests = 3
    MaxRecycles = 1
SYMMETRY MCInstances
INVARIANTS WritesAreSound TransfersReachTheRows
PROPERTIES PledgesHold
CHECK_DEADLOCK FALSE
