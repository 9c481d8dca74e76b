SPECIFICATION Spec
CONSTANTS
    s1 = s1
    d1 = d1
    own = own
    inv = inv
    Seeded = {s1}
    Drafts = {d1}
    People = {own, inv}
    Originator = own
    SeedHoldings <- MCSeedHoldings
    Supply = 2
    Amounts = {1}
    Loans = {l1}
    Swaps = {w1}
    Payments = {p1}
    Bodies <- MCBodies
    MaxRequests = 5
    MaxRestarts = 1
INVARIANTS HoldingsAreTold SettledStaysSettled
PROPERTIES PledgesAndHaltsHold ServerKeepsThePromise
CHECK_DEADLOCK FALSE
