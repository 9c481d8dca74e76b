SPECIFICATION MCSpec
CONSTANTS
    Instances = {i1, i2}
    Payments = {p1}
    Keys = {k1}
    Seller = seller
    Supply = 1
    Openings = {0, 1}
    Said = {"PENDING", "CONFIRMED", "RELEASED", "DECLINED"}
    Bodies <- MCBodies
    MaxRequests = 4
    MaxPoorRequests = 2
    MaxOddRequests = 3
    MaxRecycles = 1
SYMMETRY Alike
INVARIANT PaymentsAreSound
PROPERTIES NeverForgets RailKeepsThePromise
CHECK_DEADLOCK FALSE
