SPECIFICATION MCSpec
CONSTANTS
    p1 = p1
    p2 = p2
    None = None
    Pays = {p1, p2}
    Properties = {"here", "there"}
    Slots = {1, 2}
    ForSale = 2
    ReconcileAt = 1
    MaxErrors = 2
    MaxPolls = 2
    MaxTroubles = 1
CHECK_DEADLOCK FALSE
INVARIANTS MoneyIsReversed
