SPECIFICATION MCSpec
CONSTANTS
    Topics = {"rail", "supply", "offers", "keys"}
    Keys = {ann, bob}
    Bodies = {b1, b2}
    Clients = {c1, c2}
    NoRecord = NoRecord
    MaxRequests = 4
    MaxFaults = 1
    MaxCrashes = 1
    MaxDays = 1
    Participants = {ann, bob, cara}
    Seeded = {ann, bob}
    Assets = {flat}
    Holding = 1
    MaxCash = 1
    MaxTokens = 1
    MaxTokenDays = 1
    MaxOps = 3
    MaxBlindBoots = 1
    WithDryRuns = TRUE
    Nobody = Nobody
    Owners = {cara, dave}
    Operations = {"seed", "restate", "retire", "settle"}
    Owner = cara
    Opening = 2
    MaxQuantity = 2
    Supply = 2
    MaxOffers = 2
    MaxTrades = 1
SYMMETRY MCSymmetry
CHECK_DEADLOCK FALSE
INVARIANTS KeysDecide NothingMadeOrLost TablesCatchUp OffersAreTrue
PROPERTY SupplyIsKept
