SPECIFICATION Spec
CONSTANTS
    Clients = {c1, c2}
    NoBlock = NoBlock
    NoRow = NoRow
    MaxHeight = 2
    MaxMinted = 3
    MaxFaults = 4
    MaxCrashes = 1
    MaxTampers = 1
INVARIANTS TypeOK NothingLost PendingInOrder OutboxIffBlock UnsealedReplays
PROPERTY StoredNeverRewritten
CHECK_DEADLOCK FALSE
