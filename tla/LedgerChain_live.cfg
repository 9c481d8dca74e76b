\* Delivery under the relay's fairness.
CONSTANTS
    c1 = c1
    Clients = {c1}
    NoBlock = NoBlock
    NoRow = NoRow
    MaxHeight = 2
    MaxMinted = 3
    MaxFaults = 2
    MaxCrashes = 1
    MaxTampers = 1
SPECIFICATION FairSpec
CHECK_DEADLOCK FALSE
PROPERTY EventuallyDelivered
