SPECIFICATION MCSpec
CONSTANTS
    ann = ann
    None = None
    Persons = {ann}
    Named = {}
    Claims <- NoClaim
    Aliases <- NoClaim
    Instances = {i1, i2}
    Slots = {s1, s2}
    Slugs = {"acme"}
    Identifiers = {"ann@home"}
    Values = {c1, c2}
    Callers <- MCCallers
    Letters <- MCLetters
    MaxAttempts = 2
    MaxRequests = 4
    MaxFaults = 1
    Kids = {k1, k2}
    Calls = {r1, r2}
    MaxRotations = 2
    MaxOutages = 1
    Topics = {"sessions", "orgs", "codes", "keys", "memo", "tab", "live", "listings", "wallet"}
SYMMETRY MCSymmetry
CHECK_DEADLOCK FALSE
INVARIANTS MembersWereAskedIn CredentialsAreGood PagesAreFresh PeopleAreRight
