SPECIFICATION GithubSpec
CONSTANTS
    None = None
    Instances = {i1, i2}
    Files = {"properties", "balances"}
    Keys = {"a", "b"}
    MaxSaves = 3
    MaxFaults = 1
CHECK_DEADLOCK FALSE
INVARIANT WrittenIsShared
