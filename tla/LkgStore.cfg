\* Every rotation, failing file operation and crash against every file operation.
SPECIFICATION FairSpec
CONSTANTS
    Whole = {b1, b2}
    DeadRules = {old}
    Refused = {bad}
    None = None
    MaxRotations = 2
    MaxFaults = 1
    MaxCrashes = 2
INVARIANTS
    StoreIsSafe
PROPERTIES
    MountIsFollowed
