\* Every move of the clock, crash, failed flush and rotation of the Secret.
SPECIFICATION Spec
CONSTANTS
    early = early
    late = late
    Ids = {early, late}
    Expires <- MCExpires
    MaxTime = 4
    MAX_EXCEPTION_DAYS = 3
    MAX_ANCHOR_SKEW_SECS = 1
    PERSIST_STEP_SECS = 2
    NoFile = NoFile
    MaxRotations = 2
    MaxCrashes = 1
INVARIANTS
    ExpiryHolds
    TableFollowsSecret
