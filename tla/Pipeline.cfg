\* Three records, every buffer of size one, one thread that may die.
SPECIFICATION FairSpec
CONSTANTS
    QueueCap = 1
    RingCap = 1
    ChanCap = 1
    MaxRecords = 3
    MaxPanics = 1
INVARIANTS
    NothingLostUnseen
PROPERTIES
    PathAlwaysDrains
