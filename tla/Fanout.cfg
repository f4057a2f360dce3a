SPECIFICATION FanoutSpec
CONSTANTS
  MaxBytes = 3
  Keep = 2
  BACKOFF = 2
  IO_TIMEOUT = 1
  MaxTime = 4
  MaxFlips = 2
  MaxEvents = 4
  MaxCrashes = 1
INVARIANTS
    RecordsNeverGlue
    OldestGoFirst
    OneWindowPerOutage
CHECK_DEADLOCK FALSE
