SPECIFICATION Spec
CONSTANTS
  Boots <- MCBoots
  DECODE_FAILURE_RUN_MAX = 2
  DEGRADED_RECOVERY = 1
  CONTAINER_MAP_SYNC_BUDGET = 1
  CONTAINER_FLAG_GRACE = 1
  RESPOND_TARGET_UNPROVEN_MIN = 1
  RESPOND_SIGNAL_FAILING_MIN = 1
  MaxMarks = 2
  MaxFaults = 1
  Classes = {"watch", "exception_publish"}
  Watch = "watch"
  ExceptionPublish = "exception_publish"
  Loops = {"policies", "exceptions"}
  TERMINAL_RUN = 2
  TERMINAL_WINDOW = 1
  MaxNotes = 4
  MaxWaits = 2
  MaxWriteFaults = 1
  MaxControllerRestarts = 1
INVARIANTS
  TerminalIsABurst
PROPERTIES
  AgentStatusSettles
  ControllerStatusSettles
CHECK_DEADLOCK FALSE
