SPECIFICATION Spec
CONSTANTS
  Pids = {1}
  PipeSize = 1
  Ceiling = 1
  MaxWrites = 1
CHECK_DEADLOCK FALSE
INVARIANT FailuresSayWhy
