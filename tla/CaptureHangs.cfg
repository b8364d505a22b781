SPECIFICATION Spec
CONSTANTS
  PipeSize = 1
  Ceiling = 1
  MaxWrites = 4
CHECK_DEADLOCK FALSE
PROPERTIES CallReturns
