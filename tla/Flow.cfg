SPECIFICATION Spec
CONSTANTS
    Labels = {outer}
    NoLabel = NoLabel
    Features = {}
    MaxCallDepth = 1
    MaxNest = 3
    MaxRaised = 2
INVARIANTS FailureKeepsItsPayload
PROPERTIES LeavesNothingBehind JumpsLand
CHECK_DEADLOCK FALSE
