SPECIFICATION Spec
CONSTANTS
  ByteSize = 2
  Sizes = {1, 3}
  Layouts = {"int8", "uint16", "ptr"}
  MaxHandle = 2
  MaxBuffers = 3
  MaxLength = 2
  MaxNesting = 2
  Ports = {80}
  MaxIds = 2
  MaxBytes = 3
  MaxFrames = 2
  MaxCalls = 3
  Pids = {1, 2}
  PipeSize = 1
  Ceiling = 1
  MaxWrites = 2
  MaxOutput = 4
  Habits = {{"redraw", "userCloses", "close", "dialog", "idle", "types"},
            {"windows", "types"},
            {"windows", "redraw", "close"},
            {"windows", "reopen", "close", "dialog"},
            {"reopen", "userCloses", "dialog"}}
  MaxWindow = 1
  MaxKeys = 2
  MaxOpens = 2
  MaxGuiCalls = 2
  Messages = {m1, m2}
  NoReply = NoReply
  Empty = Empty
  Error = Error
  MaxConcurrent = 2
  MaxRecords = 3
  MaxId = 6
CHECK_DEADLOCK FALSE
INVARIANTS StreamsStayInOrder SlotsAreActive CeilingsHold
PROPERTIES HandlesAreNeverReused BuffersHoldWhatWasWritten ReportsAreTrue ChildrenAreReported GuiCallsReturn FollowsLifecycle
