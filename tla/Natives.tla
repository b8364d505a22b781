------------------------------ MODULE Natives ------------------------------
(***************************************************************************)
(* The native namespaces that keep tables of their own, side by side in    *)
(* one evaluator: Memory, GPU, Socket, WebSocket frames, OS.spawn, the     *)
(* capture of a child's output, the windows of Gui and Task.  They share   *)
(* nothing, so a behaviour of all is a behaviour of each; a run uses one   *)
(* of them, chosen at its start, and says of each what its module says.    *)
(* Tasks is extended, not instanced: its properties are the very formulas  *)
(* the theorems of TasksProofs are about.                                  *)
(***************************************************************************)
EXTENDS Integers, Sequences, FiniteSets, Tasks

CONSTANTS ByteSize, Sizes, Layouts, MaxHandle,          \* RawMemory
          MaxBuffers, MaxLength, MaxNesting,            \* GpuBuffers
          Ports, MaxIds, MaxBytes,                      \* Sockets
          MaxFrames, MaxCalls,                          \* WebSocket
          Pids, PipeSize, Ceiling, MaxWrites,           \* Processes
          MaxOutput,                                    \* ChildOutput
          Habits, MaxWindow, MaxKeys, MaxOpens, MaxGuiCalls   \* GuiHost

ASSUME MemoryAssumption == ByteSize \in Nat \ {0} /\ ByteSize % 2 = 0 /\ Sizes \subseteq Nat \ {0}
ASSUME PipeAssumption == PipeSize \in Nat \ {0} /\ Ceiling \in Nat
ASSUME BoundAssumption ==
  {MaxHandle, MaxBuffers, MaxLength, MaxNesting, MaxIds, MaxBytes, MaxFrames, MaxCalls, MaxWrites,
   MaxOutput, MaxWindow, MaxKeys, MaxOpens, MaxGuiCalls} \subseteq Nat

VARIABLES used,                                         \* the namespace of this run
          buffers, nextBuffer, call, result,
          gpu, nextGpu, maps, made,
          listeners, connections, nextSocket, backlog, issued, answer,
          wire, peerOpen, sent, receiving, calls, log,
          child, reader, spawned, tick, reported, stopped,
          plan, total, exited, pipe, open, got, drain, caller, outcome,
          habit, shared, cmds, epoch, dialog, over, script, host, live, asked, last, keys,
          typed, given, wanted

memoryVars == <<buffers, nextBuffer, call, result>>
gpuVars == <<gpu, nextGpu, maps, made>>
socketVars == <<listeners, connections, nextSocket, backlog, issued, answer>>
wsVars == <<wire, peerOpen, sent, receiving, calls, log>>
processVars == <<child, reader, spawned, tick, reported, stopped>>
outputVars == <<plan, total, exited, pipe, open, got, drain, caller, outcome>>
guiVars == <<habit, shared, cmds, epoch, dialog, over, script, host, live, asked, last, keys,
             typed, given, wanted>>
vars == <<used, memoryVars, gpuVars, socketVars, wsVars, processVars, outputVars, guiVars, tasksVars>>

M == INSTANCE RawMemory WITH next <- nextBuffer
G == INSTANCE GpuBuffers WITH next <- nextGpu, MaxHandle <- MaxBuffers
S == INSTANCE Sockets WITH next <- nextSocket, result <- answer
W == INSTANCE WebSocket
P == INSTANCE Processes
O == INSTANCE ChildOutput WITH MaxWrites <- MaxOutput
H == INSTANCE GuiHost

ASSUME LayoutAssumption == Layouts \subseteq M!AllLayouts

Rest(name) ==
  /\ IF name = "memory" THEN TRUE ELSE UNCHANGED memoryVars
  /\ IF name = "gpu" THEN TRUE ELSE UNCHANGED gpuVars
  /\ IF name = "sockets" THEN TRUE ELSE UNCHANGED socketVars
  /\ IF name = "frames" THEN TRUE ELSE UNCHANGED wsVars
  /\ IF name = "processes" THEN TRUE ELSE UNCHANGED processVars
  /\ IF name = "output" THEN TRUE ELSE UNCHANGED outputVars
  /\ IF name = "windows" THEN TRUE ELSE UNCHANGED guiVars
  /\ IF name = "tasks" THEN TRUE ELSE UNCHANGED tasksVars
  /\ UNCHANGED used

Init == /\ M!Init /\ G!Init /\ S!Init /\ W!Init /\ P!Init /\ O!Init /\ H!Init /\ TasksInit
        /\ used \in {"memory", "gpu", "sockets", "frames", "processes", "output", "windows", "tasks"}
        /\ used # "output" => plan = [s \in O!Streams |-> 0]
        /\ used # "windows" => habit = CHOOSE h \in Habits : TRUE

Next == \/ used = "memory" /\ M!Next /\ Rest("memory")
        \/ used = "gpu" /\ G!Next /\ Rest("gpu")
        \/ used = "sockets" /\ S!Next /\ Rest("sockets")
        \/ used = "frames" /\ W!Next /\ Rest("frames")
        \/ used = "processes" /\ P!Next /\ Rest("processes")
        \/ used = "output" /\ O!Next /\ Rest("output")
        \/ used = "windows" /\ H!Next /\ Rest("windows")
        \/ used = "tasks" /\ TasksNext /\ Rest("tasks")

\* The fairness of each module, for the run that uses it.
Fairness ==
  /\ \A p \in Pids :
       /\ WF_vars(used = "processes" /\ (P!ChildWrites(p) \/ P!ChildBreaks(p) \/ P!ChildExits(p))
                    /\ Rest("processes"))
       /\ WF_vars(used = "processes" /\ (P!ReaderReads(p) \/ P!ReaderStores(p)) /\ Rest("processes"))
  /\ WF_vars(used = "processes" /\ P!Tick /\ Rest("processes"))
  /\ \A s \in O!Streams : WF_vars(used = "output" /\ O!ChildWrites(s) /\ Rest("output"))
  /\ WF_vars(used = "output" /\ (O!ChildExits \/ \E s \in O!Streams : O!ChildBreaks(s)) /\ Rest("output"))
  /\ WF_vars(used = "output" /\ O!DrainReads /\ Rest("output"))
  /\ WF_vars(used = "output" /\ (O!CallerReads \/ O!CallerJoins \/ O!CallerWaits) /\ Rest("output"))
  /\ WF_vars(used = "windows" /\ H!Return /\ Rest("windows"))
  /\ WF_vars(used = "windows" /\ H!HostStep /\ Rest("windows"))

Spec == Init /\ [][Next]_vars /\ Fairness

-----------------------------------------------------------------------------
\* Handles of Memory, GPU and Socket: one that was freed or closed names nothing
\* ever after, an id keeps the kind it was issued as, and no buffer is replaced
\* under its handle while a callback of GPU.map allocates, frees and maps others.
HandlesAreNeverReused ==
  /\ M!FreedStaysFreed /\ G!FreedStaysFreed
  /\ S!ClosedStaysClosed /\ []S!KindsNeverMix
  /\ G!OthersKeepTheirBuffers
\* Buffers: a Memory call that fails changes no byte of any buffer; a write, a
\* copy or a fill that succeeds changes its own bytes only, to what it was given
\* or what the source held; a GPU map sees its buffer as it was when called,
\* whatever callbacks do.
BuffersHoldWhatWasWritten ==
  M!FailureWritesNothing /\ M!SuccessWritesItsBytes /\ G!MapSeesWhatItWasGiven
\* Sockets: recv returns the peer's text in order and leaves the remainder, and
\* only a character that a recv ended within is replaced; messages, pongs and
\* closes follow the peer's frames in order; present hands over what was typed
\* into its window once and in order.
StreamsStayInOrder == S!TextComesInOrder /\ W!FramesComeInOrder /\ H!InputComesOnce
\* Processes: a finished child is reported once, with the code it ended with,
\* and its message is all it wrote or missing, never a part; a tick leaves no child that had
\* finished when it began; a capture is complete.  A window is reported closed
\* when somebody closed it, and a file dialog answers its own call.
ReportsAreTrue == /\ [](P!ReportedOnce /\ P!MessagesAreWhole /\ O!CaptureIsComplete)
                  /\ P!TickHarvestsAllDue
                  /\ []H!ClosedByRequest /\ H!DialogAnswersItsCall
\* OS.tick: every child ends and is reported, or a ceiling ends the program.
\* run_child_bounded: with stdout under the ceiling the call returns.
ChildrenAreReported ==
  /\ P!ChildrenEnd /\ P!ChildrenAreReported
  /\ used = "output" /\ total["out"] <= Ceiling ~> caller = "returned"
\* Gui: every call that waits for the window thread returns, whoever closes
\* what meanwhile, and that thread leaves when the program has ended.
GuiCallsReturn == H!CallsReturn /\ H!HostLeaves
=============================================================================
