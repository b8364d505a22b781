---------------------------- MODULE ChildOutput ----------------------------
(***************************************************************************)
(* run_child_bounded (evaluator/mod.rs): one child, its two pipes, the     *)
(* thread that drains stderr and the calling thread that drains stdout,    *)
(* joins the other and waits for the child.                                *)
(***************************************************************************)
EXTENDS Integers

CONSTANTS PipeSize,     \* units a pipe holds before a write blocks
          Ceiling,      \* MAX_UNBOUNDED_READ_BYTES
          MaxWrites     \* bound: units the child writes to one stream

Streams == {"out", "err"}
Refused == "refused"

VARIABLES plan,         \* stream |-> what the child has still to write
          total,        \* stream |-> what it was going to write
          exited,       \* the child has ended
          pipe,         \* stream |-> units in the pipe
          open,         \* stream |-> the reading end is open
          got,          \* stream |-> units read
          drain,        \* the stderr thread: "reading", "ended"
          caller,       \* the calling thread
          outcome       \* what the call returned
outputVars == <<plan, total, exited, pipe, open, got, drain, caller, outcome>>

Init == /\ plan \in [Streams -> 0 .. MaxWrites]
        /\ total = plan
        /\ exited = FALSE
        /\ pipe = [s \in Streams |-> 0]
        /\ open = [s \in Streams |-> TRUE]
        /\ got = [s \in Streams |-> 0]
        /\ drain = "reading"
        /\ caller = "reading"
        /\ outcome = "none"

\* The child, which writes to its streams in any order.
ChildWrites(s) ==
  /\ ~exited /\ plan[s] > 0 /\ open[s] /\ pipe[s] < PipeSize
  /\ plan' = [plan EXCEPT ![s] = @ - 1]
  /\ pipe' = [pipe EXCEPT ![s] = @ + 1]
  /\ UNCHANGED <<total, exited, open, got, drain, caller, outcome>>
ChildBreaks(s) ==
  /\ ~exited /\ plan[s] > 0 /\ ~open[s]
  /\ exited' = TRUE
  /\ UNCHANGED <<plan, total, pipe, open, got, drain, caller, outcome>>
ChildExits ==
  /\ ~exited /\ \A s \in Streams : plan[s] = 0
  /\ exited' = TRUE
  /\ UNCHANGED <<plan, total, pipe, open, got, drain, caller, outcome>>

\* read_bounded: up to one unit past the ceiling, or to the end.
ReadOne(s) ==
  /\ pipe[s] > 0 /\ got[s] <= Ceiling
  /\ pipe' = [pipe EXCEPT ![s] = @ - 1]
  /\ got' = [got EXCEPT ![s] = @ + 1]
ReadDone(s) == got[s] > Ceiling \/ (exited /\ pipe[s] = 0)

\* The thread runs beside its caller.
DrainTurn == TRUE

DrainReads ==
  /\ drain = "reading" /\ DrainTurn
  /\ \/ /\ ReadOne("err")
        /\ UNCHANGED <<drain, open>>
     \/ /\ ReadDone("err")
        /\ drain' = "ended"                  \* the closure drops its pipe
        /\ open' = [open EXCEPT !["err"] = FALSE]
        /\ UNCHANGED <<pipe, got>>
  /\ UNCHANGED <<plan, total, exited, caller, outcome>>

CallerReads ==
  /\ caller = "reading"
  /\ \/ /\ ReadOne("out")
        /\ UNCHANGED caller
     \/ /\ ReadDone("out")
        /\ caller' = "joining"
        /\ UNCHANGED <<pipe, got>>           \* child.stdout stays open
  /\ UNCHANGED <<plan, total, exited, open, drain, outcome>>

DrainJoined == drain = "ended"
CallerJoins ==
  /\ caller = "joining" /\ DrainJoined
  /\ caller' = "waiting"
  /\ UNCHANGED <<plan, total, exited, pipe, open, got, drain, outcome>>

CallerWaits ==
  /\ caller = "waiting" /\ exited
  /\ caller' = "returned"
  /\ outcome' = IF \E s \in Streams : got[s] > Ceiling THEN Refused ELSE "captured"
  /\ UNCHANGED <<plan, total, exited, pipe, open, got, drain>>

Next == \/ \E s \in Streams : ChildWrites(s) \/ ChildBreaks(s)
        \/ ChildExits
        \/ DrainReads
        \/ CallerReads \/ CallerJoins \/ CallerWaits

\* The operating system runs the child and both threads.
Fairness ==
  /\ WF_outputVars(ChildExits \/ \E s \in Streams : ChildBreaks(s))
  /\ \A s \in Streams : WF_outputVars(ChildWrites(s))
  /\ WF_outputVars(DrainReads)
  /\ WF_outputVars(CallerReads \/ CallerJoins \/ CallerWaits)
Spec == Init /\ [][Next]_outputVars /\ Fairness

-----------------------------------------------------------------------------
TypeOK == \A s \in Streams : /\ pipe[s] \in 0 .. PipeSize
                             /\ got[s] \in 0 .. Ceiling + 1

\* What is captured is all the child wrote, on both streams; a call is
\* refused exactly when a stream is past the ceiling.
CaptureIsComplete ==
  /\ outcome = "captured" => got = total
  /\ outcome = Refused => \E s \in Streams : total[s] > Ceiling

\* A call whose child keeps stdout under the ceiling returns, whatever it
\* writes to the other stream.
FittingCallReturns == total["out"] <= Ceiling ~> caller = "returned"

\* evaluator/mod.rs:105: "Run a child and capture both streams, refusing past
\* MAX_UNBOUNDED_READ_BYTES on either": every call is answered.
CallReturns == <>(caller = "returned")
=============================================================================
