--------------------------- MODULE TaskLifecycle ---------------------------
(***************************************************************************)
(* What spec/tasks.md promises of one task, whatever the others do: it     *)
(* runs, may reply provisionally, and ends once, with the last reply or a  *)
(* failure; what it ended with never changes while it is kept, and once    *)
(* forgotten its ID means nothing for ever.  Tasks implements this.        *)
(***************************************************************************)
CONSTANTS Ids, Messages, NoReply, Empty, Error

VARIABLE task

State(st, text) == [st |-> st, text |-> text]
Unborn == State("Unborn", NoReply)
Gone == State("Gone", NoReply)
Running(reply) == State("Running", reply)
Finished(result) == State("Finished", result)
Failed == State("Failed", Error)

Result(reply) == IF reply = NoReply THEN Empty ELSE reply

\* How one task may go from s to t.
Moves(s, t) ==
  \/ t = s
  \/ s = Unborn /\ t = Running(NoReply)
  \/ s.st = "Running" /\ \E m \in Messages : t = Running(m)
  \/ s.st = "Running" /\ (t = Finished(Result(s.text)) \/ t = Failed)
  \/ s = Running(NoReply) /\ t = Gone         \* no thread could be started
  \/ s.st \in {"Finished", "Failed"} /\ t = Gone

Init == task = [id \in Ids |-> Unborn]

Next == \A id \in Ids : Moves(task[id], task'[id])

Spec == Init /\ [][Next]_task
=============================================================================
