----------------------------- MODULE Processes -----------------------------
(***************************************************************************)
(* OS.spawn, OS.tick and OS.kill (namespaces_os.rs): children that write   *)
(* to a pipe, one reader thread per child, and a program that harvests     *)
(* what has finished without ever waiting.  The program, each child and    *)
(* each reader run side by side; a tick is one step per job, because the   *)
(* children go on while it runs.  A text is the number of units written to *)
(* stderr; pids are not reused in a run.                                   *)
(***************************************************************************)
EXTENDS Integers, Sequences, FiniteSets, SequencesExt

CONSTANTS Pids,         \* the processes the system can give
          PipeSize,     \* units a pipe holds before a write blocks
          Ceiling,      \* MAX_UNBOUNDED_READ_BYTES
          MaxWrites     \* bound: units a child writes

Over == -1              \* OVER_THE_READ_CEILING in the buffer
Killed == -1            \* no exit code: a signal
Codes == {0, 1}

VARIABLES child,        \* pid |-> what the operating system knows of it
          reader,       \* pid |-> the thread that drains its stderr
          spawned,      \* Evaluator.spawned, the pids in order
          tick,         \* the OS.tick in progress
          reported,     \* every report made, in order
          stopped       \* the program ended with a fatal ResourceError
processVars == <<child, reader, spawned, tick, reported, stopped>>

NoTick == [active |-> FALSE, i |-> 1, finished |-> <<>>, due |-> {}]

Init == /\ child = [p \in Pids |-> [state |-> "none", left |-> 0, wrote |-> 0, pipe |-> 0, code |-> 0]]
        /\ reader = [p \in Pids |-> [state |-> "none", got |-> 0, sink |-> 0]]
        /\ spawned = <<>>
        /\ tick = NoTick
        /\ reported = <<>>
        /\ stopped = FALSE

Idle == ~tick.active /\ ~stopped
Running(p) == child[p].state = "running"
Dead(p) == child[p].state = "dead"

\* The program.
Spawn(p, writes, code) ==
  /\ Idle
  /\ child[p].state = "none"
  /\ child' = [child EXCEPT ![p].state = "running", ![p].left = writes, ![p].code = code]
  /\ reader' = [reader EXCEPT ![p].state = "reading"]
  /\ spawned' = Append(spawned, p)
  /\ UNCHANGED <<tick, reported, stopped>>

\* The target of a kill may write on for a while and end by the signal, or
\* handle it and end as it likes, or ignore it (spec/processes.md:127-130).
Kill(p) ==
  /\ Idle
  /\ Running(p)
  /\ \E left \in 0 .. child[p].left, code \in Codes \cup {Killed} :
       child' = [child EXCEPT ![p].left = left, ![p].code = code]
  /\ UNCHANGED <<reader, spawned, tick, reported, stopped>>

\* The children.
ChildWrites(p) ==
  /\ Running(p) /\ child[p].left > 0
  /\ reader[p].state = "reading" /\ child[p].pipe < PipeSize
  /\ child' = [child EXCEPT ![p].left = @ - 1, ![p].wrote = @ + 1, ![p].pipe = @ + 1]
  /\ UNCHANGED <<reader, spawned, tick, reported, stopped>>

\* The reader gave up at the ceiling and closed the pipe.
ChildBreaks(p) ==
  /\ Running(p) /\ child[p].left > 0
  /\ reader[p].state = "ended"
  /\ \E code \in {Killed, child[p].code} :
       child' = [child EXCEPT ![p].state = "dead", ![p].code = code]
  /\ UNCHANGED <<reader, spawned, tick, reported, stopped>>

ChildExits(p) ==
  /\ Running(p) /\ child[p].left = 0
  /\ child' = [child EXCEPT ![p].state = "dead"]
  /\ UNCHANGED <<reader, spawned, tick, reported, stopped>>

\* The reader threads: read_bounded to the end of the pipe or one unit past
\* the ceiling, then one store into the shared buffer.
\* mutant: stderr is read when the child has ended
ReadAtExit(p) == reader[p].state = "reading" /\ Dead(p)
MayRead(p) == reader[p].state = "reading"

ReadInto(p) == [reader EXCEPT ![p].got = @ + 1]

ReaderReads(p) ==
  /\ MayRead(p)
  /\ child[p].pipe > 0 /\ reader[p].got <= Ceiling
  /\ child' = [child EXCEPT ![p].pipe = @ - 1]
  /\ reader' = ReadInto(p)
  /\ UNCHANGED <<spawned, tick, reported, stopped>>

ReaderStores(p) ==
  /\ MayRead(p)
  /\ \/ reader[p].got > Ceiling
     \/ Dead(p) /\ child[p].pipe = 0
  /\ reader' = [reader EXCEPT ![p].state = "ended",
                              ![p].sink = IF reader[p].got > Ceiling THEN Over ELSE reader[p].got]
  /\ UNCHANGED <<child, spawned, tick, reported, stopped>>

\* OS.tick.
TickStart ==
  /\ Idle
  /\ tick' = [NoTick EXCEPT !.active = TRUE, !.due = {p \in ToSet(spawned) : Dead(p)}]
  /\ UNCHANGED <<child, reader, spawned, reported, stopped>>

NextIndex == tick.i

\* mutant: the job is harvested and kept
HarvestedKept(i) == spawned
Harvested(i) == RemoveAt(spawned, i)

TickJob ==
  /\ tick.active /\ tick.i <= Len(spawned)
  /\ LET p == spawned[tick.i]
         text == reader[p].sink
         message == IF child[p].code = 0 THEN 0 ELSE text
     IN \/ /\ ~Dead(p)
           /\ tick' = [tick EXCEPT !.i = @ + 1]
           /\ UNCHANGED <<spawned, stopped>>
        \/ /\ Dead(p) /\ text # Over
           /\ spawned' = Harvested(tick.i)
           /\ tick' = [tick EXCEPT !.i = NextIndex,
                         !.finished = Append(@, [pid |-> p, code |-> child[p].code, text |-> message])]
           /\ UNCHANGED stopped
        \/ /\ Dead(p) /\ text = Over
           /\ spawned' = Harvested(tick.i)
           /\ tick' = NoTick
           /\ stopped' = TRUE
  /\ UNCHANGED <<child, reader, reported>>

Returned == tick.finished

TickEnd ==
  /\ tick.active /\ tick.i > Len(spawned)
  /\ reported' = reported \o Returned
  /\ tick' = NoTick
  /\ UNCHANGED <<child, reader, spawned, stopped>>

Tick == TickStart \/ TickJob \/ TickEnd
Next ==
  \/ \E p \in Pids : \/ \E w \in 0 .. MaxWrites, c \in Codes : Spawn(p, w, c)
                     \/ Kill(p)
                     \/ ChildWrites(p) \/ ChildBreaks(p) \/ ChildExits(p)
                     \/ ReaderReads(p) \/ ReaderStores(p)
  \/ Tick

\* The operating system runs every process and every thread; the program
\* polls, which is what OS.tick is for.
Fairness == /\ \A p \in Pids : /\ WF_processVars(ChildWrites(p) \/ ChildBreaks(p) \/ ChildExits(p))
                               /\ WF_processVars(ReaderReads(p) \/ ReaderStores(p))
            /\ WF_processVars(Tick)
Spec == Init /\ [][Next]_processVars /\ Fairness

-----------------------------------------------------------------------------
TypeOK ==
  /\ ToSet(spawned) \subseteq Pids
  /\ tick.i \in 1 .. Len(spawned) + 1
  /\ \A p \in Pids : /\ child[p].pipe \in 0 .. PipeSize
                     /\ reader[p].got \in 0 .. Ceiling + 1

\* "Each finished child is reported exactly once": never twice, and with the
\* code it ended with.
ReportedOnce ==
  LET all == reported \o tick.finished IN
  /\ \A i, j \in DOMAIN all : all[i].pid = all[j].pid => i = j
  /\ \A i \in DOMAIN all : Dead(all[i].pid) /\ all[i].code = child[all[i].pid].code

\* A tick that runs to its end leaves behind no child that had finished when
\* it began, however many finish together.
TickHarvestsAllDue == [][TickEnd => tick.due \cap ToSet(spawned) = {}]_processVars

\* A message is everything the child wrote or nothing, never a part.  That it is
\* there when it should be is FailuresSayWhy, which does not hold.
MessagesAreWhole ==
  \A i \in DOMAIN reported : reported[i].text \in {0, child[reported[i].pid].wrote}

\* A child that writes more than the pipe holds still comes to its end.
ChildrenEnd == \A p \in Pids : Running(p) ~> Dead(p)

\* ... and is reported, unless a ceiling ends the program first.
ChildrenAreReported ==
  \A p \in Pids : Dead(p) ~> (stopped \/ \E i \in DOMAIN reported : reported[i].pid = p)

\* spec/processes.md:101: a child's stderr "is captured and delivered later";
\* namespaces_os.rs:897: "The reader thread may still hold the last few bytes
\* when the child has only just exited. Join by dropping our handle and taking
\* what it collected": a child that failed and wrote why is reported with it.
\* Not so: nothing joins, and the handle that is dropped is not the thread's.
FailuresSayWhy ==
  \A i \in DOMAIN reported :
    reported[i].code # 0 /\ child[reported[i].pid].wrote > 0 => reported[i].text # 0
=============================================================================
