------------------------------- MODULE Tasks -------------------------------
(***************************************************************************)
(* The task runtime: one registry, shared under a lock by a top-level      *)
(* evaluator and all the workers below it, every one on a thread of its    *)
(* own.  src/src/evaluator/namespaces_task.rs.                             *)
(*                                                                         *)
(* An action is what one thread does while it holds the lock.  Task.run    *)
(* holds it to reserve a record, then lets go of it to spawn the thread    *)
(* and takes it again if that fails.  poll and isDone only read; a refused *)
(* Task.run, a reply that is too long and a reply outside a worker change  *)
(* nothing.  Texts are members of a set, every failure is one.             *)
(***************************************************************************)
EXTENDS Integers, FiniteSets

CONSTANTS
  Messages, NoReply, Empty, Error,  \* replies, None, "" and a failure's text
  MaxConcurrent,                    \* MAX_CONCURRENT_TASKS
  MaxRecords,                       \* MAX_TASK_RECORDS
  MaxId                             \* i64::MAX, which is never issued

ASSUME TextsAssumption == NoReply \notin Messages \cup {Empty, Error}
ASSUME LimitsAssumption ==
  /\ {MaxConcurrent, MaxRecords, MaxId} \subseteq Nat \ {0}
  /\ MaxConcurrent <= MaxRecords

Ids == 1 .. MaxId - 1
TopLevel == 0
Evaluators == {TopLevel} \cup Ids

VARIABLES
  registry,   \* the records, by ID
  nextId,
  alive,      \* evaluators whose thread is running
  spawning,   \* the ID an evaluator is spawning a thread for, 0 for none
  said        \* what each worker last replied (ghost)

tasksVars == <<registry, nextId, alive, spawning, said>>

Record(st, text) == [st |-> st, text |-> text]

Running == {id \in DOMAIN registry : registry[id].st = "Running"}
Terminal == DOMAIN registry \ Running

TasksInit ==
  /\ registry = [id \in {} |-> Record("Running", NoReply)]
  /\ nextId = 1
  /\ alive = {TopLevel}
  /\ spawning = [e \in Evaluators |-> 0]
  /\ said = [e \in Evaluators |-> NoReply]

-----------------------------------------------------------------------------
With(reg, id, record) == [i \in DOMAIN reg \cup {id} |-> IF i = id THEN record ELSE reg[i]]
Without(reg, ids) == [i \in DOMAIN reg \ ids |-> reg[i]]

\* mutant: a running task may be the oldest
OldestAny == {id \in DOMAIN registry : \A other \in DOMAIN registry : id <= other}

Oldest == {id \in Terminal : \A other \in Terminal : id <= other}

\* mutant: one record too many is kept
EvictedLate == IF Cardinality(DOMAIN registry) <= MaxRecords THEN registry
               ELSE Without(registry, Oldest)

\* evict_oldest_terminal_if_full.
Evicted == IF Cardinality(DOMAIN registry) < MaxRecords THEN registry
           ELSE Without(registry, Oldest)

\* The script of e is running and is not inside a Task.run.
Runs(e) == e \in alive /\ spawning[e] = 0

\* mutant: the next ID is not checked
ReserveUnchecked(e) ==
  /\ Runs(e)
  /\ Cardinality(Running) < MaxConcurrent
  /\ registry' = With(Evicted, nextId, Record("Running", NoReply))
  /\ nextId' = nextId + 1
  /\ spawning' = [spawning EXCEPT ![e] = nextId]
  /\ UNCHANGED <<alive, said>>

\* Task.run under the lock.
Reserve(e) ==
  /\ Runs(e)
  /\ Cardinality(Running) < MaxConcurrent
  /\ nextId < MaxId
  /\ registry' = With(Evicted, nextId, Record("Running", NoReply))
  /\ nextId' = nextId + 1
  /\ spawning' = [spawning EXCEPT ![e] = nextId]
  /\ UNCHANGED <<alive, said>>

\* Task.run when the IDs are exhausted: the record was already evicted.
IdsExhausted(e) ==
  /\ Runs(e)
  /\ Cardinality(Running) < MaxConcurrent
  /\ nextId = MaxId
  /\ registry' = Evicted
  /\ UNCHANGED <<nextId, alive, spawning, said>>

Spawned(e) ==
  /\ spawning[e] # 0
  /\ alive' = alive \cup {spawning[e]}
  /\ spawning' = [spawning EXCEPT ![e] = 0]
  /\ UNCHANGED <<registry, nextId, said>>

\* The operating system has no thread to give.
SpawnFails(e) ==
  /\ spawning[e] # 0
  /\ registry' = Without(registry, {spawning[e]})
  /\ spawning' = [spawning EXCEPT ![e] = 0]
  /\ UNCHANGED <<nextId, alive, said>>

\* mutant: the first reply is kept
ReplyFirst(w, m) ==
  /\ w # TopLevel /\ Runs(w)
  /\ said' = [said EXCEPT ![w] = m]
  /\ registry' = IF w \in Running /\ registry[w].text = NoReply
                 THEN With(registry, w, Record("Running", m)) ELSE registry
  /\ UNCHANGED <<nextId, alive, spawning>>

Reply(w, m) ==
  /\ w # TopLevel /\ Runs(w)
  /\ said' = [said EXCEPT ![w] = m]
  /\ registry' = IF w \in Running THEN With(registry, w, Record("Running", m)) ELSE registry
  /\ UNCHANGED <<nextId, alive, spawning>>

\* The worker's last reply, read under the lock that ends it.
LastReply(w) ==
  IF w \in Running /\ registry[w].text # NoReply THEN registry[w].text ELSE Empty

\* The script exits well, or fails, does not parse or panics.
Ends(w, record) ==
  /\ w # TopLevel /\ Runs(w)
  /\ registry' = With(registry, w, record)
  /\ alive' = alive \ {w}
  /\ UNCHANGED <<nextId, spawning, said>>

EndsWell(w) == Ends(w, Record("Finished", LastReply(w)))
EndsBadly(w) == Ends(w, Record("Failed", Error))

TasksNext ==
  \E e \in Evaluators :
    \/ Reserve(e) \/ IdsExhausted(e) \/ Spawned(e) \/ SpawnFails(e)
    \/ \E m \in Messages : Reply(e, m)
    \/ EndsWell(e) \/ EndsBadly(e)

TasksSpec == TasksInit /\ [][TasksNext]_tasksVars

-----------------------------------------------------------------------------
(* Properties. *)

Records == [st : {"Running", "Finished", "Failed"},
            text : Messages \cup {NoReply, Empty, Error}]

TasksTypeOK ==
  /\ DOMAIN registry \subseteq Ids
  /\ \A id \in DOMAIN registry : registry[id] \in Records
  /\ nextId \in 1 .. MaxId
  /\ alive \subseteq Evaluators
  /\ spawning \in [Evaluators -> 0 .. MaxId - 1]
  /\ said \in [Evaluators -> Messages \cup {NoReply}]

\* The records that count against the ceiling are exactly those of the workers
\* that run or are being spawned: no active worker loses its record to an
\* eviction, and none that ended or never started keeps a slot.
SlotsAreActive ==
  Running = (alive \ {TopLevel}) \cup {spawning[e] : e \in {x \in Evaluators : spawning[x] # 0}}

\* However many evaluators run Task.run at once, the two ceilings of
\* spec/tasks.md hold, the threads being spawned included.
CeilingsHold ==
  /\ Cardinality(Running) <= MaxConcurrent
  /\ Cardinality(alive \ {TopLevel}) <= MaxConcurrent
  /\ Cardinality(DOMAIN registry) <= MaxRecords

\* What anyone can learn of a task follows the lifecycle of spec/tasks.md.
Lifecycle(id) ==
  IF id \in Running THEN Record("Running", said[id])
  ELSE IF id \in DOMAIN registry THEN registry[id]
  ELSE Record(IF id < nextId THEN "Gone" ELSE "Unborn", NoReply)

Abstract == INSTANCE TaskLifecycle WITH task <- [id \in Ids |-> Lifecycle(id)]

\* Every task, seen through poll and isDone, obeys TaskLifecycle: it ends once,
\* with its last reply or a failure, and its ID is never used again.
FollowsLifecycle == Abstract!Spec
=============================================================================
