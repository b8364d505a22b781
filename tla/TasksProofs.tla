---------------------------- MODULE TasksProofs ----------------------------
(***************************************************************************)
(* The registry and the threads agree, and every task follows its          *)
(* lifecycle, for any number of workers, records and messages.             *)
(***************************************************************************)
EXTENDS Tasks, FiniteSetTheorems, WellFoundedInduction, TLAPS

-----------------------------------------------------------------------------
(* The inductive invariant. *)

\* IDs are used in order and each has at most one evaluator spawning it.
IdsInOrder ==
  /\ TopLevel \in alive
  /\ \A id \in DOMAIN registry \cup (alive \ {TopLevel}) : id < nextId
  /\ \A e \in Evaluators : spawning[e] # 0 =>
       /\ e \in alive
       /\ spawning[e] < nextId /\ spawning[e] \notin alive
       /\ \A f \in Evaluators : spawning[f] = spawning[e] => f = e

\* What a worker said is in its record; who has not started has said nothing.
RepliesRecorded ==
  /\ \A id \in Running : registry[id].text = said[id]
  /\ \A id \in Running \ alive : said[id] = NoReply
  /\ \A id \in Ids : id >= nextId => said[id] = NoReply

IInv == TasksTypeOK /\ SlotsAreActive /\ IdsInOrder /\ RepliesRecorded

-----------------------------------------------------------------------------
(* What the registry operators do. *)

\* Eviction only drops records, and none of a running task.
LEMMA EvictionSparesRunning ==
  /\ DOMAIN Evicted \subseteq DOMAIN registry
  /\ Running \subseteq DOMAIN Evicted
  /\ \A id \in DOMAIN Evicted : Evicted[id] = registry[id]
BY DEF Evicted, Without, Oldest, Terminal, Running

\* Task.run leaves the records it keeps alone and adds a running one.
LEMMA ReserveAdds ==
  ASSUME TasksTypeOK, IdsInOrder, NEW e \in Evaluators, Reserve(e)
  PROVE  /\ nextId \in Ids /\ nextId \notin DOMAIN registry /\ nextId \notin alive
         /\ DOMAIN registry' \subseteq DOMAIN registry \cup {nextId}
         /\ Running' = Running \cup {nextId}
         /\ registry'[nextId] = Record("Running", NoReply)
         /\ \A id \in DOMAIN registry' \ {nextId} : registry'[id] = registry[id]
<1>1. nextId \in Ids /\ nextId \notin DOMAIN registry
  BY LimitsAssumption DEF TasksTypeOK, IdsInOrder, Ids, Reserve
<1>2. nextId \notin alive
  BY <1>1 DEF IdsInOrder, Ids, TopLevel
<1>3. /\ DOMAIN registry' = DOMAIN Evicted \cup {nextId}
      /\ registry'[nextId] = Record("Running", NoReply)
      /\ \A id \in DOMAIN registry' \ {nextId} : registry'[id] = Evicted[id]
  BY DEF Reserve, With
<1>4. Running' = Running \cup {nextId}
  BY <1>3, <1>1, EvictionSparesRunning DEF Running, Record
<1> QED BY <1>1, <1>2, <1>3, <1>4, EvictionSparesRunning

-----------------------------------------------------------------------------
(* Type correctness. *)

LEMMA TypeInit == TasksInit => TasksTypeOK
BY LimitsAssumption DEF TasksInit, TasksTypeOK, Evaluators, TopLevel, Ids

LEMMA TypeStep == TasksTypeOK /\ [TasksNext]_tasksVars => TasksTypeOK'
<1> SUFFICES ASSUME TasksTypeOK, [TasksNext]_tasksVars PROVE TasksTypeOK'
  OBVIOUS
<1> USE LimitsAssumption
<1>1. CASE UNCHANGED tasksVars
  BY <1>1 DEF tasksVars, TasksTypeOK, Records
<1>2. ASSUME NEW e \in Evaluators, Reserve(e) PROVE TasksTypeOK'
  <2>1. nextId \in Ids /\ nextId' \in 1 .. MaxId
    BY <1>2 DEF TasksTypeOK, Ids, Reserve
  <2>2. DOMAIN registry' \subseteq Ids
    BY <1>2, <2>1, EvictionSparesRunning DEF Reserve, With, TasksTypeOK
  <2>3. \A id \in DOMAIN registry' : registry'[id] \in Records
    BY <1>2, EvictionSparesRunning DEF Reserve, With, TasksTypeOK, Records, Record
  <2> QED BY <1>2, <2>1, <2>2, <2>3 DEF Reserve, TasksTypeOK, Ids
<1>3. ASSUME NEW e \in Evaluators, IdsExhausted(e) PROVE TasksTypeOK'
  BY <1>3, EvictionSparesRunning DEF IdsExhausted, TasksTypeOK
<1>4. ASSUME NEW e \in Evaluators, Spawned(e) PROVE TasksTypeOK'
  BY <1>4 DEF Spawned, TasksTypeOK, Evaluators, Ids
<1>5. ASSUME NEW e \in Evaluators, SpawnFails(e) PROVE TasksTypeOK'
  BY <1>5 DEF SpawnFails, Without, TasksTypeOK
<1>6. ASSUME NEW e \in Evaluators, NEW m \in Messages, Reply(e, m) PROVE TasksTypeOK'
  BY <1>6 DEF Reply, With, TasksTypeOK, Records, Record, Running
<1>7. ASSUME NEW e \in Evaluators, NEW r \in Records, Ends(e, r) PROVE TasksTypeOK'
  BY <1>7 DEF Ends, With, TasksTypeOK, Evaluators
<1>8. \A e \in Evaluators : Record("Finished", LastReply(e)) \in Records /\ Record("Failed", Error) \in Records
  BY DEF TasksTypeOK, LastReply, Running, Records, Record
<1> QED BY <1>1, <1>2, <1>3, <1>4, <1>5, <1>6, <1>7, <1>8 DEF TasksNext, EndsWell, EndsBadly

\* Registry, threads and counters stay well-typed whatever the threads do.
THEOREM TypeCorrect == TasksSpec => []TasksTypeOK
BY TypeInit, TypeStep, PTL DEF TasksSpec

-----------------------------------------------------------------------------
(* The registry and the threads. *)

LEMMA InvInit == TasksInit => IInv
<1> SUFFICES ASSUME TasksInit PROVE IInv
  OBVIOUS
<1>1. TasksTypeOK
  BY TypeInit
<1>2. Running = {}
  BY DEF TasksInit, Running
<1> QED BY <1>1, <1>2 DEF TasksInit, IInv, SlotsAreActive, IdsInOrder, RepliesRecorded, Evaluators, Ids

LEMMA InvStep == IInv /\ [TasksNext]_tasksVars => IInv'
<1> SUFFICES ASSUME IInv, [TasksNext]_tasksVars PROVE IInv'
  OBVIOUS
<1> USE LimitsAssumption
<1>0. TasksTypeOK'
  BY TypeStep DEF IInv
<1>1. CASE UNCHANGED tasksVars
  BY <1>1, <1>0 DEF tasksVars, IInv, SlotsAreActive, IdsInOrder, RepliesRecorded, Running
<1>2. ASSUME NEW e \in Evaluators, Reserve(e) PROVE IInv'
  <2>1. /\ nextId \in Ids /\ nextId \notin DOMAIN registry /\ nextId \notin alive
        /\ DOMAIN registry' \subseteq DOMAIN registry \cup {nextId}
        /\ Running' = Running \cup {nextId}
        /\ registry'[nextId] = Record("Running", NoReply)
        /\ \A id \in DOMAIN registry' \ {nextId} : registry'[id] = registry[id]
    BY <1>2, ReserveAdds DEF IInv
  <2>2. /\ nextId' = nextId + 1 /\ alive' = alive /\ said' = said
        /\ spawning' = [spawning EXCEPT ![e] = nextId]
        /\ e \in alive /\ spawning[e] = 0
    BY <1>2 DEF Reserve, Runs
  <2>3. spawning \in [Evaluators -> Nat] /\ nextId \in Nat \ {0}
    BY DEF IInv, TasksTypeOK
  <2>4. SlotsAreActive'
    BY <2>1, <2>2, <2>3 DEF IInv, SlotsAreActive
  <2>5. IdsInOrder'
    BY <2>1, <2>2, <2>3 DEF IInv, IdsInOrder, TasksTypeOK, Ids, Evaluators
  <2>6. RepliesRecorded'
    BY <2>1, <2>2, <2>3 DEF IInv, RepliesRecorded, Running, Record, Ids
  <2> QED BY <1>0, <2>4, <2>5, <2>6 DEF IInv
<1>3. ASSUME NEW e \in Evaluators, IdsExhausted(e) PROVE IInv'
  <2>1. Running' = Running /\ \A id \in Running' : registry'[id] = registry[id]
    BY <1>3, EvictionSparesRunning DEF IdsExhausted, Running
  <2> QED BY <1>0, <1>3, <2>1, EvictionSparesRunning
          DEF IInv, IdsExhausted, SlotsAreActive, IdsInOrder, RepliesRecorded
<1>4. ASSUME NEW e \in Evaluators, Spawned(e) PROVE IInv'
  <2>1. Running' = Running /\ registry' = registry /\ nextId' = nextId /\ said' = said
    BY <1>4 DEF Spawned, Running
  <2>2. spawning \in [Evaluators -> Nat] /\ spawning[e] # 0
    BY <1>4 DEF IInv, TasksTypeOK, Spawned
  <2>3. SlotsAreActive'
    BY <1>4, <2>1, <2>2 DEF IInv, Spawned, SlotsAreActive, IdsInOrder, TopLevel
  <2>4. IdsInOrder'
    BY <1>4, <2>1, <2>2 DEF IInv, Spawned, IdsInOrder, TopLevel, Evaluators, Ids, TasksTypeOK
  <2>5. RepliesRecorded'
    BY <1>4, <2>1, <2>2 DEF IInv, Spawned, RepliesRecorded
  <2> QED BY <1>0, <2>3, <2>4, <2>5 DEF IInv
<1>5. ASSUME NEW e \in Evaluators, SpawnFails(e) PROVE IInv'
  <2>1. /\ Running' = Running \ {spawning[e]}
        /\ DOMAIN registry' \subseteq DOMAIN registry
        /\ \A id \in DOMAIN registry' : registry'[id] = registry[id]
    BY <1>5 DEF SpawnFails, Running, Without
  <2>2. spawning \in [Evaluators -> Nat] /\ spawning[e] # 0
    BY <1>5 DEF IInv, TasksTypeOK, SpawnFails
  <2>3. SlotsAreActive'
    BY <1>5, <2>1, <2>2 DEF IInv, SpawnFails, SlotsAreActive, IdsInOrder
  <2>4. IdsInOrder'
    BY <1>5, <2>1, <2>2 DEF IInv, SpawnFails, IdsInOrder
  <2>5. RepliesRecorded'
    BY <1>5, <2>1, <2>2 DEF IInv, SpawnFails, RepliesRecorded, Running
  <2> QED BY <1>0, <2>3, <2>4, <2>5 DEF IInv
<1>6. ASSUME NEW e \in Evaluators, NEW m \in Messages, Reply(e, m) PROVE IInv'
  <2>1. e \in Running /\ e \in Ids /\ e < nextId
    BY <1>6 DEF Reply, Runs, IInv, SlotsAreActive, IdsInOrder, Evaluators
  <2>2. registry' = With(registry, e, Record("Running", m))
    BY <1>6, <2>1 DEF Reply
  <2>3. /\ DOMAIN registry' = DOMAIN registry /\ Running' = Running
        /\ registry'[e].text = m
        /\ \A id \in Running \ {e} : registry'[id] = registry[id]
    BY <2>1, <2>2 DEF With, Record, Running
  <2>4. /\ said' = [said EXCEPT ![e] = m] /\ e \in alive
        /\ nextId' = nextId /\ alive' = alive /\ spawning' = spawning
    BY <1>6 DEF Reply, Runs
  <2>5. SlotsAreActive' /\ IdsInOrder'
    BY <2>3, <2>4 DEF IInv, SlotsAreActive, IdsInOrder
  <2>6. RepliesRecorded'
    <3>1. said \in [Evaluators -> Messages \cup {NoReply}] /\ nextId \in Nat
      BY DEF IInv, TasksTypeOK
    <3>2. \A id \in Running' : registry'[id].text = said'[id]
      BY <2>1, <2>3, <2>4, <3>1 DEF IInv, RepliesRecorded, Evaluators, SlotsAreActive
    <3>3. \A id \in Running' \ alive' : said'[id] = NoReply
      BY <2>3, <2>4, <3>1 DEF IInv, RepliesRecorded
    <3>4. \A id \in Ids : id >= nextId' => said'[id] = NoReply
      BY <2>1, <2>4, <3>1 DEF IInv, RepliesRecorded, Ids
    <3> QED BY <3>2, <3>3, <3>4 DEF RepliesRecorded
  <2> QED BY <1>0, <2>5, <2>6 DEF IInv
<1>7. ASSUME NEW e \in Evaluators, NEW r, r.st # "Running", Ends(e, r) PROVE IInv'
  <2>1. e \in Running /\ e # TopLevel /\ e \in alive /\ spawning[e] = 0
    BY <1>7 DEF Ends, Runs, IInv, SlotsAreActive
  <2>2. /\ DOMAIN registry' = DOMAIN registry /\ Running' = Running \ {e}
        /\ \A id \in Running' : registry'[id] = registry[id]
    BY <1>7, <2>1 DEF Ends, With, Running
  <2>3. SlotsAreActive'
    BY <1>7, <2>1, <2>2 DEF IInv, Ends, SlotsAreActive, IdsInOrder
  <2>4. IdsInOrder'
    BY <1>7, <2>1, <2>2 DEF IInv, Ends, IdsInOrder
  <2>5. RepliesRecorded'
    BY <1>7, <2>1, <2>2 DEF IInv, Ends, RepliesRecorded
  <2> QED BY <1>0, <2>3, <2>4, <2>5 DEF IInv
<1>8. \A e \in Evaluators :
        Record("Finished", LastReply(e)).st # "Running" /\ Record("Failed", Error).st # "Running"
  BY DEF Record
<1> QED BY <1>1, <1>2, <1>3, <1>4, <1>5, <1>6, <1>7, <1>8 DEF TasksNext, EndsWell, EndsBadly

LEMMA InvAlways == TasksSpec => []IInv
BY InvInit, InvStep, PTL DEF TasksSpec

\* No active worker ever loses its record to an eviction and no other task
\* holds a slot: eviction, spawning and ending never get out of step.
THEOREM SlotsAlwaysActive == TasksSpec => []SlotsAreActive
<1>1. IInv => SlotsAreActive
  BY DEF IInv
<1> QED BY <1>1, InvAlways, PTL

-----------------------------------------------------------------------------
(* The ceilings. *)

LEMMA FiniteIds == IsFiniteSet(Ids)
BY LimitsAssumption, FS_Interval, MaxId - 1 \in Int DEF Ids

LEMMA FiniteRegistry ==
  ASSUME TasksTypeOK
  PROVE  /\ IsFiniteSet(DOMAIN registry) /\ Cardinality(DOMAIN registry) \in Nat
         /\ IsFiniteSet(Running) /\ Cardinality(Running) \in Nat
<1>2. IsFiniteSet(DOMAIN registry)
  BY FiniteIds, FS_Subset DEF TasksTypeOK
<1>3. IsFiniteSet(Running)
  BY <1>2, FS_Subset, Running \in SUBSET DOMAIN registry DEF Running
<1> QED BY <1>2, <1>3, FS_CardinalityType

LEMMA OldestExists ==
  ASSUME TasksTypeOK, Terminal # {}
  PROVE  \E id \in Terminal : id \in Oldest
<1>1. Terminal \subseteq Nat
  BY LimitsAssumption DEF TasksTypeOK, Terminal, Ids
<1>2. PICK id \in Terminal : \A other \in Terminal : ~(<<other, id>> \in OpToRel(<, Nat))
  BY <1>1, NatLessThanWellFounded, WFMin
<1>3. ASSUME NEW other \in Terminal PROVE id <= other
  <2>1. <<other, id>> \in Nat \X Nat
    BY <1>1
  <2>2. ~(other < id)
    BY <1>2, <2>1, Zenon DEF OpToRel
  <2> QED BY <1>1, <2>2
<1> QED BY <1>3 DEF Oldest

\* Task.run under a worker slot to spare finds room for its record.
LEMMA EvictionMakesRoom ==
  ASSUME TasksTypeOK, CeilingsHold, Cardinality(Running) < MaxConcurrent
  PROVE  /\ IsFiniteSet(DOMAIN Evicted)
         /\ Cardinality(DOMAIN Evicted) \in Nat
         /\ Cardinality(DOMAIN Evicted) < MaxRecords
<1> USE LimitsAssumption
<1>0. /\ IsFiniteSet(DOMAIN registry) /\ Cardinality(DOMAIN registry) \in Nat
      /\ Cardinality(Running) \in Nat
  BY FiniteRegistry
<1>1. CASE Cardinality(DOMAIN registry) < MaxRecords
  BY <1>0, <1>1 DEF Evicted
<1>2. CASE ~(Cardinality(DOMAIN registry) < MaxRecords)
  <2>1. Terminal # {}
    BY <1>0, <1>2 DEF Terminal, Running
  <2>2. PICK id \in Terminal : id \in Oldest
    BY <2>1, OldestExists
  <2>3. DOMAIN Evicted = DOMAIN registry \ Oldest
    BY <1>2 DEF Evicted, Without
  <2>4. /\ IsFiniteSet(DOMAIN registry \ {id})
        /\ Cardinality(DOMAIN registry \ {id}) = Cardinality(DOMAIN registry) - 1
    BY <1>0, <2>2, FS_RemoveElement DEF Terminal
  <2>5. DOMAIN Evicted \in SUBSET (DOMAIN registry \ {id})
    BY <2>2, <2>3
  <2>6. /\ IsFiniteSet(DOMAIN Evicted)
        /\ Cardinality(DOMAIN Evicted) <= Cardinality(DOMAIN registry \ {id})
    BY <2>4, <2>5, FS_Subset
  <2>7. Cardinality(DOMAIN Evicted) \in Nat
    BY <2>6, FS_CardinalityType
  <2> QED BY <1>0, <2>4, <2>6, <2>7 DEF CeilingsHold
<1> QED BY <1>1, <1>2

LEMMA CeilingsInit == TasksInit => CeilingsHold
<1> SUFFICES ASSUME TasksInit PROVE CeilingsHold
  OBVIOUS
<1>1. Running = {} /\ DOMAIN registry = {} /\ alive \ {TopLevel} = {}
  BY DEF TasksInit, Running
<1>2. Cardinality({}) = 0
  BY FS_EmptySet
<1>3. 0 <= MaxConcurrent /\ 0 <= MaxRecords
  BY LimitsAssumption
<1>4. /\ Cardinality(Running) = 0 /\ Cardinality(DOMAIN registry) = 0
      /\ Cardinality(alive \ {TopLevel}) = 0
  BY <1>1, <1>2, Zenon
<1> QED BY <1>3, <1>4 DEF CeilingsHold

LEMMA CeilingsStep == IInv /\ CeilingsHold /\ [TasksNext]_tasksVars => CeilingsHold'
<1> SUFFICES ASSUME IInv, CeilingsHold, [TasksNext]_tasksVars
    PROVE CeilingsHold'
  OBVIOUS
<1> USE LimitsAssumption
<1>0. /\ TasksTypeOK /\ TasksTypeOK' /\ SlotsAreActive'
      /\ IsFiniteSet(DOMAIN registry) /\ Cardinality(DOMAIN registry) \in Nat
      /\ IsFiniteSet(Running) /\ Cardinality(Running) \in Nat
  BY FiniteRegistry, InvStep DEF IInv
<1>a. IsFiniteSet(Running') /\ Cardinality(Running') \in Nat
  <2>1. Running' \in SUBSET Ids
    BY <1>0 DEF TasksTypeOK, Running
  <2> QED BY <2>1, FiniteIds, FS_Subset, FS_CardinalityType
<1> SUFFICES /\ Cardinality(Running') <= MaxConcurrent
             /\ Cardinality(DOMAIN registry') <= MaxRecords
  <2>1. (alive \ {TopLevel})' \in SUBSET Running'
    BY <1>0 DEF SlotsAreActive
  <2>2. IsFiniteSet((alive \ {TopLevel})')
        /\ Cardinality((alive \ {TopLevel})') <= Cardinality(Running')
    BY <1>a, <2>1, FS_Subset
  <2>3. Cardinality((alive \ {TopLevel})') \in Nat
    BY <2>2, FS_CardinalityType
  <2> QED BY <1>a, <2>2, <2>3 DEF CeilingsHold
\* Most steps add nothing to either set.
<1>b. ASSUME Running' \subseteq Running, DOMAIN registry' \subseteq DOMAIN registry
      PROVE  /\ Cardinality(Running') <= MaxConcurrent
             /\ Cardinality(DOMAIN registry') <= MaxRecords
  <2>1. Cardinality(Running') <= Cardinality(Running)
    BY <1>0, <1>b, FS_Subset
  <2>2. /\ IsFiniteSet(DOMAIN registry')
        /\ Cardinality(DOMAIN registry') <= Cardinality(DOMAIN registry)
    BY <1>0, <1>b, FS_Subset
  <2>3. Cardinality(DOMAIN registry') \in Nat
    BY <2>2, FS_CardinalityType
  <2> QED BY <1>0, <1>a, <2>1, <2>2, <2>3 DEF CeilingsHold
<1>1. CASE UNCHANGED tasksVars
  BY <1>1, <1>b DEF tasksVars, Running
<1>2. ASSUME NEW e \in Evaluators, Reserve(e)
      PROVE  /\ Cardinality(Running') <= MaxConcurrent
             /\ Cardinality(DOMAIN registry') <= MaxRecords
  <2>1. Cardinality(Running) < MaxConcurrent
    BY <1>2 DEF Reserve
  <2>2. Running' = Running \cup {nextId} /\ nextId \notin DOMAIN registry
    BY <1>2, ReserveAdds DEF IInv
  <2>3. Cardinality(Running') = Cardinality(Running) + 1
    BY <1>0, <2>2, FS_AddElement DEF Running
  <2>4. /\ IsFiniteSet(DOMAIN Evicted) /\ Cardinality(DOMAIN Evicted) \in Nat
        /\ Cardinality(DOMAIN Evicted) < MaxRecords
    BY <1>0, <2>1, EvictionMakesRoom
  <2>5. DOMAIN registry' = DOMAIN Evicted \cup {nextId} /\ nextId \notin DOMAIN Evicted
    BY <1>2, <2>2, EvictionSparesRunning DEF Reserve, With
  <2>6. Cardinality(DOMAIN registry') = Cardinality(DOMAIN Evicted) + 1
    BY <2>4, <2>5, FS_AddElement
  <2> QED BY <1>0, <2>1, <2>3, <2>4, <2>6
<1>3. ASSUME NEW e \in Evaluators, IdsExhausted(e)
      PROVE  Running' \subseteq Running /\ DOMAIN registry' \subseteq DOMAIN registry
  BY <1>3, EvictionSparesRunning DEF IdsExhausted, Running
<1>4. ASSUME NEW e \in Evaluators, Spawned(e) \/ SpawnFails(e)
      PROVE  Running' \subseteq Running /\ DOMAIN registry' \subseteq DOMAIN registry
  BY <1>4 DEF Spawned, SpawnFails, Without, Running
<1>5. ASSUME NEW e \in Evaluators, NEW m \in Messages, Reply(e, m)
      PROVE  Running' \subseteq Running /\ DOMAIN registry' \subseteq DOMAIN registry
  BY <1>5 DEF Reply, With, Running, Record
<1>6. ASSUME NEW e \in Evaluators, NEW r, r.st # "Running", Ends(e, r)
      PROVE  Running' \subseteq Running /\ DOMAIN registry' \subseteq DOMAIN registry
  <2>1. e \in Running
    BY <1>6 DEF Ends, Runs, IInv, SlotsAreActive
  <2> QED BY <1>6, <2>1 DEF Ends, With, Running
<1>7. \A e \in Evaluators :
        Record("Finished", LastReply(e)).st # "Running" /\ Record("Failed", Error).st # "Running"
  BY DEF Record
<1> QED BY <1>1, <1>2, <1>3, <1>4, <1>5, <1>6, <1>7, <1>b DEF TasksNext, EndsWell, EndsBadly

\* The ceilings on workers and on records hold for every number of evaluators
\* running Task.run at once, and a full registry always has a record to evict.
THEOREM CeilingsAlwaysHold == TasksSpec => []CeilingsHold
BY CeilingsInit, CeilingsStep, InvAlways, PTL DEF TasksSpec

-----------------------------------------------------------------------------
(* Every task follows its lifecycle. *)

LEMMA LifecycleInit == TasksInit => \A id \in Ids : Lifecycle(id) = Record("Unborn", NoReply)
BY LimitsAssumption DEF TasksInit, Lifecycle, Running, Terminal, Ids

LEMMA LifecycleStep ==
  ASSUME IInv, [TasksNext]_tasksVars, NEW id \in Ids
  PROVE  Abstract!Moves(Lifecycle(id), Lifecycle(id)')
<1> USE DEF Lifecycle, Abstract!Moves, Abstract!State, Abstract!Running, Abstract!Finished,
            Abstract!Failed, Abstract!Gone, Abstract!Unborn, Abstract!Result, Record
<1>0. /\ TasksTypeOK /\ Running \subseteq DOMAIN registry /\ nextId \in Nat
      /\ \A i \in Terminal : registry[i].st \in {"Finished", "Failed"}
      /\ \A i \in DOMAIN registry : i < nextId
  BY DEF IInv, IdsInOrder, TasksTypeOK, Running, Terminal, Records
<1>1. CASE UNCHANGED tasksVars
  BY <1>1 DEF tasksVars, Running, Terminal
<1>2. ASSUME NEW e \in Evaluators, Reserve(e)
      PROVE  Abstract!Moves(Lifecycle(id), Lifecycle(id)')
  <2>1. /\ nextId \in Ids /\ nextId \notin DOMAIN registry
        /\ DOMAIN registry' \subseteq DOMAIN registry \cup {nextId}
        /\ Running' = Running \cup {nextId}
        /\ \A i \in DOMAIN registry' \ {nextId} : registry'[i] = registry[i]
    BY <1>2, ReserveAdds DEF IInv
  <2>2. nextId' = nextId + 1 /\ said' = said
    BY <1>2 DEF Reserve
  <2>3. CASE id = nextId
    <3>1. said[id] = NoReply
      BY <2>3, <1>0 DEF IInv, RepliesRecorded
    <3>2. Lifecycle(id) = Record("Unborn", NoReply)
      BY <2>1, <2>3, <1>0 DEF Terminal
    <3>3. Lifecycle(id)' = Record("Running", NoReply)
      BY <2>1, <2>2, <2>3, <3>1
    <3> QED BY <3>2, <3>3
  <2>4. CASE id # nextId /\ id \in Running
    BY <2>1, <2>2, <2>4
  <2>5. CASE id # nextId /\ id \in Terminal /\ id \in DOMAIN registry'
    BY <2>1, <2>2, <2>5 DEF Terminal
  <2>6. CASE id # nextId /\ id \in Terminal /\ id \notin DOMAIN registry'
    <3>1. Lifecycle(id)' = Record("Gone", NoReply)
      BY <2>1, <2>2, <2>6, <1>0 DEF Terminal
    <3>2. Lifecycle(id) = registry[id]
      BY <2>6 DEF Terminal
    <3> QED BY <3>1, <3>2, <2>6, <1>0
  <2>7. CASE id # nextId /\ id \notin DOMAIN registry
    BY <2>1, <2>2, <2>7, <1>0 DEF Terminal, Ids
  <2> QED BY <2>3, <2>4, <2>5, <2>6, <2>7 DEF Terminal
<1>3. ASSUME NEW e \in Evaluators, IdsExhausted(e)
      PROVE  Abstract!Moves(Lifecycle(id), Lifecycle(id)')
  <2>1. /\ Running' = Running /\ DOMAIN registry' \subseteq DOMAIN registry
        /\ \A i \in DOMAIN registry' : registry'[i] = registry[i]
        /\ nextId' = nextId /\ said' = said
    BY <1>3, EvictionSparesRunning DEF IdsExhausted, Running
  <2>2. CASE id \in Terminal /\ id \notin DOMAIN registry'
    <3>1. Lifecycle(id)' = Record("Gone", NoReply)
      BY <2>1, <2>2, <1>0 DEF Terminal
    <3>2. Lifecycle(id) = registry[id]
      BY <2>2 DEF Terminal
    <3> QED BY <3>1, <3>2, <2>2, <1>0
  <2>3. CASE ~(id \in Terminal /\ id \notin DOMAIN registry')
    BY <2>1, <2>3 DEF Terminal
  <2> QED BY <2>2, <2>3
<1>4. ASSUME NEW e \in Evaluators, Spawned(e)
      PROVE  Abstract!Moves(Lifecycle(id), Lifecycle(id)')
  BY <1>4 DEF Spawned, Running, Terminal
<1>5. ASSUME NEW e \in Evaluators, SpawnFails(e)
      PROVE  Abstract!Moves(Lifecycle(id), Lifecycle(id)')
  <2>1. /\ Running' = Running \ {spawning[e]}
        /\ DOMAIN registry' = DOMAIN registry \ {spawning[e]}
        /\ \A i \in DOMAIN registry' : registry'[i] = registry[i]
        /\ nextId' = nextId /\ said' = said
    BY <1>5 DEF SpawnFails, Running, Without
  <2>2. spawning[e] \in Running \ alive /\ spawning[e] < nextId
    BY <1>5 DEF SpawnFails, IInv, SlotsAreActive, IdsInOrder
  <2>3. CASE id = spawning[e]
    <3>1. Lifecycle(id) = Record("Running", NoReply)
      BY <2>2, <2>3 DEF IInv, RepliesRecorded
    <3>2. Lifecycle(id)' = Record("Gone", NoReply)
      BY <2>1, <2>2, <2>3 DEF Terminal
    <3> QED BY <3>1, <3>2
  <2>4. CASE id # spawning[e]
    BY <2>1, <2>4 DEF Terminal
  <2> QED BY <2>3, <2>4
<1>6. ASSUME NEW e \in Evaluators, NEW m \in Messages, Reply(e, m)
      PROVE  Abstract!Moves(Lifecycle(id), Lifecycle(id)')
  <2>1. e \in Running /\ e \in Ids
    BY <1>6 DEF Reply, Runs, IInv, SlotsAreActive, Evaluators
  <2>2. /\ DOMAIN registry' = DOMAIN registry /\ Running' = Running
        /\ \A i \in DOMAIN registry \ {e} : registry'[i] = registry[i]
        /\ nextId' = nextId /\ said' = [said EXCEPT ![e] = m]
    BY <1>6, <2>1 DEF Reply, With, Running
  <2>3. CASE id = e
    <3>1. said'[id] = m
      BY <2>1, <2>2, <2>3, <1>0 DEF TasksTypeOK, Evaluators
    <3>2. Lifecycle(id)' = Record("Running", m)
      BY <2>1, <2>2, <2>3, <3>1
    <3>3. Lifecycle(id).st = "Running"
      BY <2>1, <2>3
    <3> QED BY <3>2, <3>3
  <2>4. CASE id # e
    BY <2>2, <2>4 DEF Terminal
  <2> QED BY <2>3, <2>4
<1>7. ASSUME NEW e \in Evaluators, NEW r, Ends(e, r),
             r = Record("Finished", LastReply(e)) \/ r = Record("Failed", Error)
      PROVE  Abstract!Moves(Lifecycle(id), Lifecycle(id)')
  <2>1. e \in Running
    BY <1>7 DEF Ends, Runs, IInv, SlotsAreActive
  <2>2. /\ DOMAIN registry' = DOMAIN registry /\ Running' = Running \ {e}
        /\ registry'[e] = r
        /\ \A i \in DOMAIN registry \ {e} : registry'[i] = registry[i]
        /\ nextId' = nextId /\ said' = said
    BY <1>7, <2>1 DEF Ends, With, Running
  <2>3. CASE id = e
    <3>1. Lifecycle(id) = Record("Running", said[id])
      BY <2>1, <2>3
    <3>2. Lifecycle(id)' = r
      BY <2>1, <2>2, <2>3, <1>0
    <3>3. LastReply(e) = Abstract!Result(said[id])
      BY <2>1, <2>3 DEF LastReply, IInv, RepliesRecorded
    <3> QED BY <3>1, <3>2, <3>3, <1>7
  <2>4. CASE id # e
    BY <2>2, <2>4 DEF Terminal
  <2> QED BY <2>3, <2>4
<1> QED BY <1>1, <1>2, <1>3, <1>4, <1>5, <1>6, <1>7 DEF TasksNext, EndsWell, EndsBadly

\* Whatever the other threads do, each task ends once, with its last reply or a
\* failure, keeps that result while it is kept, and its ID is never used again.
THEOREM TasksFollowLifecycle == TasksSpec => FollowsLifecycle
<1>1. TasksInit => Abstract!Init
  BY LifecycleInit DEF Abstract!Init, Abstract!Unborn, Abstract!State, Record
<1>2. IInv /\ [TasksNext]_tasksVars => Abstract!Next
  BY LifecycleStep DEF Abstract!Next
<1> QED BY <1>1, <1>2, InvAlways, PTL DEF TasksSpec, Abstract!Spec, FollowsLifecycle
=============================================================================
