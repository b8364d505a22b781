------------------------ MODULE PackageInstallProofs ------------------------
(***************************************************************************)
(* What PackageInstall promises for every set of packages, releases and    *)
(* versions, every Faults and every MaxFaults.  The type invariant and     *)
(* NeverLost need no assumption.  The rest is proved for the transaction   *)
(* itself: no `sz uninstall`, which bypasses it, and no rename of a local  *)
(* package that fails: of either TLC refutes them (README, section 8).     *)
(***************************************************************************)
EXTENDS PackageInstall, TLAPS

\* What each program point of the process has established about its locals.
Control ==
  /\ run.recovering => Pending
  /\ pc \in {"apply", "restore", "lock", "manifest", "unlink"} =>
       Pending /\ Target = journal.pkg
  /\ pc \in {"swapOut", "swapIn", "dropParked"} =>
       \/ Pending /\ Target = journal.pkg
       \/ ~run.recovering /\ run.pkg \in GlobalPkgs /\ run.staged \in Releases
  /\ pc = "manifest" => journal.manifest # None
  /\ pc \in {"idle", "recover", "load", "items", "begin", "stage", "verify",
             "create", "flush", "rmTree", "rmManifest", "rmLock", "wipe"} =>
       ~run.recovering
  /\ pc \in {"begin", "stage", "verify", "create", "flush"} => run.pkg \in Pkgs
  /\ pc = "clean" /\ ~run.recovering => run.pkg \in Pkgs
  /\ pc \in {"verify", "create", "flush"} => run.staged \in Releases
  /\ pc \in {"verify", "create", "flush"} => run.ver = VersionOf[run.staged]
  /\ pc \in {"create", "flush"} => run.pkg \in Local /\ ~PlanFails
  /\ run.todo # {} => manifest \in Manifests

TypeInv == TypeOK /\ Control

\* The forms a journal and a manifest have are apart.
LEMMA Forms ==
  /\ None \notin CommitPlan /\ Torn \notin CommitPlan
  /\ None \notin Manifests /\ Torn \notin Manifests
BY MarkersAssumption

\* A process's locals keep their types through each kind of update.
LEMMA IdleType == Idle \in Runs
BY DEF Runs, Idle, Local

LEMMA StartType ==
  ASSUME NEW p \in Pkgs, NEW v \in Versions, NEW b \in BOOLEAN
  PROVE  [Idle EXCEPT !.pkg = p, !.ver = v, !.record = b] \in Runs
BY DEF Runs, Idle

LEMMA NamedType ==
  ASSUME NEW p \in Pkgs
  PROVE  [Idle EXCEPT !.pkg = p] \in Runs
BY DEF Runs, Idle

LEMMA TodoType ==
  ASSUME NEW t \in SUBSET Local
  PROVE  [Idle EXCEPT !.todo = t] \in Runs
BY DEF Runs, Idle

LEMMA ItemType ==
  ASSUME NEW r \in Runs, NEW p \in Local, NEW v \in Versions \cup {None}
  PROVE  [r EXCEPT !.pkg = p, !.ver = v, !.todo = @ \ {p}] \in Runs
BY DEF Runs, Local

LEMMA OldType ==
  ASSUME NEW r \in Runs, NEW x \in Releases \cup {None}
  PROVE  /\ [r EXCEPT !.old = x] \in Runs
         /\ [r EXCEPT !.staged = x] \in Runs
         /\ \A b \in BOOLEAN : [r EXCEPT !.recovering = b] \in Runs
         /\ [r EXCEPT !.recovering = FALSE, !.old = None] \in Runs
BY DEF Runs

LEMMA RunFields ==
  ASSUME NEW r \in Runs
  PROVE  /\ r.pkg \in Pkgs \cup {None}
         /\ r.ver \in Versions \cup {None}
         /\ r.record \in BOOLEAN
         /\ r.todo \in SUBSET Local
         /\ r.recovering \in BOOLEAN
         /\ r.old \in Releases \cup {None}
         /\ r.staged \in Releases \cup {None}
BY DEF Runs

\* A journalled plan is well formed.
LEMMA PlanType ==
  ASSUME TypeOK, Pending
  PROVE  /\ journal \in CommitPlan
         /\ journal.pkg \in Local /\ journal.rel \in Releases
         /\ journal.lock \in Lockfiles
         /\ journal.manifest \in Manifests \cup {None}
BY DEF TypeOK, Pending, CommitPlan

\* A fault is counted within its bound.
LEMMA FaultType ==
  ASSUME TypeOK, NEW kind, Fault(kind)
  PROVE  faults' \in 0 .. MaxFaults
BY ConstantsAssumption DEF TypeOK, Fault

\* What `sz install` goes on to.
LEMMA ItemDoneType ==
  ASSUME TypeOK, ItemDone
  PROVE  /\ run' \in Runs /\ pc' \in {"idle", "items"}
         /\ run'.recovering = FALSE /\ (run'.todo # {} => run.todo # {})
<1>1. run.todo \in SUBSET Local
  BY DEF TypeOK, Runs
<1>2. CASE run.todo = {}
  <2>1. pc' = "idle" /\ run' = Idle
    BY <1>2 DEF ItemDone, Return
  <2>2. Idle.recovering = FALSE /\ Idle.todo = {}
    BY DEF Idle
  <2>3. QED
    BY <2>1, <2>2, IdleType
<1>3. CASE run.todo # {}
  <2>1. pc' = "items" /\ run' = [Idle EXCEPT !.todo = run.todo]
    BY <1>3 DEF ItemDone
  <2>2. QED
    BY <1>1, <1>3, <2>1, TodoType DEF Idle
<1> QED
  BY <1>2, <1>3

LEMMA AfterSwapType ==
  ASSUME TypeOK, Control, pc \in {"swapIn", "dropParked"}, AfterSwap,
         UNCHANGED <<manifest, journal>>
  PROVE  run' \in Runs /\ pc' \in Phases /\ Control'
<1>1. CASE Target \in GlobalPkgs
  <2>1. run' \in Runs /\ ~run'.recovering /\ pc' \in {"idle", "items"} /\ (run'.todo # {} => run.todo # {})
    BY <1>1, ItemDoneType DEF AfterSwap
  <2>2. QED
    BY <2>1 DEF Control, Phases
<1>2. CASE Target \notin GlobalPkgs
  <2>1. Pending /\ Target = journal.pkg
    BY <1>2 DEF Control, Target
  <2>2. pc' = "lock" /\ run' = run
    BY <1>2 DEF AfterSwap, Goto
  <2>3. QED
    BY <2>1, <2>2 DEF Control, Phases, Pending, Target, TypeOK
<1> QED
  BY <1>1, <1>2

\* The manifest is whole while there are items to do.
LEMMA NextVersion ==
  ASSUME Control, NEW p \in Local, p \in run.todo
  PROVE  manifest[p] \in Versions \cup {None}
<1>1. run.todo # {}
  OBVIOUS
<1> QED
  BY <1>1 DEF Control, Manifests

\* The plan a transaction journals is well formed.
LEMMA NewPlanType ==
  ASSUME TypeOK, Control, pc = "flush"
  PROVE  Plan \in CommitPlan
<1>1. run.pkg \in Local /\ run.staged \in Releases /\ run.ver \in Versions /\ ~PlanFails
  BY ConstantsAssumption DEF Control
<1>2. [lock EXCEPT ![run.pkg] = run.staged] \in Lockfiles
  BY <1>1 DEF TypeOK, Lockfiles
<1>3. run.record /\ manifest # None => [manifest EXCEPT ![run.pkg] = run.ver] \in Manifests
  BY <1>1 DEF TypeOK, Manifests, PlanFails
<1> QED
  BY <1>1, <1>2, <1>3 DEF Plan, CommitPlan

\* What a swap works on: the journalled package or a global one.
LEMMA SwapTarget ==
  ASSUME TypeOK, Control, pc \in {"swapOut", "swapIn", "dropParked"}
  PROVE  Target \in Pkgs /\ (Target \in GlobalPkgs => run.staged \in Releases \cup {None})
<1>1. CASE Pending /\ Target = journal.pkg
  BY <1>1, PlanType DEF Local, TypeOK, Runs
<1>2. CASE ~run.recovering /\ run.pkg \in GlobalPkgs /\ run.staged \in Releases
  BY <1>2, ConstantsAssumption DEF Target
<1> QED
  BY <1>1, <1>2 DEF Control

LEMMA TypeStep == TypeInv /\ [Next]_vars => TypeInv'
<1> SUFFICES ASSUME TypeInv, [Next]_vars PROVE TypeInv'
  OBVIOUS
<1>0. TypeOK /\ Control
  BY DEF TypeInv
<1>1. CASE \E p \in Pkgs, v \in Versions : StartInstall(p, v)
  <2> PICK p \in Pkgs, v \in Versions : StartInstall(p, v)
    BY <1>1
  <2> DEFINE recorded == p \in Local
  <2>1. /\ recorded \in BOOLEAN
        /\ run' = [Idle EXCEPT !.pkg = p, !.ver = v, !.record = recorded]
    BY DEF StartInstall
  <2> HIDE DEF recorded
  <2>2. run' \in Runs /\ ~run'.recovering /\ run'.pkg = p /\ run'.todo = {}
    BY <2>1, StartType DEF Idle
  <2>3. /\ pc' \in {"begin", "recover"}
        /\ UNCHANGED <<tree, parked, staging, lock, manifest, journal, faults>>
    BY DEF StartInstall, disk
  <2>4. TypeOK'
    BY <1>0, <2>2, <2>3 DEF TypeOK, Phases
  <2>5. Control'
    BY <2>2, <2>3 DEF Control
  <2>6. QED
    BY <2>4, <2>5 DEF TypeInv
<1>2. CASE StartInstallAll
  <2>1. TypeOK'
    BY <1>0, <1>2, IdleType DEF StartInstallAll, TypeOK, disk, Phases
  <2>2. Control'
    BY <1>0, <1>2 DEF StartInstallAll, Control, Pending, Target, Goto, Return, Idle, Fault, disk
  <2>3. QED
    BY <2>1, <2>2 DEF TypeInv
<1>3. CASE \E p \in Pkgs : StartUninstall(p)
  <2>1. TypeOK'
    BY <1>0, <1>3, NamedType DEF StartUninstall, TypeOK, disk, Phases
  <2>2. Control'
    BY <1>0, <1>3 DEF StartUninstall, Control, Pending, Target, Goto, Return, Idle, Fault, disk
  <2>3. QED
    BY <2>1, <2>2 DEF TypeInv
<1>4. CASE StartUninstallAllGlobal
  <2>1. TypeOK'
    BY <1>0, <1>4, IdleType DEF StartUninstallAllGlobal, TypeOK, disk, Phases
  <2>2. Control'
    BY <1>0, <1>4 DEF StartUninstallAllGlobal, Control, Pending, Target, Goto, Return, Idle, Fault, disk
  <2>3. QED
    BY <2>1, <2>2 DEF TypeInv
<1>5. CASE RecoverPending
  <2>1. /\ ~run.recovering /\ run \in Runs /\ UNCHANGED <<tree, parked, staging, lock, manifest, faults>>
    BY <1>0, <1>5 DEF RecoverPending, Control, TypeOK
  <2>2. CASE Pending
    <3>1. pc' = "apply" /\ run' = [run EXCEPT !.recovering = TRUE] /\ journal' = journal
      BY <1>5, <2>2 DEF RecoverPending
    <3>2. run' \in Runs /\ run'.recovering /\ run'.todo = run.todo
      BY <2>1, <3>1, OldType DEF Runs
    <3>3. QED
      BY <1>0, <2>1, <2>2, <3>1, <3>2 DEF TypeInv, TypeOK, Control, Phases, Pending, Target
  <2>3. CASE ~Pending
    <3>1. /\ journal' = None /\ run' = run
          /\ pc' \in {"load", "begin"} /\ (pc' = "begin" => run.pkg \in Pkgs)
      BY <1>5, <2>1, <2>3, RunFields DEF RecoverPending, Recovered
    <3>2. QED
      BY <1>0, <2>1, <3>1 DEF TypeInv, TypeOK, Control, Phases
  <2>4. QED
    BY <2>2, <2>3
<1>6. CASE LoadManifest
  <2>1. TypeOK'
    BY <1>0, <1>6, IdleType, TodoType DEF LoadManifest, TypeOK, Return, disk, Phases
  <2>2. Control'
    BY <1>0, <1>6 DEF LoadManifest, Control, TypeOK, Pending, Return, Idle, disk
  <2>3. QED
    BY <2>1, <2>2 DEF TypeInv
<1>7. CASE \E p \in Local : NextItem(p)
  <2> PICK p \in Local : NextItem(p)
    BY <1>7
  <2>1. run \in Runs /\ run.todo # {} /\ manifest[p] \in Versions \cup {None} /\ ~run.recovering
    BY <1>0, NextVersion DEF NextItem, TypeOK, Control
  <2>2. run' \in Runs /\ ~run'.recovering
    BY <2>1, ItemType DEF NextItem, Runs
  <2>3. pc' = "recover" /\ UNCHANGED <<disk, faults>>
    BY DEF NextItem
  <2>4. QED
    BY <1>0, <2>1, <2>2, <2>3 DEF TypeInv, TypeOK, Control, Phases, disk
<1>8. CASE Restore
  <2>1. TypeOK'
    BY <1>0, <1>8 DEF Restore, TypeOK, Goto, Phases
  <2>2. /\ pc' = "clean" /\ UNCHANGED <<run, staging, lock, manifest, journal, faults>>
        /\ pc \in {"begin", "restore"} /\ run \in Runs
    BY <1>0, <1>8 DEF Restore, Goto, TypeOK
  <2>3. ~run.recovering => run.pkg \in Pkgs
    BY <1>0, <2>2, PlanType DEF Control, Target, Local
  <2>4. Control'
    BY <1>0, <2>2, <2>3 DEF Control, Pending, Target
  <2>5. QED
    BY <2>1, <2>4 DEF TypeInv
<1>9. CASE RestoreFails
  <2>1. TypeOK'
    BY <1>0, <1>9, IdleType, ConstantsAssumption DEF RestoreFails, TypeOK, Return, Fault, disk, Phases
  <2>2. Control'
    BY <1>0, <1>9 DEF RestoreFails, Control, Pending, Target, Goto, Return, Idle, Fault, disk
  <2>3. QED
    BY <2>1, <2>2 DEF TypeInv
<1>10. CASE RemoveStale
  <2>1. TypeOK'
    BY <1>0, <1>10, ConstantsAssumption DEF RemoveStale, TypeOK, Goto, Fault, Phases
  <2>2. Control'
    BY <1>0, <1>10, RunFields DEF RemoveStale, Control, Pending, Target, Goto, PlanFails, TypeOK
  <2>3. QED
    BY <2>1, <2>2 DEF TypeInv
<1>11. CASE \E r \in Releases : Stage(r)
  <2> PICK r \in Releases : Stage(r)
    BY <1>11
  <2>1. run \in Runs /\ run' = [run EXCEPT !.staged = r] /\ ~run.recovering /\ run.pkg \in Pkgs
    BY <1>0 DEF Stage, TypeOK, Control
  <2>2. /\ run' \in Runs /\ ~run'.recovering /\ run'.staged = r
        /\ run'.pkg = run.pkg /\ run'.ver = run.ver /\ run'.todo = run.todo
    BY <2>1, OldType DEF Runs
  <2>3. pc' = "verify" /\ run.ver = VersionOf[r] /\ UNCHANGED <<disk, faults>>
    BY DEF Stage
  <2>4. QED
    BY <1>0, <2>1, <2>2, <2>3 DEF TypeInv, TypeOK, Control, Phases, disk
<1>12. CASE FailBeforeCommit
  <2>1. TypeOK'
    BY <1>0, <1>12, IdleType DEF FailBeforeCommit, TypeOK, Return, disk, Phases
  <2>2. Control'
    BY <1>0, <1>12 DEF FailBeforeCommit, Control, Pending, Target, Goto, Return, Idle, Fault, disk
  <2>3. QED
    BY <2>1, <2>2 DEF TypeInv
<1>13. CASE Verify
  <2>1. TypeOK'
    BY <1>0, <1>13 DEF Verify, TypeOK, Goto, disk, Phases
  <2>2. Control'
    BY <1>0, <1>13 DEF Verify, Control, Pending, Target, Goto, PlanFails, disk, Local
  <2>3. QED
    BY <2>1, <2>2 DEF TypeInv
<1>14. CASE CreateJournal
  <2>1. TypeOK'
    BY <1>0, <1>14, IdleType, ConstantsAssumption DEF CreateJournal, TypeOK, Return, Goto, Fault, Phases
  <2>2. Control'
    BY <1>0, <1>14 DEF CreateJournal, Control, Pending, Target, Goto, Return, Idle, PlanFails
  <2>3. QED
    BY <2>1, <2>2 DEF TypeInv
<1>15. CASE FlushJournal
  <2>1. CASE journal' = Plan /\ staging' = run.staged /\ Goto("apply") /\ UNCHANGED faults
    <3>1. Plan \in CommitPlan /\ run.staged \in Releases /\ Plan.pkg = run.pkg
      BY <1>0, <1>15, NewPlanType DEF FlushJournal, Control, Plan
    <3>2. TypeOK'
      BY <1>0, <1>15, <2>1, <3>1 DEF FlushJournal, TypeOK, Goto, Phases
    <3>3. Pending' /\ Target' = journal'.pkg
      BY <1>0, <1>15, <2>1, <3>1, Forms DEF FlushJournal, Control, Pending, Target, Goto
    <3>4. Control'
      BY <1>0, <1>15, <2>1, <3>3 DEF FlushJournal, Control, Goto
    <3>5. QED
      BY <3>2, <3>4 DEF TypeInv
  <2>2. CASE Fault("write") /\ Return /\ UNCHANGED <<journal, staging>>
    <3>1. TypeOK'
      BY <1>0, <1>15, <2>2, IdleType, FaultType DEF FlushJournal, TypeOK, Return, Phases
    <3>2. Control'
      BY <2>2 DEF Control, Return, Idle
    <3>3. QED
      BY <3>1, <3>2 DEF TypeInv
  <2>3. QED
    BY <1>15, <2>1, <2>2 DEF FlushJournal
<1>16. CASE Apply
  <2>1. TypeOK'
    BY <1>0, <1>16 DEF Apply, TypeOK, Goto, disk, Phases
  <2>2. Control'
    BY <1>0, <1>16 DEF Apply, Control, Pending, Target, Goto, Return, Idle, Fault, disk
  <2>3. QED
    BY <2>1, <2>2 DEF TypeInv
<1>17. CASE SwapOut
  <2>1. run.old \in Releases \cup {None} /\ tree[Target] \in Releases \cup {None}
    BY <1>0, <1>17, SwapTarget DEF SwapOut, TypeOK, Runs
  <2>2. run' \in Runs /\ run'.recovering = run.recovering /\ run'.pkg = run.pkg /\ run'.staged = run.staged /\ run'.todo = run.todo
    BY <1>0, <1>17, <2>1, OldType DEF SwapOut, TypeOK, Runs
  <2>3. parked' \in [Pkgs -> SUBSET Releases] /\ tree' \in [Pkgs -> Releases \cup {None}]
    BY <1>0, <1>17, <2>1, SwapTarget DEF SwapOut, TypeOK
  <2>4. TypeOK'
    BY <1>0, <1>17, <2>2, <2>3 DEF SwapOut, TypeOK, Phases
  <2>5. Control'
    BY <1>0, <1>17, <2>2 DEF SwapOut, Control, Pending, Target
  <2>6. QED
    BY <2>4, <2>5 DEF TypeInv
<1>18. CASE SwapIn
  <2>1. /\ tree' \in [Pkgs -> Releases \cup {None}] /\ staging' \in Releases \cup {None}
        /\ UNCHANGED <<lock, manifest, journal, faults, parked>>
    BY <1>0, <1>18, SwapTarget DEF SwapIn, TypeOK
  <2>2. CASE run.old # None
    <3>1. TypeOK'
      BY <1>0, <1>18, <2>1, <2>2 DEF SwapIn, TypeOK, Goto, Phases
    <3>2. Control'
      BY <1>0, <1>18, <2>1, <2>2 DEF SwapIn, Control, Goto, Pending, Target
    <3>3. QED
      BY <3>1, <3>2 DEF TypeInv
  <2>3. CASE run.old = None
    BY <1>0, <1>18, <2>1, <2>3, AfterSwapType DEF SwapIn, TypeInv, TypeOK
  <2>4. QED
    BY <2>2, <2>3
<1>19. CASE DropParked
  <2>1. /\ faults' \in 0 .. MaxFaults /\ parked' \in [Pkgs -> SUBSET Releases]
        /\ UNCHANGED <<tree, staging, lock, manifest, journal>>
    BY <1>0, <1>19, ConstantsAssumption DEF DropParked, Fault, TypeOK
  <2>2. QED
    BY <1>0, <1>19, <2>1, AfterSwapType DEF DropParked, TypeInv, TypeOK
<1>20. CASE SwapFails
  <2>1. TypeOK'
    BY <1>0, <1>20, IdleType, ConstantsAssumption, SwapTarget DEF SwapFails, TypeOK, Return, Fault, Phases, Runs
  <2>2. Control'
    BY <1>0, <1>20 DEF SwapFails, Control, Pending, Target, Goto, Return, Idle, Fault, disk
  <2>3. QED
    BY <2>1, <2>2 DEF TypeInv
<1>21. CASE WriteLock
  <2>1. TypeOK'
    BY <1>0, <1>21, PlanType DEF WriteLock, TypeOK, Goto, Phases, Control
  <2>2. Control'
    BY <1>0, <1>21 DEF WriteLock, Control, Pending, Target, Goto, Return, Idle, Fault, disk
  <2>3. QED
    BY <2>1, <2>2 DEF TypeInv
<1>22. CASE WriteManifest
  <2>1. TypeOK'
    BY <1>0, <1>22, PlanType DEF WriteManifest, TypeOK, Goto, Phases, Control
  <2>2. Control'
    BY <1>0, <1>22, PlanType DEF WriteManifest, Control, Pending, Target, Goto
  <2>3. QED
    BY <2>1, <2>2 DEF TypeInv
<1>23. CASE WriteFails
  <2>1. TypeOK'
    BY <1>0, <1>23, IdleType, ConstantsAssumption DEF WriteFails, TypeOK, Return, Fault, disk, Phases
  <2>2. Control'
    BY <1>0, <1>23 DEF WriteFails, Control, Pending, Target, Goto, Return, Idle, Fault, disk
  <2>3. QED
    BY <2>1, <2>2 DEF TypeInv
<1>24. CASE RemoveJournal
  <2>1. faults' \in 0 .. MaxFaults /\ journal' \in CommitPlan \cup {None, Torn}
    BY <1>0, <1>24, ConstantsAssumption DEF RemoveJournal, Fault, TypeOK
  <2>2. CASE run.recovering
    <3>1. /\ run' \in Runs /\ ~run'.recovering /\ run'.todo = run.todo /\ run'.pkg = run.pkg
          /\ pc' \in {"load", "begin"} /\ (pc' = "begin" => run.pkg \in Pkgs)
      <4>1. run' = [run EXCEPT !.recovering = FALSE, !.old = None] /\ run \in Runs
        BY <1>0, <1>24, <2>2 DEF RemoveJournal, TypeOK
      <4>2. run' \in Runs /\ ~run'.recovering /\ run'.todo = run.todo /\ run'.pkg = run.pkg
        BY <4>1 DEF Runs
      <4>3. QED
        BY <1>0, <1>24, <2>2, <4>1, <4>2, RunFields DEF RemoveJournal, Recovered
    <3>2. QED
      BY <1>0, <1>24, <2>1, <3>1 DEF RemoveJournal, TypeInv, TypeOK, Control, Phases
  <2>3. CASE ~run.recovering
    <3>1. ItemDone
      BY <1>24, <2>3 DEF RemoveJournal
    <3>2. run' \in Runs /\ ~run'.recovering /\ pc' \in {"idle", "items"} /\ (run'.todo # {} => run.todo # {})
      BY <1>0, <3>1, ItemDoneType
    <3>3. QED
      BY <1>0, <1>24, <2>1, <3>2 DEF RemoveJournal, TypeInv, TypeOK, Control, Phases
  <2>4. QED
    BY <2>2, <2>3
<1>25. CASE RemoveTree
  <2>1. TypeOK'
    BY <1>0, <1>25, IdleType DEF RemoveTree, TypeOK, Return, Goto, Phases
  <2>2. Control'
    BY <1>0, <1>25 DEF RemoveTree, Control, Pending, Target, Goto, Return, Idle, Fault, disk
  <2>3. QED
    BY <2>1, <2>2 DEF TypeInv
<1>26. CASE RemoveDependency
  <2>1. TypeOK'
    BY <1>0, <1>26, ConstantsAssumption DEF RemoveDependency, TypeOK, Goto, Fault, Phases, Manifests
  <2>2. Control'
    BY <1>0, <1>26 DEF RemoveDependency, Control, Pending, Target, Goto, TypeOK, Manifests
  <2>3. QED
    BY <2>1, <2>2 DEF TypeInv
<1>27. CASE RemoveLine
  <2>1. TypeOK'
    BY <1>0, <1>27, IdleType, ConstantsAssumption DEF RemoveLine, TypeOK, Return, Fault, Phases, Lockfiles
  <2>2. Control'
    BY <1>0, <1>27 DEF RemoveLine, Control, Pending, Target, Goto, Return, Idle, Fault, disk
  <2>3. QED
    BY <2>1, <2>2 DEF TypeInv
<1>28. CASE WipeOne
  <2>1. TypeOK'
    BY <1>0, <1>28 DEF WipeOne, TypeOK
  <2>2. Control'
    BY <1>0, <1>28 DEF WipeOne, Control, Pending, Target, Goto, Return, Idle, Fault, disk
  <2>3. QED
    BY <2>1, <2>2 DEF TypeInv
<1>29. CASE WipeDone
  <2>1. TypeOK'
    BY <1>0, <1>29, IdleType DEF WipeDone, TypeOK, Return, disk, Phases
  <2>2. Control'
    BY <1>0, <1>29 DEF WipeDone, Control, Pending, Target, Goto, Return, Idle, Fault, disk
  <2>3. QED
    BY <2>1, <2>2 DEF TypeInv
<1>30. CASE Crash
  <2>1. TypeOK'
    BY <1>0, <1>30, IdleType, ConstantsAssumption DEF Crash, TypeOK, Return, Fault, disk, Phases
  <2>2. Control'
    BY <1>0, <1>30 DEF Crash, Control, Pending, Target, Goto, Return, Idle, Fault, disk
  <2>3. QED
    BY <2>1, <2>2 DEF TypeInv
<1>31. CASE CrashTruncating
  <2>1. TypeOK'
    BY <1>0, <1>31, IdleType, ConstantsAssumption DEF CrashTruncating, TypeOK, Return, Fault, Phases, Lockfiles
  <2>2. Control'
    BY <1>0, <1>31 DEF CrashTruncating, Control, Pending, Target, Goto, Return, Idle, Fault, disk
  <2>3. QED
    BY <2>1, <2>2 DEF TypeInv
<1>32. CASE UNCHANGED vars
  BY <1>0, <1>32 DEF vars, TypeInv, TypeOK, Control, Pending, Target, PlanFails
<1>33. QED
  BY <1>1, <1>2, <1>3, <1>4, <1>5, <1>6, <1>7, <1>8, <1>9, <1>10, <1>11, <1>12, <1>13, <1>14, <1>15, <1>16, <1>17, <1>18, <1>19, <1>20, <1>21, <1>22, <1>23, <1>24, <1>25, <1>26, <1>27, <1>28, <1>29, <1>30, <1>31, <1>32 DEF Next, Start, Step

\* `sz install` and its relatives only ever store well-typed state, on disk
\* and in the process: no plan is journalled with a hole in it, whatever is
\* interleaved, torn, crashed or left behind.
THEOREM TypeCorrect == Spec => []TypeOK
<1>1. Init => TypeInv
  BY IdleType, ConstantsAssumption, Forms
     DEF Init, TypeInv, TypeOK, Control, Phases, Idle, Lockfiles, Pending, Local
<1>2. TypeInv => TypeOK
  BY DEF TypeInv
<1>3. QED
  BY <1>1, <1>2, TypeStep, PTL DEF Spec

-----------------------------------------------------------------------------
(* The transaction: no uninstall, no failing rename of a local package.     *)

Transactional == "uninstall" \notin Commands /\ "swap" \notin Faults

\* A whole journal differs from the lockfile in its own package's line only,
\* and the tree it decides on is staged or already in place.
Journalled ==
  Pending =>
    /\ \A q \in Local \ {journal.pkg} : journal.lock[q] = lock[q]
    /\ journal.lock[journal.pkg] = journal.rel
    /\ staging = journal.rel \/ (staging = None /\ tree[journal.pkg] = journal.rel)

\* Tree and lockfile agree but for the package a journal is working on.
Agreement ==
  \A p \in Local : tree[p] # None => lock[p] = tree[p] \/ (Pending /\ journal.pkg = p)

\* A package exists only as a parked copy only between the two renames.
Covered ==
  \A p \in Local : tree[p] = None /\ parked[p] # {} =>
    Pending /\ journal.pkg = p /\ staging = journal.rel

\* The journal never moves a pinned line to another tree of its version.
Pinned ==
  Pending /\ lock[journal.pkg] # None
    /\ VersionOf[lock[journal.pkg]] = VersionOf[journal.rel]
  => lock[journal.pkg] = journal.rel

\* How far the process has come with the journal.
Progress ==
  /\ pc \in {"swapOut", "swapIn"} /\ Target \in Local => staging = journal.rel
  /\ pc = "dropParked" /\ Target \in Local => staging = None
  /\ pc \in {"restore", "lock", "manifest", "unlink"} => staging = None
  /\ pc = "apply" /\ ~run.recovering => staging # None
  /\ pc = "restore" => run.recovering
  /\ pc = "clean" /\ run.recovering => staging = None
  /\ pc \in {"manifest", "unlink"} => lock = journal.lock
  /\ pc \in {"begin", "clean", "stage", "verify", "create"} /\ ~run.recovering
       /\ run.pkg \in Local /\ Pending => staging = None /\ lock = journal.lock
  /\ pc = "flush" => journal = Torn
  /\ pc \in {"create", "flush"} => ~Refused
  /\ pc \notin {"rmTree", "rmManifest", "rmLock", "wipe"}

Safe == Journalled /\ Agreement /\ Covered /\ Pinned /\ Progress

SafeInv == TypeInv /\ Safe

\* Steps that leave the disk alone keep what relates its parts.
LEMMA SameDisk ==
  ASSUME Safe, UNCHANGED disk
  PROVE  Journalled' /\ Agreement' /\ Covered' /\ Pinned'
BY DEF Safe, disk, Journalled, Agreement, Covered, Pinned, Pending

\* So do steps on a package of the global store.
LEMMA LocalSame ==
  ASSUME Safe, TypeOK,
         \A p \in Local : tree'[p] = tree[p] /\ parked'[p] = parked[p],
         UNCHANGED <<staging, lock, manifest, journal>>
  PROVE  Journalled' /\ Agreement' /\ Covered' /\ Pinned'
<1>1. Pending => journal.pkg \in Local
  BY PlanType
<1> QED
  BY <1>1 DEF Safe, Journalled, Agreement, Covered, Pinned, Pending

\* A process that has returned, or is between packages, has no progress to keep.
LEMMA Resting ==
  ASSUME pc' \in {"idle", "recover", "load", "items"}
  PROVE  Progress'
BY DEF Progress

LEMMA SafeStep ==
  ASSUME Transactional, SafeInv, [Next]_vars
  PROVE  Safe'
<1>0. TypeOK /\ Control /\ Safe
  BY DEF SafeInv, TypeInv
<1>p. Pending => /\ journal.pkg \in Local /\ journal.rel \in Releases /\ journal.rel # None
                 /\ journal.lock \in Lockfiles
  BY <1>0, PlanType, ConstantsAssumption
<1>1. CASE \E p \in Pkgs, v \in Versions : StartInstall(p, v)
  <2>1. UNCHANGED disk /\ pc' \in {"recover", "begin"}
    BY <1>1 DEF StartInstall
  <2>2. pc' = "begin" => run'.pkg \in GlobalPkgs
    BY <1>1, ConstantsAssumption DEF StartInstall, Idle
  <2>3. Progress'
    BY <2>1, <2>2 DEF Progress, Local
  <2>4. QED
    BY <1>0, <2>1, <2>3, SameDisk DEF Safe
<1>2. CASE StartInstallAll
  <2>1. UNCHANGED disk /\ pc' \in {"idle", "recover", "load", "items"}
    BY <1>2 DEF StartInstallAll
  <2>2. QED
    BY <1>0, <2>1, SameDisk, Resting DEF Safe
<1>3. CASE \E p \in Pkgs : StartUninstall(p)
  BY <1>3 DEF StartUninstall, Transactional
<1>4. CASE StartUninstallAllGlobal
  BY <1>4 DEF StartUninstallAllGlobal, Transactional
<1>5. CASE RecoverPending
  <2>1. CASE Pending
    <3>1. UNCHANGED disk /\ pc' = "apply" /\ run' = [run EXCEPT !.recovering = TRUE] /\ run \in Runs
      BY <1>0, <1>5, <2>1 DEF RecoverPending, disk, TypeOK
    <3>2. run'.recovering
      BY <3>1 DEF Runs
    <3>3. QED
      BY <1>0, <3>1, <3>2, SameDisk DEF Safe, Progress
  <2>2. CASE ~Pending
    <3>1. /\ ~Pending' /\ pc' \in {"load", "begin"} /\ run' = run /\ ~run.recovering
          /\ UNCHANGED <<tree, parked, staging, lock>>
      BY <1>0, <1>5, <2>2 DEF RecoverPending, Recovered, Pending, Control
    <3>2. QED
      BY <1>0, <2>2, <3>1 DEF Safe, Journalled, Agreement, Covered, Pinned, Progress
  <2>3. QED
    BY <2>1, <2>2
<1>6. CASE LoadManifest
  <2>1. UNCHANGED disk /\ pc' \in {"idle", "recover", "load", "items"}
    BY <1>6 DEF LoadManifest, Return
  <2>2. QED
    BY <1>0, <2>1, SameDisk, Resting DEF Safe
<1>7. CASE \E p \in Local : NextItem(p)
  <2>1. UNCHANGED disk /\ pc' \in {"idle", "recover", "load", "items"}
    BY <1>7 DEF NextItem
  <2>2. QED
    BY <1>0, <2>1, SameDisk, Resting DEF Safe
<1>8. CASE Restore
  <2>1. Target \in Local => ~(tree[Target] = None /\ parked[Target] # {})
    BY <1>0, <1>p, <1>8 DEF Restore, Safe, Covered, Progress, Control, Target
  <2>2. /\ pc' = "clean" /\ run' = run /\ UNCHANGED <<staging, lock, manifest, journal>>
        /\ pc \in {"begin", "restore"}
    BY <1>8 DEF Restore, Goto
  <2>3. \A p \in Local : tree'[p] = tree[p] /\ parked'[p] = parked[p]
    BY <1>0, <1>8, <2>1 DEF Restore, TypeOK, Local
  <2>4. Journalled' /\ Agreement' /\ Covered' /\ Pinned'
    BY <1>0, <2>2, <2>3, LocalSame
  <2>5. Progress'
    BY <1>0, <2>2 DEF Progress, Safe, Control, Pending, Target
  <2>6. QED
    BY <2>4, <2>5 DEF Safe
<1>9. CASE RestoreFails
  <2>1. UNCHANGED disk /\ pc' \in {"idle", "recover", "load", "items"}
    BY <1>9 DEF RestoreFails, Return
  <2>2. QED
    BY <1>0, <2>1, SameDisk, Resting DEF Safe
<1>10. CASE RemoveStale
  <2>0. \A p \in Local : parked'[p] \subseteq parked[p]
    BY <1>0, <1>10 DEF RemoveStale, TypeOK, Local
  <2>1. /\ UNCHANGED <<tree, staging, lock, journal, run>> /\ pc = "clean"
        /\ pc' = IF run.recovering THEN "lock" ELSE "stage"
    BY <1>10 DEF RemoveStale, Goto
  <2>2. Journalled' /\ Agreement' /\ Covered' /\ Pinned'
    BY <1>0, <2>0, <2>1 DEF Safe, Journalled, Agreement, Covered, Pinned, Pending
  <2>3. Progress'
    BY <1>0, <2>1 DEF Progress, Safe, Pending
  <2>4. QED
    BY <2>2, <2>3 DEF Safe
<1>11. CASE \E r \in Releases : Stage(r)
  <2> PICK r \in Releases : Stage(r)
    BY <1>11
  <2>1. run \in Runs /\ run' = [run EXCEPT !.staged = r] /\ pc = "stage" /\ pc' = "verify" /\ UNCHANGED disk
    BY <1>0 DEF Stage, TypeOK
  <2>2. run'.recovering = run.recovering /\ run'.pkg = run.pkg
    BY <2>1 DEF Runs
  <2>3. Progress'
    BY <1>0, <2>1, <2>2 DEF Progress, Safe, Pending, disk
  <2>4. QED
    BY <1>0, <2>1, <2>3, SameDisk DEF Safe
<1>12. CASE FailBeforeCommit
  <2>1. UNCHANGED disk /\ pc' \in {"idle", "recover", "load", "items"}
    BY <1>12 DEF FailBeforeCommit, Return
  <2>2. QED
    BY <1>0, <2>1, SameDisk, Resting DEF Safe
<1>13. CASE Verify
  <2>1. UNCHANGED disk /\ run' = run /\ ~Refused /\ pc = "verify"
        /\ pc' = IF run.pkg \in GlobalPkgs THEN "swapOut" ELSE "create"
    BY <1>13 DEF Verify, Goto
  <2>2. ~run.recovering
    BY <1>0, <2>1 DEF Control
  <2>3. Progress'
    BY <1>0, <2>1, <2>2 DEF Progress, Safe, Pending, Target, Local, Refused, disk
  <2>4. QED
    BY <1>0, <2>1, <2>3, SameDisk DEF Safe
<1>14. CASE CreateJournal
  <2>1. CASE Fault("write") /\ Return /\ UNCHANGED journal
    <3>1. UNCHANGED disk /\ pc' = "idle"
      BY <1>14, <2>1 DEF CreateJournal, Return, disk
    <3>2. QED
      BY <1>0, <3>1, SameDisk, Resting DEF Safe
  <2>2. CASE journal' = Torn /\ Goto("flush")
    <3>1. /\ ~Pending' /\ pc' = "flush" /\ run' = run /\ pc = "create" /\ journal' = Torn
          /\ UNCHANGED <<tree, parked, staging, lock>>
      BY <1>14, <2>2 DEF CreateJournal, Goto, Pending
    <3>2. run.pkg \in Local /\ ~run.recovering
      BY <1>0, <3>1 DEF Control
    <3>3. \A p \in Local : tree[p] # None => lock[p] = tree[p]
      BY <1>0, <1>p, <3>1, <3>2 DEF Safe, Agreement, Progress, Journalled
    <3>4. \A p \in Local : ~(tree[p] = None /\ parked[p] # {})
      BY <1>0, <1>p, <3>1, <3>2 DEF Safe, Covered, Progress
    <3>5. Journalled' /\ Agreement' /\ Covered' /\ Pinned'
      BY <3>1, <3>3, <3>4 DEF Journalled, Agreement, Covered, Pinned
    <3>6. Progress'
      BY <1>0, <3>1 DEF Progress, Safe, Refused
    <3>7. QED
      BY <3>5, <3>6 DEF Safe
  <2>3. QED
    BY <1>14, <2>1, <2>2 DEF CreateJournal
<1>15. CASE FlushJournal
  <2>1. CASE Fault("write") /\ Return /\ UNCHANGED <<journal, staging>>
    <3>1. UNCHANGED disk /\ pc' = "idle"
      BY <1>15, <2>1 DEF FlushJournal, Return, disk
    <3>2. QED
      BY <1>0, <3>1, SameDisk, Resting DEF Safe
  <2>2. CASE journal' = Plan /\ staging' = run.staged /\ Goto("apply")
    <3>1. /\ pc = "flush" /\ pc' = "apply" /\ run' = run
          /\ UNCHANGED <<tree, parked, lock>>
      BY <1>15, <2>2 DEF FlushJournal, Goto
    <3>2. run.pkg \in Local /\ ~Pending /\ ~Refused /\ run.ver = VersionOf[run.staged]
      BY <1>0, <3>1 DEF Control, Safe, Progress, Pending
    <3>3. /\ journal'.pkg = run.pkg /\ journal'.rel = run.staged
          /\ journal'.lock = [lock EXCEPT ![run.pkg] = run.staged]
      BY <2>2 DEF Plan
    <3>4. /\ journal'.lock[run.pkg] = run.staged
          /\ \A q \in Local \ {run.pkg} : journal'.lock[q] = lock[q]
      BY <1>0, <3>2, <3>3 DEF TypeOK, Lockfiles
    <3>5. Journalled'
      BY <2>2, <3>1, <3>3, <3>4 DEF Journalled
    <3>6. Agreement' /\ Covered'
      BY <1>0, <3>1, <3>2 DEF Safe, Agreement, Covered
    <3>7. Pinned'
      BY <3>1, <3>2, <3>3 DEF Pinned, Refused
    <3>8. Progress'
      BY <1>0, <2>2, <3>1, ConstantsAssumption DEF Progress, Control
    <3>9. QED
      BY <3>5, <3>6, <3>7, <3>8 DEF Safe
  <2>3. QED
    BY <1>15, <2>1, <2>2 DEF FlushJournal
<1>16. CASE Apply
  <2>1. /\ UNCHANGED disk /\ run' = run /\ pc = "apply" /\ Pending
        /\ pc' = IF staging # None THEN "swapOut" ELSE "restore"
    BY <1>0, <1>16 DEF Apply, Goto, Control
  <2>2. Progress'
    BY <1>0, <2>1 DEF Progress, Safe, Journalled, disk
  <2>3. QED
    BY <1>0, <2>1, <2>2, SameDisk DEF Safe
<1>17. CASE SwapOut
  <2>1. run \in Runs /\ run' = [run EXCEPT !.old = tree[Target]] /\ pc = "swapOut" /\ pc' = "swapIn"
        /\ UNCHANGED <<staging, lock, manifest, journal>>
    BY <1>0, <1>17 DEF SwapOut, TypeOK
  <2>2. run'.recovering = run.recovering /\ run'.pkg = run.pkg
    BY <2>1 DEF Runs
  <2>3. Progress'
    BY <1>0, <2>1, <2>2 DEF Progress, Safe, Target
  <2>4. CASE Target \in GlobalPkgs
    <3>1. \A p \in Local : tree'[p] = tree[p] /\ parked'[p] = parked[p]
      BY <1>0, <1>17, <2>4, ConstantsAssumption DEF SwapOut, TypeOK, Local
    <3>2. QED
      BY <1>0, <2>1, <2>3, <3>1, LocalSame DEF Safe
  <2>5. CASE Target \notin GlobalPkgs
    <3>1. Pending /\ Target = journal.pkg
      BY <1>0, <2>1, <2>5 DEF Control, Target
    <3>2. staging = journal.rel
      BY <1>0, <1>p, <2>1, <3>1 DEF Safe, Progress
    <3>3. \A p \in Local \ {journal.pkg} : tree'[p] = tree[p] /\ parked'[p] = parked[p]
      BY <1>0, <1>17, <3>1 DEF SwapOut, TypeOK, Local
    <3>4. Journalled' /\ Pinned'
      BY <1>0, <2>1, <3>2 DEF Safe, Journalled, Pinned, Pending
    <3>5. Agreement' /\ Covered'
      BY <1>0, <2>1, <3>1, <3>2, <3>3 DEF Safe, Agreement, Covered, Pending
    <3>6. QED
      BY <2>3, <3>4, <3>5 DEF Safe
  <2>6. QED
    BY <2>4, <2>5
<1>18. CASE SwapIn
  <2>1. pc = "swapIn" /\ UNCHANGED <<parked, lock, manifest, journal>>
    BY <1>18 DEF SwapIn
  <2>2. CASE Target \in GlobalPkgs
    <3>1. UNCHANGED staging /\ \A p \in Local : tree'[p] = tree[p]
      BY <1>0, <1>18, <2>2 DEF SwapIn, TypeOK, Local
    <3>2. \/ pc' = "dropParked" /\ run' = run
          \/ pc' \in {"idle", "items"}
      BY <1>18, <2>2 DEF SwapIn, AfterSwap, ItemDone, Return, Goto
    <3>3. Progress'
      BY <2>1, <2>2, <3>2 DEF Progress, Target, Local
    <3>4. QED
      BY <1>0, <2>1, <3>1, <3>3, LocalSame DEF Safe
  <2>3. CASE Target \notin GlobalPkgs
    <3>1. Pending /\ Target = journal.pkg
      BY <1>0, <2>1, <2>3 DEF Control, Target
    <3>2. staging = journal.rel
      BY <1>0, <1>p, <2>1, <3>1 DEF Safe, Progress
    <3>3. /\ staging' = None /\ run' = run /\ pc' \in {"dropParked", "lock"}
          /\ tree' = [tree EXCEPT ![journal.pkg] = journal.rel]
      BY <1>18, <2>3, <3>1, <3>2 DEF SwapIn, AfterSwap, Goto
    <3>4. tree'[journal.pkg] = journal.rel /\ \A p \in Local \ {journal.pkg} : tree'[p] = tree[p]
      BY <1>0, <1>p, <3>1, <3>3 DEF TypeOK, Local
    <3>5. Journalled' /\ Pinned'
      BY <1>0, <2>1, <3>3, <3>4 DEF Safe, Journalled, Pinned, Pending
    <3>6. Agreement' /\ Covered'
      BY <1>0, <1>p, <2>1, <3>1, <3>4 DEF Safe, Agreement, Covered, Pending
    <3>7. Progress'
      BY <3>3 DEF Progress
    <3>8. QED
      BY <3>5, <3>6, <3>7 DEF Safe
  <2>4. QED
    BY <2>2, <2>3
<1>19. CASE DropParked
  <2>0. \A p \in Local : parked'[p] \subseteq parked[p]
    BY <1>0, <1>19 DEF DropParked, TypeOK, Local
  <2>1. UNCHANGED <<tree, staging, lock, manifest, journal>> /\ pc = "dropParked"
    BY <1>19 DEF DropParked
  <2>2. Journalled' /\ Agreement' /\ Covered' /\ Pinned'
    BY <1>0, <2>0, <2>1 DEF Safe, Journalled, Agreement, Covered, Pinned, Pending
  <2>3. CASE Target \in GlobalPkgs
    <3>1. pc' \in {"idle", "items"}
      BY <1>19, <2>3 DEF DropParked, AfterSwap, ItemDone, Return
    <3>2. QED
      BY <2>2, <3>1, Resting DEF Safe
  <2>4. CASE Target \notin GlobalPkgs
    <3>1. pc' = "lock" /\ run' = run
      BY <1>19, <2>4 DEF DropParked, AfterSwap, Goto
    <3>2. Target \in Local
      BY <1>0, <1>p, <2>1, <2>4 DEF Control, Target
    <3>3. Progress'
      BY <1>0, <2>1, <3>1, <3>2 DEF Progress, Safe
    <3>4. QED
      BY <2>2, <3>3 DEF Safe
  <2>5. QED
    BY <2>3, <2>4
<1>20. CASE SwapFails
  <2>1. /\ Target \in GlobalPkgs /\ pc' = "idle"
        /\ UNCHANGED <<staging, lock, manifest, journal>>
    BY <1>20 DEF SwapFails, Return, Transactional
  <2>2. \A p \in Local : tree'[p] = tree[p] /\ parked'[p] = parked[p]
    BY <1>0, <1>20, <2>1 DEF SwapFails, TypeOK, Local
  <2>3. QED
    BY <1>0, <2>1, <2>2, LocalSame, Resting DEF Safe
<1>21. CASE WriteLock
  <2>1. /\ pc = "lock" /\ lock' = journal.lock /\ run' = run
        /\ UNCHANGED <<tree, parked, staging, journal>> /\ pc' \in {"manifest", "unlink"}
    BY <1>21 DEF WriteLock, Goto
  <2>2. Pending /\ staging = None
    BY <1>0, <2>1 DEF Control, Safe, Progress
  <2>3. Journalled' /\ Agreement' /\ Covered' /\ Pinned'
    BY <1>0, <1>p, <2>1, <2>2 DEF Safe, Journalled, Agreement, Covered, Pinned, Pending
  <2>4. Progress'
    BY <2>1, <2>2 DEF Progress
  <2>5. QED
    BY <2>3, <2>4 DEF Safe
<1>22. CASE WriteManifest
  <2>1. /\ pc = "manifest" /\ pc' = "unlink" /\ run' = run
        /\ UNCHANGED <<tree, parked, staging, lock, journal>>
    BY <1>22 DEF WriteManifest, Goto
  <2>2. Journalled' /\ Agreement' /\ Covered' /\ Pinned'
    BY <1>0, <2>1 DEF Safe, Journalled, Agreement, Covered, Pinned, Pending
  <2>3. Progress'
    BY <1>0, <2>1 DEF Progress, Safe
  <2>4. QED
    BY <2>2, <2>3 DEF Safe
<1>23. CASE WriteFails
  <2>1. UNCHANGED disk /\ pc' \in {"idle", "recover", "load", "items"}
    BY <1>23 DEF WriteFails, Return
  <2>2. QED
    BY <1>0, <2>1, SameDisk, Resting DEF Safe
<1>24. CASE RemoveJournal
  <2>1. /\ pc = "unlink" /\ Pending /\ staging = None /\ lock = journal.lock
        /\ UNCHANGED <<tree, parked, staging, lock>> /\ journal' \in {journal, None}
    BY <1>0, <1>24 DEF RemoveJournal, Control, Safe, Progress
  <2>2. \A p \in Local : tree[p] # None => lock[p] = tree[p]
    BY <1>0, <1>p, <2>1 DEF Safe, Agreement, Journalled
  <2>3. \A p \in Local : ~(tree[p] = None /\ parked[p] # {})
    BY <1>0, <1>p, <2>1 DEF Safe, Covered
  <2>4. Journalled' /\ Agreement' /\ Covered' /\ Pinned'
    BY <1>0, <2>1, <2>2, <2>3 DEF Safe, Journalled, Agreement, Covered, Pinned, Pending
  <2>5. pc' \in {"idle", "items", "load", "begin"}
    BY <1>24 DEF RemoveJournal, Recovered, ItemDone, Return
  <2>6. Progress'
    BY <2>1, <2>5 DEF Progress, Pending
  <2>7. QED
    BY <2>4, <2>6 DEF Safe
<1>25. CASE RemoveTree
  BY <1>0, <1>25 DEF RemoveTree, Safe, Progress
<1>26. CASE RemoveDependency
  BY <1>0, <1>26 DEF RemoveDependency, Safe, Progress
<1>27. CASE RemoveLine
  BY <1>0, <1>27 DEF RemoveLine, Safe, Progress
<1>28. CASE WipeOne
  BY <1>0, <1>28 DEF WipeOne, Safe, Progress
<1>29. CASE WipeDone
  BY <1>0, <1>29 DEF WipeDone, Safe, Progress
<1>30. CASE Crash
  <2>1. UNCHANGED disk /\ pc' \in {"idle", "recover", "load", "items"}
    BY <1>30 DEF Crash, Return
  <2>2. QED
    BY <1>0, <2>1, SameDisk, Resting DEF Safe
<1>31. CASE CrashTruncating
  BY <1>0, <1>31 DEF CrashTruncating, Safe, Progress
<1>32. CASE UNCHANGED vars
  BY <1>0, <1>32 DEF vars, Safe, Journalled, Agreement, Covered, Pinned, Progress, Pending, Target, Refused
<1>33. QED
  BY <1>1, <1>2, <1>3, <1>4, <1>5, <1>6, <1>7, <1>8, <1>9, <1>10, <1>11, <1>12, <1>13, <1>14, <1>15, <1>16, <1>17, <1>18, <1>19, <1>20, <1>21, <1>22, <1>23, <1>24, <1>25, <1>26, <1>27, <1>28, <1>29, <1>30, <1>31, <1>32 DEF Next, Start, Step

LEMMA SafeAlways == ASSUME Transactional PROVE Spec => []SafeInv
<1>1. Init => SafeInv
  <2>1. Init => TypeInv
    BY IdleType, ConstantsAssumption, Forms
       DEF Init, TypeInv, TypeOK, Control, Phases, Idle, Lockfiles, Pending, Local
  <2>2. Init => Safe
    BY DEF Init, Safe, Journalled, Agreement, Covered, Pinned, Progress, Pending, Local
  <2>3. QED
    BY <2>1, <2>2 DEF SafeInv
<1>2. SafeInv /\ [Next]_vars => SafeInv'
  BY TypeStep, SafeStep DEF SafeInv
<1>3. QED
  BY <1>1, <1>2, PTL DEF Spec

\* Unless a whole journal says what is still to be written, every installed
\* project package is the tree its serez.lock line describes, after every
\* crash and every failed write of an install.
THEOREM TreeMatchesMetadata == ASSUME Transactional PROVE Spec => []NoTreeBesideOldMetadata
<1>1. SafeInv => NoTreeBesideOldMetadata
  BY DEF SafeInv, Safe, Agreement, NoTreeBesideOldMetadata
<1>2. QED
  BY <1>1, SafeAlways, PTL

\* Without uninstall, a single step rewrites serez.lock: the one that copies
\* the journal's.
LEMMA LockWriters ==
  ASSUME SafeInv, Next
  PROVE  lock' = lock \/ WriteLock
<1>1. pc \notin {"rmLock", "rmManifest"}
  BY DEF SafeInv, Safe, Progress
<1>2. CASE Start
  BY <1>2 DEF Start, StartInstall, StartInstallAll, StartUninstall, StartUninstallAllGlobal, disk
<1>3. CASE Step
  BY <1>1, <1>3
     DEF Step, RecoverPending, LoadManifest, NextItem, Restore, RestoreFails, RemoveStale,
         Stage, FailBeforeCommit, Verify, CreateJournal, FlushJournal, Apply, SwapOut,
         SwapIn, DropParked, SwapFails, WriteManifest, WriteFails, RemoveJournal,
         RemoveTree, RemoveDependency, RemoveLine, WipeOne, WipeDone, disk
<1>4. CASE Crash \/ CrashTruncating
  BY <1>1, <1>4 DEF Crash, CrashTruncating, disk
<1>5. QED
  BY <1>2, <1>3, <1>4 DEF Next

\* That step changes the line of the journal's package and no other, while
\* the package's tree is in place.
LEMMA WriteLockStep ==
  ASSUME SafeInv, WriteLock, NEW p \in Local, lock'[p] # lock[p]
  PROVE  /\ Pending /\ p = journal.pkg
         /\ lock'[p] = journal.rel /\ tree'[p] = journal.rel
<1>1. Pending /\ staging = None /\ lock' = journal.lock /\ tree' = tree
  BY DEF SafeInv, TypeInv, Control, Safe, Progress, WriteLock
<1>2. journal.pkg \in Local /\ journal.rel # None
  BY <1>1, PlanType, ConstantsAssumption DEF SafeInv, TypeInv
<1>3. QED
  BY <1>1, <1>2 DEF SafeInv, Safe, Journalled

\* Only the replay or the commit of a journal writes a lockfile line, and the
\* tree that line describes is in place by then.
THEOREM LinesForInstalledOnly == ASSUME Transactional PROVE Spec => LineOnlyForInstalled
<1>1. SafeInv /\ [Next]_vars =>
        [\A p \in Local : lock'[p] \notin {lock[p], None} => tree'[p] = lock'[p]]_vars
  BY LockWriters, WriteLockStep
<1>2. QED
  BY <1>1, SafeAlways, PTL DEF Spec, LineOnlyForInstalled

\* The integrity check made while the project was untouched still holds when
\* the journal is applied, however many crashes and runs later.
THEOREM PinsHold == ASSUME Transactional PROVE Spec => PinHolds
<1>1. SafeInv /\ [Next]_vars =>
        [\A p \in Local :
           lock[p] # None /\ lock'[p] # None /\ VersionOf[lock[p]] = VersionOf[lock'[p]]
             => lock'[p] = lock[p]]_vars
  <2> SUFFICES ASSUME SafeInv, Next, NEW p \in Local, lock[p] # None,
                      VersionOf[lock[p]] = VersionOf[lock'[p]], lock'[p] # lock[p]
               PROVE  FALSE
    BY DEF vars
  <2>1. Pending /\ p = journal.pkg /\ lock'[p] = journal.rel
    BY LockWriters, WriteLockStep
  <2>2. QED
    BY <2>1 DEF SafeInv, Safe, Pinned
<1>2. QED
  BY <1>1, SafeAlways, PTL DEF Spec, PinHolds
-----------------------------------------------------------------------------
(* No copy is lost: needs nothing of the commands and faults.               *)

\* Where an install is about to delete parked copies the package itself is in
\* place, and what it is about to move in is there.
Kept ==
  /\ pc = "clean" => tree[Target] # None \/ parked[Target] = {}
  /\ pc \in {"swapOut", "swapIn"} /\ Target \in Local => staging # None
  /\ pc = "dropParked" => tree[Target] # None

KeptInv == TypeInv /\ Kept

LEMMA KeptStep ==
  ASSUME KeptInv, [Next]_vars
  PROVE  Kept'
<1>0. TypeOK /\ Control /\ Kept
  BY DEF KeptInv, TypeInv
<1>1. CASE Restore
  <2>1. /\ pc \in {"begin", "restore"} /\ pc' = "clean" /\ UNCHANGED <<run, journal>>
        /\ TypeOK
    BY <1>0, <1>1 DEF Restore, Goto
  <2>2. Target' = Target /\ Target \in Pkgs
    BY <1>0, <2>1, PlanType DEF Target, Control, Local
  <2>3. CASE tree[Target] = None /\ parked[Target] # {}
    <3>1. PICK r \in parked[Target] : tree' = [tree EXCEPT ![Target] = r]
      BY <1>1, <2>3 DEF Restore
    <3>2. r # None /\ tree'[Target] = r
      BY <2>1, <2>2, <3>1, ConstantsAssumption DEF TypeOK
    <3>3. QED
      BY <2>1, <2>2, <3>2 DEF Kept
  <2>4. CASE ~(tree[Target] = None /\ parked[Target] # {})
    BY <1>1, <2>1, <2>2, <2>4 DEF Restore, Kept
  <2>5. QED
    BY <2>3, <2>4
<1>2. CASE Apply
  BY <1>0, <1>2 DEF Apply, Goto, Kept, disk
<1>3. CASE Verify
  <2>1. pc' \in {"swapOut", "create"} /\ run' = run /\ ~run.recovering /\ UNCHANGED disk
        /\ (pc' = "swapOut" => run.pkg \in GlobalPkgs)
    BY <1>0, <1>3 DEF Verify, Goto, Control
  <2>2. QED
    BY <2>1 DEF Kept, Target, Local
<1>4. CASE SwapOut
  <2>1. /\ pc = "swapOut" /\ pc' = "swapIn" /\ UNCHANGED <<staging, journal>>
        /\ run \in Runs /\ run' = [run EXCEPT !.old = tree[Target]]
    BY <1>0, <1>4 DEF SwapOut, TypeOK
  <2>2. Target' = Target
    BY <2>1 DEF Target, Runs
  <2>3. QED
    BY <1>0, <2>1, <2>2 DEF Kept
<1>5. CASE SwapIn
  <2>1. pc = "swapIn" /\ pc' \in {"dropParked", "idle", "items", "lock"} /\ journal' = journal
        /\ (pc' = "dropParked" => run' = run)
    BY <1>5 DEF SwapIn, AfterSwap, ItemDone, Return, Goto
  <2>2. Target \in Pkgs
    BY <1>0, <2>1, SwapTarget
  <2>3. tree'[Target] # None
    <3>1. CASE Target \in GlobalPkgs
      <4>1. run.staged \in Releases
        BY <1>0, <2>1, <3>1, PlanType DEF Control, Local
      <4>2. tree'[Target] = run.staged
        BY <1>0, <1>5, <2>2, <3>1 DEF SwapIn, TypeOK
      <4>3. QED
        BY <4>1, <4>2, ConstantsAssumption
    <3>2. CASE Target \notin GlobalPkgs
      BY <1>0, <1>5, <2>1, <2>2, <3>2 DEF SwapIn, TypeOK, Kept, Local
    <3>3. QED
      BY <3>1, <3>2
  <2>4. QED
    BY <2>1, <2>3 DEF Kept, Target
<1>6. CASE WipeOne
  BY <1>0, <1>6 DEF WipeOne, Kept
<1>7. CASE Start
  BY <1>7 DEF Start, StartInstall, StartInstallAll, StartUninstall, StartUninstallAllGlobal, Kept
<1>8. CASE \/ RestoreFails \/ FailBeforeCommit \/ SwapFails \/ WriteFails \/ RemoveLine
           \/ WipeDone \/ Crash \/ CrashTruncating
  <2>1. pc' = "idle"
    BY <1>8 DEF RestoreFails, FailBeforeCommit, SwapFails, WriteFails, RemoveLine, WipeDone,
                Crash, CrashTruncating, Return
  <2>2. QED
    BY <2>1 DEF Kept
<1>9. CASE \/ RecoverPending \/ LoadManifest \/ (\E p \in Local : NextItem(p)) \/ RemoveStale
           \/ (\E r \in Releases : Stage(r)) \/ CreateJournal \/ FlushJournal \/ DropParked
           \/ WriteLock \/ WriteManifest \/ RemoveJournal \/ RemoveTree \/ RemoveDependency
  <2>1. pc' \notin {"clean", "swapOut", "swapIn", "dropParked"}
    BY <1>9 DEF RecoverPending, LoadManifest, NextItem, RemoveStale, Stage, CreateJournal,
                FlushJournal, DropParked, WriteLock, WriteManifest, RemoveJournal, RemoveTree,
                RemoveDependency, Recovered, ItemDone, AfterSwap, Return, Goto
  <2>2. QED
    BY <2>1 DEF Kept
<1>10. CASE UNCHANGED vars
  BY <1>0, <1>10 DEF vars, Kept, Target
<1>11. QED
  BY <1>1, <1>2, <1>3, <1>4, <1>5, <1>6, <1>7, <1>8, <1>9, <1>10 DEF Next, Step

LEMMA KeptAlways == Spec => []KeptInv
<1>1. Init => KeptInv
  <2>1. Init => TypeInv
    BY IdleType, ConstantsAssumption, Forms
       DEF Init, TypeInv, TypeOK, Control, Phases, Idle, Lockfiles, Pending, Local
  <2>2. Init => Kept
    BY DEF Init, Kept
  <2>3. QED
    BY <2>1, <2>2 DEF KeptInv
<1>2. KeptInv /\ [Next]_vars => KeptInv'
  BY TypeStep, KeptStep DEF KeptInv
<1>3. QED
  BY <1>1, <1>2, PTL DEF Spec

LEMMA KeepsCopies ==
  ASSUME KeptInv, Next, NEW p \in Pkgs, Recoverable(p), pc \notin {"rmTree", "wipe"}
  PROVE  Recoverable(p)'
<1>0. TypeOK /\ Control /\ Kept
  BY DEF KeptInv, TypeInv
<1>1. CASE UNCHANGED <<tree, parked>>
  BY <1>1 DEF Recoverable
<1>2. CASE Restore
  <2>1. pc \in {"begin", "restore"} /\ Target \in Pkgs
    BY <1>0, <1>2, PlanType DEF Restore, Control, Target, Local
  <2>2. CASE tree[Target] = None /\ parked[Target] # {}
    <3>1. PICK r \in parked[Target] :
            /\ tree' = [tree EXCEPT ![Target] = r]
            /\ parked' = [parked EXCEPT ![Target] = @ \ {r}]
      BY <1>2, <2>2 DEF Restore
    <3>2. r # None
      BY <1>0, <2>1, <3>1, ConstantsAssumption DEF TypeOK
    <3>3. QED
      BY <1>0, <2>1, <3>1, <3>2 DEF Recoverable, TypeOK
  <2>3. CASE ~(tree[Target] = None /\ parked[Target] # {})
    BY <1>2, <2>3 DEF Restore, Recoverable
  <2>4. QED
    BY <2>2, <2>3
<1>3. CASE RemoveStale
  BY <1>0, <1>3 DEF RemoveStale, Kept, Recoverable, TypeOK
<1>4. CASE SwapOut
  <2>1. Target \in Pkgs
    BY <1>0, <1>4, SwapTarget DEF SwapOut
  <2>2. QED
    BY <1>0, <1>4, <2>1 DEF SwapOut, Recoverable, TypeOK
<1>5. CASE SwapIn
  <2>1. Target \in Pkgs /\ (Target \in GlobalPkgs => run.staged \in Releases)
    BY <1>0, <1>5, SwapTarget, PlanType DEF SwapIn, Control, Local
  <2>2. Target \in Local => staging # None
    BY <1>0, <1>5 DEF SwapIn, Kept
  <2>3. QED
    BY <1>0, <1>5, <2>1, <2>2, ConstantsAssumption DEF SwapIn, Recoverable, TypeOK, Local
<1>6. CASE DropParked
  BY <1>0, <1>6 DEF DropParked, Kept, Recoverable, TypeOK
<1>7. CASE SwapFails
  <2>1. Target \in Pkgs
    BY <1>0, <1>7, SwapTarget DEF SwapFails
  <2>2. QED
    BY <1>0, <1>7, <2>1 DEF SwapFails, Recoverable, TypeOK
<1>8. CASE Start \/ Crash \/ CrashTruncating
  BY <1>1, <1>8 DEF Start, StartInstall, StartInstallAll, StartUninstall, StartUninstallAllGlobal,
                    Crash, CrashTruncating, disk
<1>9. CASE \/ RecoverPending \/ LoadManifest \/ (\E q \in Local : NextItem(q))
           \/ (\E r \in Releases : Stage(r)) \/ CreateJournal \/ FlushJournal
           \/ WriteLock \/ WriteManifest \/ RemoveJournal \/ RemoveDependency
           \/ RestoreFails \/ FailBeforeCommit \/ WriteFails \/ RemoveLine \/ WipeDone
           \/ Verify \/ Apply
  BY <1>1, <1>9 DEF RecoverPending, LoadManifest, NextItem, Stage, CreateJournal,
                FlushJournal, WriteLock, WriteManifest, RemoveJournal, RemoveDependency,
                RestoreFails, FailBeforeCommit, WriteFails, RemoveLine, WipeDone, Verify, Apply, disk
<1>10. CASE RemoveTree \/ WipeOne
  BY <1>10 DEF RemoveTree, WipeOne
<1>11. QED
  BY <1>2, <1>3, <1>4, <1>5, <1>6, <1>7, <1>8, <1>9, <1>10 DEF Next, Step

\* Only an uninstall takes the last copy of a package: no crash, no failed
\* rename (of local packages too), removal or write, in any interleaving of
\* installs, recoveries and uninstalls, leaves the machine without one.
THEOREM CopiesAreKept == Spec => NeverLost
<1>1. KeptInv /\ [Next]_vars =>
        [\A p \in Pkgs : Recoverable(p) => Recoverable(p)' \/ pc \in {"rmTree", "wipe"}]_vars
  BY KeepsCopies
<1>2. QED
  BY <1>1, KeptAlways, PTL DEF Spec, NeverLost
-----------------------------------------------------------------------------
(* PackageInstall implements ProjectState.                                  *)

\* The manifest a journal carries is on disk before the journal is let go.
Recorded ==
  Pending /\ journal.manifest # None =>
    /\ pc = "unlink" => manifest = journal.manifest
    /\ pc \in {"begin", "clean", "stage", "verify", "create"} /\ ~run.recovering
         /\ run.pkg \in Local => manifest = journal.manifest

AtomicInv == SafeInv /\ Kept /\ Recorded

LEMMA RecordedStep ==
  ASSUME AtomicInv, [Next]_vars
  PROVE  Recorded'
<1>0. /\ TypeOK /\ Control /\ Recorded
      /\ pc \notin {"rmTree", "rmManifest", "rmLock", "wipe"} /\ (pc = "flush" => journal = Torn)
      /\ (pc = "restore" => run.recovering)
  BY DEF AtomicInv, SafeInv, TypeInv, Safe, Progress
<1>1. CASE \E p \in Pkgs, v \in Versions : StartInstall(p, v)
  <2>1. pc' = "recover" \/ (pc' = "begin" /\ run'.pkg \in GlobalPkgs)
    BY <1>1, ConstantsAssumption DEF StartInstall, Idle
  <2>2. QED
    BY <2>1 DEF Recorded, Local
<1>2. CASE RecoverPending
  <2>1. CASE Pending
    BY <1>2, <2>1 DEF RecoverPending, Recorded
  <2>2. CASE ~Pending
    BY <1>2, <2>2 DEF RecoverPending, Recorded, Pending
  <2>3. QED
    BY <2>1, <2>2
<1>3. CASE Restore
  BY <1>0, <1>3 DEF Restore, Goto, Recorded, Pending
<1>4. CASE RemoveStale
  BY <1>0, <1>4 DEF RemoveStale, Goto, Recorded, Pending
<1>5. CASE \E r \in Releases : Stage(r)
  <2>1. pc = "stage" /\ pc' = "verify" /\ UNCHANGED disk /\ run'.recovering = run.recovering /\ run'.pkg = run.pkg
    BY <1>0, <1>5 DEF Stage, TypeOK, Runs
  <2>2. QED
    BY <1>0, <2>1 DEF Recorded, Pending, disk
<1>6. CASE Verify
  <2>1. pc = "verify" /\ pc' \in {"swapOut", "create"} /\ run' = run /\ UNCHANGED disk
    BY <1>6 DEF Verify, Goto
  <2>2. QED
    BY <1>0, <2>1 DEF Recorded, Pending, disk
<1>7. CASE WriteLock
  BY <1>7 DEF WriteLock, Goto, Recorded
<1>8. CASE WriteManifest
  BY <1>8 DEF WriteManifest, Goto, Recorded, Pending
<1>9. CASE RemoveJournal
  <2>1. pc = "unlink" /\ UNCHANGED manifest /\ journal' \in {journal, None}
        /\ pc' \in {"idle", "items", "load", "begin"}
    BY <1>9 DEF RemoveJournal, Recovered, ItemDone, Return
  <2>2. QED
    BY <1>0, <2>1 DEF Recorded, Pending
<1>10. CASE \/ StartInstallAll \/ LoadManifest \/ (\E p \in Local : NextItem(p)) \/ RestoreFails
            \/ FailBeforeCommit \/ Apply \/ SwapOut \/ SwapIn \/ DropParked \/ SwapFails
            \/ WriteFails \/ Crash
  <2>1. pc' \notin {"unlink", "begin", "clean", "stage", "verify", "create"}
    BY <1>10 DEF StartInstallAll, LoadManifest, NextItem, RestoreFails, FailBeforeCommit, Apply,
                 SwapOut, SwapIn, DropParked, SwapFails, WriteFails, Crash,
                 AfterSwap, ItemDone, Return, Goto
  <2>2. QED
    BY <2>1 DEF Recorded
<1>11. CASE CreateJournal \/ FlushJournal
  <2>1. pc' \in {"idle", "flush", "apply"}
    BY <1>11 DEF CreateJournal, FlushJournal, Return, Goto
  <2>2. QED
    BY <2>1 DEF Recorded
<1>12. CASE \/ (\E p \in Pkgs : StartUninstall(p)) \/ StartUninstallAllGlobal \/ CrashTruncating
  <2>1. pc' \in {"rmTree", "wipe", "idle"}
    BY <1>12 DEF StartUninstall, StartUninstallAllGlobal, CrashTruncating, Return
  <2>2. QED
    BY <2>1 DEF Recorded
<1>13. CASE RemoveTree \/ RemoveDependency \/ RemoveLine \/ WipeOne \/ WipeDone
  BY <1>0, <1>13 DEF RemoveTree, RemoveDependency, RemoveLine, WipeOne, WipeDone
<1>14. CASE UNCHANGED vars
  BY <1>0, <1>14 DEF vars, Recorded, Pending
<1>15. QED
  BY <1>1, <1>2, <1>3, <1>4, <1>5, <1>6, <1>7, <1>8, <1>9, <1>10, <1>11, <1>12, <1>13, <1>14
     DEF Next, Start, Step

LEMMA AtomicStep == Transactional /\ AtomicInv /\ [Next]_vars => AtomicInv'
BY TypeStep, SafeStep, KeptStep, RecordedStep DEF AtomicInv, SafeInv, KeptInv

LEMMA AtomicAlways == ASSUME Transactional PROVE Spec => []AtomicInv
<1>1. Init => Recorded /\ Kept
  BY DEF Init, Recorded, Kept, Pending
<1>2. Init /\ SafeInv => AtomicInv
  BY <1>1 DEF AtomicInv
<1>3. AtomicInv /\ [Next]_vars => AtomicInv'
  BY AtomicStep
<1>4. QED
  BY <1>2, <1>3, SafeAlways, PTL DEF Spec

\* What the mapping shows of a project package: the journalled tree or the one
\* on disk.
MapsLocal ==
  \A p \in Local :
    EffectiveTree[p] = IF Pending /\ journal.pkg = p THEN journal.rel ELSE tree[p]

\* Of a global one: the tree, or a parked copy of it.
MapsGlobal ==
  \A p \in GlobalPkgs :
    EffectiveTree[p] = IF tree[p] = None /\ parked[p] # {}
                       THEN CHOOSE r \in parked[p] : TRUE ELSE tree[p]

MapsCopies ==
  \A p \in Pkgs :
    /\ EffectiveTree[p] \in Releases \cup {None}
    /\ p \in GlobalPkgs => (EffectiveTree[p] = None <=> ~Recoverable(p))

Mapped == MapsLocal /\ MapsGlobal /\ MapsCopies

LEMMA Chosen ==
  ASSUME NEW S, S # {}
  PROVE  (CHOOSE r \in S : TRUE) \in S
OBVIOUS

LEMMA Mapping == SafeInv => Mapped
<1> SUFFICES ASSUME SafeInv PROVE Mapped
  OBVIOUS
<1>0. TypeOK
  BY DEF SafeInv, TypeInv
<1>1. MapsLocal
  BY DEF MapsLocal, EffectiveTree, SafeInv, Safe, Covered, Local
<1>2. MapsGlobal
  <2> SUFFICES ASSUME NEW p \in GlobalPkgs
               PROVE  EffectiveTree[p] = IF tree[p] = None /\ parked[p] # {}
                                         THEN CHOOSE r \in parked[p] : TRUE ELSE tree[p]
    BY DEF MapsGlobal
  <2>1. p \in Pkgs /\ ~(Pending /\ journal.pkg = p)
    BY <1>0, ConstantsAssumption, PlanType DEF Local
  <2>2. QED
    BY <2>1 DEF EffectiveTree
<1>3. MapsCopies
  <2> SUFFICES ASSUME NEW p \in Pkgs
               PROVE  /\ EffectiveTree[p] \in Releases \cup {None}
                      /\ p \in GlobalPkgs => (EffectiveTree[p] = None <=> ~Recoverable(p))
    BY DEF MapsCopies
  <2>1. CASE p \in GlobalPkgs
    <3>1. parked[p] # {} => (CHOOSE r \in parked[p] : TRUE) \in Releases
      BY <1>0, Chosen DEF TypeOK
    <3>2. QED
      BY <1>0, <1>2, <2>1, <3>1, ConstantsAssumption DEF TypeOK, Recoverable, MapsGlobal
  <2>2. CASE p \notin GlobalPkgs
    BY <1>0, <1>1, <2>2, PlanType DEF TypeOK, Local, MapsLocal
  <2>3. QED
    BY <2>1, <2>2
<1>4. QED
  BY <1>1, <1>2, <1>3 DEF Mapped

LEMMA MappingAfter == SafeInv' => Mapped'
BY Mapping, PTL

\* A step of the disk is one of ProjectState or leaves the project alone.
Atomic == Project!Next \/ UNCHANGED <<EffectiveTree, EffectiveLock, EffectiveManifest>>

LEMMA SameMetadata ==
  ASSUME UNCHANGED <<lock, manifest, journal>>
  PROVE  UNCHANGED <<EffectiveLock, EffectiveManifest>>
BY DEF EffectiveLock, EffectiveManifest, Pending

\* Trees that move within one package: nothing, or one whole global install.
LEMMA TreeMoves ==
  ASSUME SafeInv, SafeInv', NEW t \in Pkgs,
         UNCHANGED <<lock, manifest, journal>>,
         \A p \in Pkgs \ {t} : tree'[p] = tree[p] /\ parked'[p] = parked[p],
         t \in Local => (Pending /\ journal.pkg = t) \/ tree'[t] = tree[t],
         Recoverable(t) => Recoverable(t)'
  PROVE  Atomic
<1>1. Mapped /\ Mapped' /\ Pending' = Pending
  BY Mapping, MappingAfter DEF Pending
<1>2. \A p \in Pkgs \ {t} : EffectiveTree'[p] = EffectiveTree[p]
  <2> SUFFICES ASSUME NEW p \in Pkgs \ {t}
               PROVE  EffectiveTree'[p] = EffectiveTree[p]
    OBVIOUS
  <2>1. CASE p \in GlobalPkgs
    BY <1>1, <2>1 DEF Mapped, MapsGlobal
  <2>2. CASE p \notin GlobalPkgs
    BY <1>1, <2>2 DEF Mapped, MapsLocal, Local
  <2>3. QED
    BY <2>1, <2>2
<1>3. /\ EffectiveTree = [p \in Pkgs |-> EffectiveTree[p]]
      /\ EffectiveTree' = [p \in Pkgs |-> EffectiveTree'[p]]
  BY DEF EffectiveTree
<1>4. UNCHANGED <<EffectiveLock, EffectiveManifest>>
  BY SameMetadata
<1>5. CASE EffectiveTree'[t] = EffectiveTree[t]
  <2>1. \A p \in Pkgs : EffectiveTree'[p] = EffectiveTree[p]
    BY <1>2, <1>5
  <2>2. EffectiveTree' = EffectiveTree
    BY <1>3, <2>1
  <2>3. QED
    BY <1>4, <2>2 DEF Atomic
<1>6. CASE EffectiveTree'[t] # EffectiveTree[t]
  <2>1. t \in GlobalPkgs
    BY <1>1, <1>6 DEF Mapped, MapsLocal, Local
  <2>2. EffectiveTree'[t] \in Releases
    BY <1>1, <1>6, <2>1 DEF Mapped, MapsCopies
  <2>3. EffectiveTree' = [EffectiveTree EXCEPT ![t] = EffectiveTree'[t]]
    BY <1>2, <1>3
  <2>4. Project!InstallGlobal(t, EffectiveTree'[t])
    BY <1>4, <2>3 DEF Project!InstallGlobal
  <2>5. QED
    BY <2>1, <2>2, <2>4 DEF Atomic, Project!Next
<1>7. QED
  BY <1>5, <1>6

\* The flush of the journal is the moment a project package is installed.
LEMMA FlushInstalls ==
  ASSUME AtomicInv, SafeInv', pc = "flush", journal' = Plan,
         UNCHANGED <<tree, parked, lock, manifest>>
  PROVE  Atomic
<1> DEFINE p == run.pkg
           r == run.staged
<1>0. TypeOK /\ Control /\ ~Pending /\ ~Refused /\ Mapped /\ Mapped'
  BY Mapping, MappingAfter DEF AtomicInv, SafeInv, TypeInv, Safe, Progress, Pending
<1>1. p \in Local /\ r \in Releases /\ run.ver = VersionOf[r] /\ ~PlanFails
  BY <1>0 DEF Control
<1>2. Plan \in CommitPlan
  BY <1>0, NewPlanType
<1>3. Pending' /\ journal'.pkg = p /\ journal'.rel = r
  BY <1>2, Forms DEF Pending, Plan
<1>4. /\ EffectiveTree = [q \in Pkgs |-> EffectiveTree[q]]
      /\ EffectiveTree' = [q \in Pkgs |-> EffectiveTree'[q]]
  BY DEF EffectiveTree
<1>5. \A q \in Pkgs \ {p} : EffectiveTree'[q] = EffectiveTree[q]
  BY <1>0, <1>3 DEF EffectiveTree, Pending
<1>6. EffectiveTree'[p] = r
  BY <1>0, <1>1, <1>3 DEF Mapped, MapsLocal
<1>7. EffectiveTree' = [EffectiveTree EXCEPT ![p] = r]
  BY <1>4, <1>5, <1>6
<1>8. EffectiveLock = lock /\ EffectiveLock' = [lock EXCEPT ![p] = r]
  BY <1>0, <1>3 DEF EffectiveLock, Plan
<1>9. \/ UNCHANGED EffectiveManifest
      \/ /\ EffectiveManifest \notin {None, Torn}
         /\ EffectiveManifest' = [EffectiveManifest EXCEPT ![p] = VersionOf[r]]
  <2>1. EffectiveManifest = manifest
    BY <1>0 DEF EffectiveManifest
  <2>2. CASE run.record /\ manifest # None
    <3>1. manifest \in Manifests
      BY <1>0, <1>1, <2>2 DEF TypeOK, PlanFails
    <3>2. [manifest EXCEPT ![p] = run.ver] \in Manifests
      BY <1>1, <3>1, ConstantsAssumption DEF Manifests
    <3>3. journal'.manifest = [manifest EXCEPT ![p] = run.ver] /\ journal'.manifest # None
      BY <2>2, <3>2, Forms DEF Plan
    <3>4. EffectiveManifest' = [manifest EXCEPT ![p] = run.ver]
      BY <1>3, <3>3 DEF EffectiveManifest
    <3>5. QED
      BY <1>1, <2>1, <3>1, <3>4, Forms
  <2>3. CASE ~(run.record /\ manifest # None)
    <3>1. journal'.manifest = None
      BY <2>3 DEF Plan
    <3>2. EffectiveManifest' = manifest
      BY <3>1 DEF EffectiveManifest
    <3>3. QED
      BY <2>1, <3>2
  <2>4. QED
    BY <2>2, <2>3
<1>10. Project!Allowed(p, r)
  BY <1>0, <1>1, <1>8 DEF Project!Allowed, Refused
<1>11. Project!InstallLocal(p, r)
  BY <1>7, <1>8, <1>9, <1>10 DEF Project!InstallLocal
<1>12. QED
  BY <1>1, <1>11 DEF Atomic, Project!Next, Project!Local, Local

\* A journal is let go when all it says is on disk.
LEMMA ForgettingChangesNothing ==
  ASSUME AtomicInv, SafeInv', pc \in {"create", "unlink"}, ~Pending',
         UNCHANGED <<tree, parked, lock, manifest>>
  PROVE  Atomic
<1>0. TypeOK /\ Control /\ Mapped /\ Mapped'
  BY Mapping, MappingAfter DEF AtomicInv, SafeInv, TypeInv
<1>1. pc = "create" => run.pkg \in Local /\ ~run.recovering
  BY <1>0 DEF Control
<1>2. Pending => /\ staging = None /\ lock = journal.lock
                 /\ tree[journal.pkg] = journal.rel
                 /\ (journal.manifest # None => manifest = journal.manifest)
  BY <1>0, <1>1, PlanType, ConstantsAssumption
     DEF AtomicInv, SafeInv, Safe, Progress, Recorded, Journalled
<1>3. \A p \in Pkgs : EffectiveTree'[p] = EffectiveTree[p]
  <2>1. \A p \in Local : EffectiveTree'[p] = EffectiveTree[p]
    BY <1>0, <1>2 DEF Mapped, MapsLocal
  <2>2. \A p \in GlobalPkgs : EffectiveTree'[p] = EffectiveTree[p]
    BY <1>0 DEF Mapped, MapsGlobal
  <2>3. QED
    BY <2>1, <2>2 DEF Local
<1>4. /\ EffectiveTree = [q \in Pkgs |-> EffectiveTree[q]]
      /\ EffectiveTree' = [q \in Pkgs |-> EffectiveTree'[q]]
  BY DEF EffectiveTree
<1>5. EffectiveTree' = EffectiveTree
  BY <1>3, <1>4
<1>6. UNCHANGED <<EffectiveLock, EffectiveManifest>>
  BY <1>2 DEF EffectiveLock, EffectiveManifest
<1>7. QED
  BY <1>5, <1>6 DEF Atomic

LEMMA Unmoved ==
  ASSUME UNCHANGED <<tree, parked, journal>>,
         UNCHANGED <<EffectiveLock, EffectiveManifest>>
  PROVE  Atomic
BY DEF Atomic, EffectiveTree, Pending

LEMMA EveryStepIsAtomic ==
  ASSUME Transactional, AtomicInv, Next
  PROVE  Atomic
<1>0. /\ TypeOK /\ Control /\ Safe /\ SafeInv
      /\ pc \notin {"rmTree", "rmManifest", "rmLock", "wipe"}
  BY DEF AtomicInv, SafeInv, TypeInv, Safe, Progress
<1>1. SafeInv'
  BY AtomicStep DEF AtomicInv
<1>2. ASSUME NEW t \in Pkgs, Recoverable(t) PROVE Recoverable(t)'
  BY <1>0, <1>2, KeepsCopies DEF AtomicInv, KeptInv, SafeInv
<1>3. CASE UNCHANGED <<tree, parked, lock, manifest, journal>>
  BY <1>3, SameMetadata, Unmoved
<1>4. CASE Restore
  <2>1. Target \in Pkgs /\ UNCHANGED <<lock, manifest, journal>>
    BY <1>0, <1>4, PlanType DEF Restore, Control, Target, Local
  <2>2. \A p \in Pkgs \ {Target} : tree'[p] = tree[p] /\ parked'[p] = parked[p]
    BY <1>0, <1>4 DEF Restore, TypeOK
  <2>3. Target \in Local => ~(tree[Target] = None /\ parked[Target] # {})
    BY <1>0, <1>4, PlanType, ConstantsAssumption DEF Restore, Safe, Covered, Progress, Control, Target
  <2>4. Target \in Local => tree'[Target] = tree[Target]
    BY <1>4, <2>3 DEF Restore
  <2>5. QED
    BY <1>0, <1>1, <1>2, <2>1, <2>2, <2>4, TreeMoves
<1>5. CASE RemoveStale
  <2>1. Target \in Pkgs /\ UNCHANGED <<tree, lock, manifest, journal>>
    BY <1>0, <1>5, PlanType DEF RemoveStale, Control, Target, Local
  <2>2. \A p \in Pkgs \ {Target} : parked'[p] = parked[p]
    BY <1>0, <1>5 DEF RemoveStale, TypeOK
  <2>3. QED
    BY <1>0, <1>1, <1>2, <2>1, <2>2, TreeMoves
<1>6. CASE SwapOut \/ SwapIn \/ DropParked \/ SwapFails
  <2>1. Target \in Pkgs /\ (Target \in Local => Pending /\ journal.pkg = Target)
    BY <1>0, <1>6, SwapTarget DEF SwapOut, SwapIn, DropParked, SwapFails, Control, Target, Local
  <2>2. UNCHANGED <<lock, manifest, journal>>
    BY <1>6 DEF SwapOut, SwapIn, DropParked, SwapFails
  <2>3. \A p \in Pkgs \ {Target} : tree'[p] = tree[p] /\ parked'[p] = parked[p]
    BY <1>0, <1>6 DEF SwapOut, SwapIn, DropParked, SwapFails, TypeOK
  <2>4. QED
    BY <1>0, <1>1, <1>2, <2>1, <2>2, <2>3, TreeMoves
<1>7. CASE FlushJournal
  <2>1. CASE journal' = Plan
    BY <1>1, <1>7, <2>1, FlushInstalls DEF FlushJournal
  <2>2. CASE journal' # Plan
    BY <1>3, <1>7, <2>2 DEF FlushJournal
  <2>3. QED
    BY <2>1, <2>2
<1>8. CASE CreateJournal
  <2>1. CASE journal' = Torn
    BY <1>1, <1>8, <2>1, ForgettingChangesNothing DEF CreateJournal, Pending
  <2>2. CASE journal' # Torn
    BY <1>3, <1>8, <2>2 DEF CreateJournal
  <2>3. QED
    BY <2>1, <2>2
<1>9. CASE RemoveJournal
  <2>1. CASE journal' = None
    BY <1>1, <1>9, <2>1, ForgettingChangesNothing DEF RemoveJournal, Pending
  <2>2. CASE journal' # None
    BY <1>3, <1>9, <2>2 DEF RemoveJournal
  <2>3. QED
    BY <2>1, <2>2
<1>10. CASE RecoverPending
  <2>1. CASE Pending
    BY <1>3, <1>10, <2>1 DEF RecoverPending
  <2>2. CASE ~Pending
    <3>1. ~Pending' /\ UNCHANGED <<tree, parked, lock, manifest>>
      BY <1>10, <2>2 DEF RecoverPending, Pending
    <3>2. UNCHANGED <<EffectiveTree, EffectiveLock, EffectiveManifest>>
      BY <2>2, <3>1 DEF EffectiveTree, EffectiveLock, EffectiveManifest
    <3>3. QED
      BY <3>2 DEF Atomic
  <2>3. QED
    BY <2>1, <2>2
<1>11. CASE WriteLock
  <2>1. Pending /\ UNCHANGED <<tree, parked, manifest, journal>>
    BY <1>0, <1>11 DEF WriteLock, Control
  <2>2. UNCHANGED <<EffectiveLock, EffectiveManifest>>
    BY <2>1 DEF EffectiveLock, EffectiveManifest, Pending
  <2>3. QED
    BY <2>1, <2>2, Unmoved
<1>12. CASE WriteManifest
  <2>1. Pending /\ journal.manifest # None /\ UNCHANGED <<tree, parked, lock, journal>>
    BY <1>0, <1>12 DEF WriteManifest, Control
  <2>2. UNCHANGED <<EffectiveLock, EffectiveManifest>>
    BY <2>1 DEF EffectiveLock, EffectiveManifest, Pending
  <2>3. QED
    BY <2>1, <2>2, Unmoved
<1>13. CASE \/ Start \/ Crash \/ LoadManifest \/ (\E p \in Local : NextItem(p)) \/ RestoreFails
            \/ (\E r \in Releases : Stage(r)) \/ FailBeforeCommit \/ Verify \/ Apply \/ WriteFails
            \/ WipeDone
  BY <1>3, <1>13 DEF Start, StartInstall, StartInstallAll, StartUninstall, StartUninstallAllGlobal,
        Crash, LoadManifest, NextItem, RestoreFails, Stage, FailBeforeCommit, Verify, Apply,
        WriteFails, WipeDone, disk
<1>14. CASE RemoveTree \/ RemoveDependency \/ RemoveLine \/ WipeOne \/ CrashTruncating
  BY <1>0, <1>14 DEF RemoveTree, RemoveDependency, RemoveLine, WipeOne, CrashTruncating
<1>15. QED
  BY <1>4, <1>5, <1>6, <1>7, <1>8, <1>9, <1>10, <1>11, <1>12, <1>13, <1>14 DEF Next, Step

\* An install, with every crash, failed write, recovery and retry it meets, is
\* one whole step of ProjectState: package, manifest and lockfile together.
THEOREM InstallsImplementProjectState ==
  ASSUME Transactional PROVE Spec => InstallsAreAtomic
<1>1. Init => Project!Init
  <2> SUFFICES ASSUME Init PROVE Project!Init
    OBVIOUS
  <2>1. ~Pending
    BY DEF Init, Pending
  <2>2. EffectiveTree = [p \in Pkgs |-> None]
    BY <2>1 DEF Init, EffectiveTree
  <2>3. EffectiveLock = lock /\ EffectiveManifest = manifest
    BY <2>1 DEF EffectiveLock, EffectiveManifest
  <2>4. QED
    BY <2>2, <2>3 DEF Init, Project!Init, Project!Local, Local, Lockfiles, Manifests
<1>2. AtomicInv /\ [Next]_vars =>
        [Project!Next]_<<EffectiveTree, EffectiveLock, EffectiveManifest>>
  <2>1. ASSUME AtomicInv, Next
        PROVE  [Project!Next]_<<EffectiveTree, EffectiveLock, EffectiveManifest>>
    BY <2>1, EveryStepIsAtomic DEF Atomic
  <2>2. ASSUME UNCHANGED vars
        PROVE  UNCHANGED <<EffectiveTree, EffectiveLock, EffectiveManifest>>
    BY <2>2 DEF vars, EffectiveTree, EffectiveLock, EffectiveManifest, Pending
  <2>3. QED
    BY <2>1, <2>2
<1>3. QED
  BY <1>1, <1>2, AtomicAlways, PTL DEF Spec, InstallsAreAtomic, Project!Spec
=============================================================================
