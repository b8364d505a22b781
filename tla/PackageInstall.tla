--------------------------- MODULE PackageInstall ---------------------------
(***************************************************************************)
(* `sz install`, `sz update`, `sz uninstall` over one project directory    *)
(* and one global store: src/src/package_install.rs and the commands of    *)
(* src/src/package_manager.rs that drive it.                               *)
(*                                                                         *)
(* One `sz` process runs at a time (two at once are documented to race,    *)
(* spec/packages.md).  Each action is one filesystem step of the process,  *)
(* so a crash can fall between any two of them.  The variables disk-side   *)
(* survive a crash, `pc` and `run` are the process's memory.               *)
(*                                                                         *)
(* Abstractions.  A release stands for a tree and its digest: two releases *)
(* of one version are two trees published under one version number.  A     *)
(* package installed with -g is a member of GlobalPkgs.  A staging         *)
(* directory carries its pid in its name, so one left by a dead process is *)
(* never read again unless a journal names it: `run.staged` is the running *)
(* process's own, `staging` the journalled one.  remove_dir_all is one     *)
(* step.                                                                   *)
(***************************************************************************)
EXTENDS Integers, FiniteSets

CONSTANTS
  Pkgs,         \* packages, each local to the project or global
  GlobalPkgs,   \* those in the global store
  Releases,     \* trees a registry may serve
  Versions,     \* version numbers
  VersionOf,    \* the version a release is published under
  Commands,     \* the commands users run: "install", "all", "uninstall"
  Faults,       \* what may go wrong: "crash", "write", "swap"
  MaxFaults,    \* bound on the number of faults
  None, Torn    \* absent; present but cut short

ASSUME ConstantsAssumption ==
  /\ GlobalPkgs \subseteq Pkgs
  /\ VersionOf \in [Releases -> Versions]
  /\ MaxFaults \in Nat
  /\ None \notin Pkgs \cup Releases \cup Versions

Local == Pkgs \ GlobalPkgs

VARIABLES
  tree,      \* packages/<name>: the release whose files are there
  parked,    \* <name>.replaced-<pid>: superseded trees moved aside
  staging,   \* the staging directory the journal names: a tree, or None
  lock,      \* serez.lock: the release (version and digest) of each line
  manifest,  \* serez.json: None, Torn, or the version of each dependency
  journal,   \* .serez-install.journal: None, Torn, or a whole plan
  pc,        \* what the running `sz` process does next
  run,       \* its arguments and locals
  faults     \* faults so far

disk == <<tree, parked, staging, lock, manifest, journal>>
vars == <<tree, parked, staging, lock, manifest, journal, pc, run, faults>>

Lockfiles == [Local -> Releases \cup {None}]
Manifests == [Local -> Versions \cup {None}]
CommitPlan == [pkg : Local, rel : Releases, lock : Lockfiles,
               manifest : Manifests \cup {None}]

ASSUME MarkersAssumption == {None, Torn} \cap (CommitPlan \cup Manifests) = {}
ASSUME DistinctAssumption == None # Torn

Idle == [pkg |-> None, ver |-> None, record |-> FALSE, todo |-> {},
         recovering |-> FALSE, old |-> None, staged |-> None]

Runs == [pkg : Pkgs \cup {None}, ver : Versions \cup {None}, record : BOOLEAN,
         todo : SUBSET Local, recovering : BOOLEAN, old : Releases \cup {None},
         staged : Releases \cup {None}]

Phases == {"idle", "recover", "load", "items", "begin", "clean", "stage",
           "verify", "create", "flush", "apply", "restore", "swapOut", "swapIn",
           "dropParked", "lock", "manifest", "unlink", "rmTree", "rmManifest",
           "rmLock", "wipe"}

TypeOK ==
  /\ tree \in [Pkgs -> Releases \cup {None}]
  /\ parked \in [Pkgs -> SUBSET Releases]
  /\ staging \in Releases \cup {None}
  /\ lock \in Lockfiles
  /\ manifest \in Manifests \cup {None, Torn}
  /\ journal \in CommitPlan \cup {None, Torn}
  /\ pc \in Phases
  /\ run \in Runs
  /\ faults \in 0 .. MaxFaults

\* A fresh clone: metadata as committed, nothing installed yet.
Init ==
  /\ tree = [p \in Pkgs |-> None]
  /\ parked = [p \in Pkgs |-> {}]
  /\ staging = None
  /\ lock \in Lockfiles
  /\ manifest \in Manifests \cup {None}
  /\ journal = None
  /\ pc = "idle"
  /\ run = Idle
  /\ faults = 0

Pending == journal \notin {None, Torn}

\* The destination this process's commit or recovery works on.
Target == IF run.recovering THEN journal.pkg ELSE run.pkg

Goto(phase) == pc' = phase /\ UNCHANGED run

\* The command returns to the shell, done or failed.
Return == pc' = "idle" /\ run' = Idle

\* A package is done: `sz install` goes on with the rest of the manifest.
ItemDone ==
  IF run.todo = {} THEN Return
  ELSE pc' = "items" /\ run' = [Idle EXCEPT !.todo = run.todo]

Fault(kind) ==
  /\ kind \in Faults
  /\ faults < MaxFaults
  /\ faults' = faults + 1

-----------------------------------------------------------------------------
(* Commands. *)

\* install_package and update_package: the version is resolved first.
StartInstall(p, v) ==
  /\ pc = "idle"
  /\ "install" \in Commands
  /\ pc' = IF p \in GlobalPkgs THEN "begin" ELSE "recover"
  /\ run' = [Idle EXCEPT !.pkg = p, !.ver = v, !.record = p \in Local]
  /\ UNCHANGED <<disk, faults>>

\* install_all recovers before it reads the manifest.
StartInstallAll ==
  /\ pc = "idle"
  /\ "all" \in Commands
  /\ pc' = "recover"
  /\ run' = Idle
  /\ UNCHANGED <<disk, faults>>

StartUninstall(p) ==
  /\ pc = "idle"
  /\ "uninstall" \in Commands
  /\ tree[p] # None
  /\ pc' = "rmTree"
  /\ run' = [Idle EXCEPT !.pkg = p]
  /\ UNCHANGED <<disk, faults>>

\* `sz uninstall -g` with no name.
StartUninstallAllGlobal ==
  /\ pc = "idle"
  /\ "uninstall" \in Commands
  /\ GlobalPkgs # {}
  /\ pc' = "wipe"
  /\ run' = Idle
  /\ UNCHANGED <<disk, faults>>

-----------------------------------------------------------------------------
(* Recovering what an earlier run left half-applied. *)

Recovered == pc' = (IF run.pkg = None THEN "load" ELSE "begin")

\* mutant: only `sz install` with no argument recovers
RecoverPendingInAllOnly ==
  /\ pc = "recover"
  /\ IF Pending /\ run.pkg = None
     THEN /\ pc' = "apply"
          /\ run' = [run EXCEPT !.recovering = TRUE]
     ELSE Recovered /\ UNCHANGED run
  /\ UNCHANGED <<disk, faults>>

RecoverPending ==
  /\ pc = "recover"
  /\ IF Pending
     THEN /\ pc' = "apply"
          /\ run' = [run EXCEPT !.recovering = TRUE]
          /\ UNCHANGED journal
     ELSE /\ journal' = None
          /\ Recovered
          /\ UNCHANGED run
  /\ UNCHANGED <<tree, parked, staging, lock, manifest, faults>>

LoadManifest ==
  /\ pc = "load"
  /\ IF manifest \in {None, Torn} \/ \A p \in Local : manifest[p] = None
     THEN Return
     ELSE /\ pc' = "items"
          /\ run' = [Idle EXCEPT !.todo = {p \in Local : manifest[p] # None}]
  /\ UNCHANGED <<disk, faults>>

NextItem(p) ==
  /\ pc = "items"
  /\ p \in run.todo
  /\ pc' = "recover"
  /\ run' = [run EXCEPT !.pkg = p, !.ver = manifest[p], !.todo = @ \ {p}]
  /\ UNCHANGED <<disk, faults>>

-----------------------------------------------------------------------------
(* `recover`: put a parked copy back, then delete the superseded ones.     *)
(* Called by Transaction::begin, and by `apply` when staging is gone.      *)

Restore ==
  /\ pc \in {"begin", "restore"}
  /\ IF tree[Target] = None /\ parked[Target] # {}
     THEN \E r \in parked[Target] :
            /\ tree' = [tree EXCEPT ![Target] = r]
            /\ parked' = [parked EXCEPT ![Target] = @ \ {r}]
     ELSE UNCHANGED <<tree, parked>>
  /\ Goto("clean")
  /\ UNCHANGED <<staging, lock, manifest, journal, faults>>

RestoreFails ==
  /\ pc \in {"begin", "restore"}
  /\ tree[Target] = None /\ parked[Target] # {}
  /\ Fault("write")
  /\ Return
  /\ UNCHANGED disk

RemoveStale ==
  /\ pc = "clean"
  /\ \/ parked' = [parked EXCEPT ![Target] = {}] /\ UNCHANGED faults
     \/ parked[Target] # {} /\ Fault("write") /\ UNCHANGED parked
  /\ Goto(IF run.recovering THEN "lock" ELSE "stage")
  /\ UNCHANGED <<tree, staging, lock, manifest, journal>>

-----------------------------------------------------------------------------
(* Staging, and everything decided while the project is untouched. *)

\* Copied from the local registry or downloaded.
Stage(r) ==
  /\ pc = "stage"
  /\ VersionOf[r] = run.ver
  /\ run' = [run EXCEPT !.staged = r]
  /\ pc' = "verify"
  /\ UNCHANGED <<disk, faults>>

\* A failure while the transaction owns staging: Drop removes it.
FailBeforeCommit ==
  /\ pc \in {"stage", "verify"}
  /\ Return
  /\ UNCHANGED <<disk, faults>>

\* mutant: the integrity check is dropped
RefusedNever == FALSE

\* The staged tree is not the one the lockfile pins for this version.
Refused ==
  /\ run.pkg \in Local
  /\ lock[run.pkg] # None
  /\ VersionOf[lock[run.pkg]] = run.ver
  /\ lock[run.pkg] # run.staged

PlanFails == run.record /\ manifest = Torn

Verify ==
  /\ pc = "verify"
  /\ ~Refused
  /\ ~PlanFails
  /\ Goto(IF run.pkg \in GlobalPkgs THEN "swapOut" ELSE "create")
  /\ UNCHANGED <<disk, faults>>

Plan ==
  LET p == run.pkg IN
  [pkg |-> p, rel |-> run.staged,
   lock |-> [lock EXCEPT ![p] = run.staged],
   manifest |-> IF run.record /\ manifest # None
                THEN [manifest EXCEPT ![p] = run.ver] ELSE None]

-----------------------------------------------------------------------------
(* commit_plan: journal, apply, forget. *)

CreateJournal ==
  /\ pc = "create"
  /\ \/ journal' = Torn /\ Goto("flush") /\ UNCHANGED faults
     \/ Fault("write") /\ Return /\ UNCHANGED journal
  /\ UNCHANGED <<tree, parked, staging, lock, manifest>>

FlushJournal ==
  /\ pc = "flush"
  /\ \/ /\ journal' = Plan
        /\ staging' = run.staged
        /\ Goto("apply")
        /\ UNCHANGED faults
     \/ Fault("write") /\ Return /\ UNCHANGED <<journal, staging>>
  /\ UNCHANGED <<tree, parked, lock, manifest>>

\* mutant: recovery takes a journalled swap that never happened for done
ApplyMetadataOnly ==
  /\ pc = "apply"
  /\ Goto(IF run.recovering THEN "restore" ELSE "swapOut")
  /\ UNCHANGED <<disk, faults>>

Apply ==
  /\ pc = "apply"
  /\ Goto(IF staging # None THEN "swapOut" ELSE "restore")
  /\ UNCHANGED <<disk, faults>>

-----------------------------------------------------------------------------
(* Transaction::commit: the previous version aside, the new one in. *)

AfterSwap == IF Target \in GlobalPkgs THEN ItemDone ELSE Goto("lock")

\* mutant: the previous version is deleted rather than moved aside
SwapOutDeletes ==
  /\ pc = "swapOut"
  /\ pc' = "swapIn"
  /\ run' = [run EXCEPT !.old = tree[Target]]
  /\ tree' = [tree EXCEPT ![Target] = None]
  /\ UNCHANGED <<parked, staging, lock, manifest, journal, faults>>

SwapOut ==
  /\ pc = "swapOut"
  /\ pc' = "swapIn"
  /\ run' = [run EXCEPT !.old = tree[Target]]
  /\ IF tree[Target] # None
     THEN /\ parked' = [parked EXCEPT ![Target] = @ \cup {tree[Target]}]
          /\ tree' = [tree EXCEPT ![Target] = None]
     ELSE UNCHANGED <<tree, parked>>
  /\ UNCHANGED <<staging, lock, manifest, journal, faults>>

SwapIn ==
  /\ pc = "swapIn"
  /\ IF Target \in GlobalPkgs
     THEN tree' = [tree EXCEPT ![Target] = run.staged] /\ UNCHANGED staging
     ELSE tree' = [tree EXCEPT ![Target] = staging] /\ staging' = None
  /\ IF run.old # None THEN Goto("dropParked") ELSE AfterSwap
  /\ UNCHANGED <<parked, lock, manifest, journal, faults>>

DropParked ==
  /\ pc = "dropParked"
  /\ \/ parked' = [parked EXCEPT ![Target] = @ \ {run.old}] /\ UNCHANGED faults
     \/ Fault("write") /\ UNCHANGED parked
  /\ AfterSwap
  /\ UNCHANGED <<tree, staging, lock, manifest, journal>>

\* Either rename fails.  The old tree goes back unless that rename fails too,
\* the error propagates out of `commit`, and the dropped transaction removes
\* the staging directory.
SwapFails ==
  /\ \/ pc = "swapOut" /\ tree[Target] # None /\ UNCHANGED <<tree, parked>>
     \/ /\ pc = "swapIn"
        /\ \/ UNCHANGED <<tree, parked>>
           \/ /\ run.old # None
              /\ tree' = [tree EXCEPT ![Target] = run.old]
              /\ parked' = [parked EXCEPT ![Target] = @ \ {run.old}]
  /\ Target \in GlobalPkgs \/ "swap" \in Faults
  /\ Fault(IF Target \in GlobalPkgs THEN "write" ELSE "swap")
  /\ staging' = IF Target \in GlobalPkgs THEN staging ELSE None
  /\ Return
  /\ UNCHANGED <<lock, manifest, journal>>

-----------------------------------------------------------------------------
(* The metadata, each file replaced in one rename, and the journal. *)

\* mutant: the journal is forgotten before the manifest is written
WriteLockOnly ==
  /\ pc = "lock"
  /\ lock' = journal.lock
  /\ Goto("unlink")
  /\ UNCHANGED <<tree, parked, staging, manifest, journal, faults>>

\* mutant: the lockfile is rewritten in place and may be left cut short
WriteLockInPlace ==
  /\ pc = "lock"
  /\ lock' \in {journal.lock, Torn}
  /\ Goto(IF journal.manifest # None THEN "manifest" ELSE "unlink")
  /\ UNCHANGED <<tree, parked, staging, manifest, journal, faults>>

WriteLock ==
  /\ pc = "lock"
  /\ lock' = journal.lock
  /\ Goto(IF journal.manifest # None THEN "manifest" ELSE "unlink")
  /\ UNCHANGED <<tree, parked, staging, manifest, journal, faults>>

WriteManifest ==
  /\ pc = "manifest"
  /\ manifest' = journal.manifest
  /\ Goto("unlink")
  /\ UNCHANGED <<tree, parked, staging, lock, journal, faults>>

\* mutant: the journal is removed whether or not `apply` succeeded
WriteFailsForgets ==
  /\ pc \in {"lock", "manifest"}
  /\ Fault("write")
  /\ Return
  /\ journal' = None
  /\ UNCHANGED <<tree, parked, staging, lock, manifest>>

\* The journal stays for the next run.
WriteFails ==
  /\ pc \in {"lock", "manifest"}
  /\ Fault("write")
  /\ Return
  /\ UNCHANGED disk

\* A removal that fails is ignored: the plan will be applied again.
RemoveJournal ==
  /\ pc = "unlink"
  /\ \/ journal' = None /\ UNCHANGED faults
     \/ Fault("write") /\ UNCHANGED journal
  /\ IF run.recovering
     THEN Recovered /\ run' = [run EXCEPT !.recovering = FALSE, !.old = None]
     ELSE ItemDone
  /\ UNCHANGED <<tree, parked, staging, lock, manifest>>

-----------------------------------------------------------------------------
(* Uninstalling: no journal, each step straight on the files. *)

RemoveTree ==
  /\ pc = "rmTree"
  /\ tree' = [tree EXCEPT ![run.pkg] = None]
  /\ IF run.pkg \in GlobalPkgs THEN Return ELSE Goto("rmManifest")
  /\ UNCHANGED <<parked, staging, lock, manifest, journal, faults>>

\* A failure is a warning.
RemoveDependency ==
  /\ pc = "rmManifest"
  /\ \/ /\ manifest' = IF manifest \in {None, Torn} THEN manifest
                       ELSE [manifest EXCEPT ![run.pkg] = None]
        /\ UNCHANGED faults
     \/ Fault("write") /\ UNCHANGED manifest
  /\ Goto("rmLock")
  /\ UNCHANGED <<tree, parked, staging, lock, journal>>

RemoveLine ==
  /\ pc = "rmLock"
  /\ \/ lock' = [lock EXCEPT ![run.pkg] = None] /\ UNCHANGED faults
     \/ Fault("write") /\ UNCHANGED lock
  /\ Return
  /\ UNCHANGED <<tree, parked, staging, manifest, journal>>

\* uninstall_all_global removes every directory of the store, one by one,
\* parked ones included (and staging litter, which nothing reads).
WipeOne ==
  /\ pc = "wipe"
  /\ \E p \in GlobalPkgs :
       \/ tree[p] # None /\ tree' = [tree EXCEPT ![p] = None]
          /\ UNCHANGED parked
       \/ \E r \in parked[p] : parked' = [parked EXCEPT ![p] = @ \ {r}]
          /\ UNCHANGED tree
  /\ UNCHANGED <<staging, lock, manifest, journal, pc, run, faults>>

WipeDone ==
  /\ pc = "wipe"
  /\ \A p \in GlobalPkgs : tree[p] = None /\ parked[p] = {}
  /\ Return
  /\ UNCHANGED <<disk, faults>>

-----------------------------------------------------------------------------
(* The process dies.  Uninstall rewrites its files in place, so a crash     *)
(* inside a write leaves a prefix of it.                                    *)

Crash ==
  /\ pc # "idle"
  /\ Fault("crash")
  /\ Return
  /\ UNCHANGED disk

CrashTruncating ==
  /\ Fault("crash")
  /\ \/ /\ pc = "rmManifest" /\ manifest \notin {None, Torn}
        /\ manifest[run.pkg] # None
        /\ manifest' = Torn
        /\ UNCHANGED lock
     \/ /\ pc = "rmLock" /\ lock[run.pkg] # None
        /\ \E kept \in SUBSET (Local \ {run.pkg}) :
             lock' = [p \in Local |-> IF p \in kept THEN lock[p] ELSE None]
        /\ UNCHANGED manifest
  /\ Return
  /\ UNCHANGED <<tree, parked, staging, journal>>

-----------------------------------------------------------------------------

Start ==
  \/ \E p \in Pkgs, v \in Versions : StartInstall(p, v)
  \/ StartInstallAll
  \/ \E p \in Pkgs : StartUninstall(p)
  \/ StartUninstallAllGlobal

\* What the running process does of its own accord.
Step ==
  \/ RecoverPending \/ LoadManifest \/ \E p \in Local : NextItem(p)
  \/ Restore \/ RestoreFails \/ RemoveStale
  \/ \E r \in Releases : Stage(r)
  \/ FailBeforeCommit \/ Verify
  \/ CreateJournal \/ FlushJournal \/ Apply
  \/ SwapOut \/ SwapIn \/ DropParked \/ SwapFails
  \/ WriteLock \/ WriteManifest \/ WriteFails \/ RemoveJournal
  \/ RemoveTree \/ RemoveDependency \/ RemoveLine \/ WipeOne \/ WipeDone

Next == Start \/ Step \/ Crash \/ CrashTruncating

Spec == Init /\ [][Next]_vars

\* A started command runs to its end, and somebody keeps running `sz install`
\* in the project: recovery happens on "the next run", so without one there
\* is nothing to hope for.
Fairness ==
  /\ WF_vars(Step)
  /\ SF_vars(StartInstallAll \/ \E p \in Local, v \in Versions : StartInstall(p, v))

FairSpec == Spec /\ Fairness

-----------------------------------------------------------------------------
(* Properties. *)

\* "A new package tree beside old metadata" (spec/packages.md) never rests on
\* disk: unless a whole journal says what is still to be written, the tree of
\* every installed project package is the one its lockfile line describes.
NoTreeBesideOldMetadata ==
  ~Pending => \A p \in Local : tree[p] # None => lock[p] = tree[p]

\* "A serez.lock line for a package that was not installed": a line is only
\* ever written for the tree that is in place at that moment.
LineOnlyForInstalled ==
  [][\A p \in Local : lock'[p] \notin {lock[p], None} => tree'[p] = lock'[p]]_vars

\* Installed, or parked where the next `begin` finds it.
Recoverable(p) == tree[p] # None \/ parked[p] # {}

\* An installed package is never lost by anything but an uninstall: no crash
\* and no failed rename, removal or write leaves the machine without a copy.
NeverLost ==
  [][\A p \in Pkgs : Recoverable(p) => Recoverable(p)' \/ pc \in {"rmTree", "wipe"}]_vars

\* What the lockfile pins for a version is never replaced by another tree
\* published under the same version, whatever crashed or was recovered.
PinHolds ==
  [][\A p \in Local :
       lock[p] # None /\ lock'[p] # None /\ VersionOf[lock[p]] = VersionOf[lock'[p]]
         => lock'[p] = lock[p]]_vars

\* An install interrupted after its journal was flushed lands completely:
\* some later run puts its tree and its lock line in place.
DecidedInstallLands ==
  \A p \in Local, r \in Releases :
    Pending /\ journal.pkg = p /\ journal.rel = r
      ~> ~Pending /\ tree[p] = r /\ lock[p] = r

\* The project as the documents describe it: what a whole journal has decided
\* counts as done, and a parked tree with nothing in its place as installed.
EffectiveTree ==
  [p \in Pkgs |->
     IF Pending /\ journal.pkg = p THEN journal.rel
     ELSE IF tree[p] = None /\ parked[p] # {} THEN CHOOSE r \in parked[p] : TRUE
     ELSE tree[p]]

EffectiveLock == IF Pending THEN journal.lock ELSE lock

EffectiveManifest ==
  IF Pending /\ journal.manifest # None THEN journal.manifest ELSE manifest

Project == INSTANCE ProjectState
             WITH tree <- EffectiveTree, lock <- EffectiveLock,
                  manifest <- EffectiveManifest

\* Package, manifest and lockfile change as one: every step either leaves the
\* effective project alone or is one whole install of ProjectState.
InstallsAreAtomic == Project!Spec
=============================================================================
