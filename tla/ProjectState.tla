---------------------------- MODULE ProjectState ----------------------------
(***************************************************************************)
(* What an install promises (spec/packages.md, "One install is one         *)
(* transaction"): the package tree, its serez.json line and its serez.lock *)
(* line are one confirmed state, established together or not at all.       *)
(* PackageInstall is shown to implement this.                              *)
(***************************************************************************)
CONSTANTS Pkgs, GlobalPkgs, Releases, Versions, VersionOf, None, Torn

VARIABLES tree, lock, manifest

Local == Pkgs \ GlobalPkgs

Init ==
  /\ tree = [p \in Pkgs |-> None]
  /\ lock \in [Local -> Releases \cup {None}]
  /\ manifest \in [Local -> Versions \cup {None}] \cup {None}

\* The lockfile line, if it is for the same version, describes this tree.
Allowed(p, r) ==
  lock[p] # None /\ VersionOf[lock[p]] = VersionOf[r] => lock[p] = r

\* `sz install p` records the dependency, `sz install` keeps the manifest.
InstallLocal(p, r) ==
  /\ Allowed(p, r)
  /\ tree' = [tree EXCEPT ![p] = r]
  /\ lock' = [lock EXCEPT ![p] = r]
  /\ \/ UNCHANGED manifest
     \/ /\ manifest \notin {None, Torn}
        /\ manifest' = [manifest EXCEPT ![p] = VersionOf[r]]

InstallGlobal(p, r) ==
  /\ tree' = [tree EXCEPT ![p] = r]
  /\ UNCHANGED <<lock, manifest>>

Next ==
  \E r \in Releases :
    \/ \E p \in Local : InstallLocal(p, r)
    \/ \E p \in GlobalPkgs : InstallGlobal(p, r)

Spec == Init /\ [][Next]_<<tree, lock, manifest>>
=============================================================================
