-------------------------- MODULE MCPackageInstall --------------------------
(* Instances of PackageInstall for TLC. *)
EXTENDS PackageInstall

\* "1" was published twice with different contents, "2" once.
MCReleases == {"one", "oneAgain", "two"}
MCVersions == {"1", "2"}
MCPlainReleases == {"one", "two"}
MCVersionOf == [r \in MCReleases |-> IF r = "two" THEN "2" ELSE "1"]
MCPlainVersionOf == [r \in MCPlainReleases |-> IF r = "two" THEN "2" ELSE "1"]
=============================================================================
