SPECIFICATION FairSpec
CONSTANTS
  Pkgs = {a, g}
  GlobalPkgs = {g}
  Releases <- MCReleases
  Versions <- MCVersions
  VersionOf <- MCVersionOf
  Commands = {"install", "all"}
  Faults = {"crash", "write"}
  MaxFaults = 3
  None = None
  Torn = Torn
INVARIANTS NoTreeBesideOldMetadata
PROPERTIES InstallsAreAtomic LineOnlyForInstalled PinHolds DecidedInstallLands
