SPECIFICATION Spec
CONSTANTS
  Pkgs = {a, b, g}
  GlobalPkgs = {g}
  Releases <- MCPlainReleases
  Versions <- MCVersions
  VersionOf <- MCPlainVersionOf
  Commands = {"install", "all", "uninstall"}
  Faults = {"crash", "write", "swap"}
  MaxFaults = 1
  None = None
  Torn = Torn
PROPERTY NeverLost
