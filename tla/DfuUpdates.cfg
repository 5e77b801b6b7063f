SPECIFICATION FairSpec
CONSTANTS
  v1 = v1
  v2 = v2
  v3 = v3
  none = none
  Versions = {v1, v2, v3}
  Factory = v1
  NoVersion = none
  Blocks = 2
  MaxReleases = 2
  MaxResets = 2
INVARIANTS
  AlwaysBoots
  ReportedIsFlashed
PROPERTY InstallsRelease
\* An update that failed may leave nothing to do.
CHECK_DEADLOCK FALSE
