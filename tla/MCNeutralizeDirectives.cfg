SPECIFICATION FairSpec
CONSTANTS
  root = root
  pkg = pkg
  pkgAgain = pkgAgain
  inPkg = inPkg
  outside = outside
  NoLease = NoLease
  Scans <- MCScans
  Files <- MCFiles
  Scope <- MCScope
  GivenPaths <- MCGivenPaths
  Overlap <- MCOverlap
  MaxEdits = 1
INVARIANTS
  SourcesRestored
  LintSeesNoDirective
  SavesOutsideScansSurvive
PROPERTIES
  EveryScanGetsItsTurn
CHECK_DEADLOCK FALSE
