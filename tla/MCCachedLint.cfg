SPECIFICATION Spec
CONSTANTS
  s1 = s1
  s2 = s2
  page = page
  util = util
  text = text
  other = other
  broken = broken
  Scans <- MCScans
  Files <- MCFiles
  Contents <- MCContents
  Missing = Missing
  Unreadable = Unreadable
  Unparseable <- MCUnparseable
  Trees <- MCTrees
  Reads <- MCReads
  Probes <- MCProbes
  Miss = Miss
  MaxEdits = 2
  MaxTroubles = 1
SYMMETRY MCSymmetry
INVARIANTS
  EntriesHold
  WarmIsReady
PROPERTIES
  ImplementsColdLint
CHECK_DEADLOCK FALSE
