SPECIFICATION Spec
CONSTANTS
  Files <- MCFiles
  Contents = {"base", "edited"}
  Absent = Absent
  Base <- MCBase
  Excluded <- MCExcluded
  Ignorable <- MCIgnorable
  Options <- MCOptions
  NoPlan = NoPlan
  NoTree = NoTree
  NoReport = NoReport
  MaxEdits = 2
  MaxTroubles = 1
INVARIANTS
  BaseIsTheBase
  BothSidesAreLinted
  FixedAreGone
  GivenUpForCause
CHECK_DEADLOCK FALSE
