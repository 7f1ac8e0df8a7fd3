SPECIFICATION DeltaSpec
CONSTANTS
  page = page
  util = util
  x = x
  y = y
  NoText = NoText
  NoKey = NoKey
  FilePaths <- MCFiles
  Texts <- MCTexts
  MaxFindings = 3
SYMMETRY MCSymmetry
\* Every delta comes to its end.
CHECK_DEADLOCK FALSE
INVARIANTS
  UnchangedIsNotNew
  NoMatchIsMissed
  CopiesDoNotConsume
