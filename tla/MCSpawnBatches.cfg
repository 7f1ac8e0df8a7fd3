SPECIFICATION FairSpec
CONSTANTS
  FileBatches <- MCFileBatches
  SourcePath <- MCSourcePath
  Concurrency = 2
  SplitMaxDepth = 1
  NoFile = NoFile
  NoReason = NoReason
INVARIANTS
  EveryFileOnce
  AnalyzedAreLinted
  PiecesHalve
  ProgressHonest
  ReasonApplies
PROPERTIES
  NoSecondWave
  RescueOnlyImproves
  LintTerminates
CHECK_DEADLOCK FALSE
