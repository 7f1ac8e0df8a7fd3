SPECIFICATION FairSpec
CONSTANTS
  t1 = t1
  t2 = t2
  t3 = t3
  scanA = scanA
  NoSignal = NoSignal
  Tasks <- MCTasks
  Signals <- MCSignals
  SignalOf <- MCSignalOf
  SlotCount = 2
INVARIANTS
  ProcessesBounded
  AbortReclaims
  OwnKillsNamed
PROPERTIES
  EveryCallEnds
  ImplementsFairSlots
CHECK_DEADLOCK FALSE
