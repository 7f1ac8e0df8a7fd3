SPECIFICATION FairSlotsSpec
CONSTANTS
  t1 = t1
  t2 = t2
  t3 = t3
  t4 = t4
  t5 = t5
  scanA = scanA
  scanB = scanB
  NoSignal = NoSignal
  Tasks <- MCTasks
  Signals <- MCSignals
  SignalOf <- MCSignalOf
  SlotCount = 2
INVARIANTS
  SlotsConserved
PROPERTIES
  NoOvertaking
  ImplementsSlotPool
CHECK_DEADLOCK FALSE
