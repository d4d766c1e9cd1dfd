SPECIFICATION FairSpec
CONSTANTS
  f1 = f1
  f2 = f2
  f3 = f3
  f4 = f4
  Batches <- TwoBatches
  Legacy <- OldEvents
  Junk = Junk
  MaxFaults = 4
INVARIANTS
  AckedSurvives
  CopyFollowsLog
PROPERTIES
  ImplementsFactList
  EveryBatchGetsIn
