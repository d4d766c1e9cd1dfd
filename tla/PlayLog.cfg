SPECIFICATION Spec
CONSTANTS
  Kinds <- BothFiles
  MaxRecords = 4
  Cap = 2
  TailLength = 2
  Buffer = 2
  MaxFaults = 1
INVARIANTS
  NoGapNoRepetition
CHECK_DEADLOCK FALSE
