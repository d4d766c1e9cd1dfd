SPECIFICATION FairSpec
CONSTANTS
  u1 = u1
  u2 = u2
  MaxUnits = 3
  Users <- TwoUsers
  Watcher = Watcher
  Size = 3
INVARIANTS
  InFlightIsWorkedOn
  EveryUnitWasTried
  MergedIsQuiet
PROPERTIES
  JobsSettle
  WaitEnds
CHECK_DEADLOCK FALSE
