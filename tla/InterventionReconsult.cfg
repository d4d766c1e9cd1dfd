SPECIFICATION InterventionSpec
CONSTANTS
  m1 = m1
  m2 = m2
  e1 = e1
  e2 = e2
  Messages = {m1}
  Slots = {e1, e2}
  Resumer = Resumer
  Continues = {m1}
  None = None
  Router = Router
  Plans <- LightPlans
  BookMoves = {"finish"}
  MaxCrashes = 0

INVARIANTS
  ReconsultIsAsynchronous
CHECK_DEADLOCK FALSE
