SPECIFICATION InterventionSpec
CONSTANTS
  m1 = m1
  m2 = m2
  e1 = e1
  e2 = e2
  Messages = {m1, m2}
  Slots = {e1, e2}
  Resumer = Resumer
  Continues = {}
  None = None
  Router = Router
  Plans <- HoldPlans
  BookMoves = {"rewrites"}
  MaxCrashes = 0
INVARIANTS
  SlotGuardsDecision
  OneLoop
  HoldLetsOneTurnPass
CHECK_DEADLOCK FALSE
SYMMETRY Symmetric
