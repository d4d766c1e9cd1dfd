SPECIFICATION PlaySpec
CONSTANTS
  turn = turn
  choose = choose
  replan = replan
  pause = pause
  Turners = {turn}
  Choosers = {choose}
  Replanners = {}
  Pausers = {pause}
  Picks = {"go", "end"}
  CardPlans <- Narrow
  Pure = FALSE
  Ahead = 1
  NStations = 2
  MaxStations = 2
  MaxIds = 3
  MaxBeats = 3
  Gens = {1, 2}
  Patient = TRUE
  Failing = FALSE
  MaxCrashes = 0
  MaxEdits = 1
PROPERTIES
  WaitsForAReason
  PauseReturns
CHECK_DEADLOCK FALSE
