SPECIFICATION PlaySpec
CONSTANTS
  turn = turn
  choose = choose
  replan = replan
  pause = pause
  Turners = {turn}
  Choosers = {choose}
  Replanners = {replan}
  Pausers = {pause}
  Picks = {"go"}
  CardPlans <- Narrow
  Pure = FALSE
  Ahead = 1
  NStations = 1
  MaxStations = 2
  MaxIds = 3
  MaxBeats = 3
  Gens = {1, 2}
  Patient = FALSE
  Failing = TRUE
  MaxCrashes = 1
  MaxEdits = 0
INVARIANTS
  OneEngine
  NoOrphanChoice
  HeadsHaveBeats
  ReplanWorksAlone
PROPERTIES
  AnswersStay
CONSTRAINT TwoUnraced
CHECK_DEADLOCK FALSE
