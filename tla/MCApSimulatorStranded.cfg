SPECIFICATION MCSpec
CONSTANTS
  Heroes = {1, 2, 3, 4, 5}
  NumRounds = 1
  ROUND_CAPACITY <- OneRound
  LocalSide = "dire"
  ControlledPositions = {1}
  AllyOrder <- AllySecond
  Drivers = {d1}
  MaxBans = 0
INVARIANTS
  NeverStranded
CHECK_DEADLOCK FALSE
