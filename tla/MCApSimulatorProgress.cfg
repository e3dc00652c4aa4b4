SPECIFICATION MCFairSpec
CONSTANTS
  Heroes = {1, 2, 3, 4, 5, 6, 7, 8, 9}
  NumRounds = 1
  ROUND_CAPACITY <- OneRound
  LocalSide = "dire"
  ControlledPositions = {1}
  AllyOrder <- AllySecond
  Drivers = {d1}
  MaxBans = 1
PROPERTIES
  BotsHandBack
CHECK_DEADLOCK FALSE
