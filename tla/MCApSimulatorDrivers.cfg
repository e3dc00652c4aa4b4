SPECIFICATION MCSpec
CONSTANTS
  Heroes = {1, 2, 3, 4}
  NumRounds = 1
  ROUND_CAPACITY <- OneRound
  LocalSide = "dire"
  ControlledPositions = {1}
  AllyOrder <- AllySecond
  Drivers = {d1, d2}
  MaxBans = 0
INVARIANTS
  PositionsFollowPicks
  AuthorityCanDecide
CHECK_DEADLOCK FALSE
