SPECIFICATION LogSpec
CONSTANTS
  Heroes = {1, 2, 3, 4, 5}
  NumRounds = 1
  ROUND_CAPACITY <- OneRound
  MaxBans = 1
INVARIANTS
  ReplayRebuilds
  ArrivalLeavesNoTrace
CHECK_DEADLOCK FALSE
