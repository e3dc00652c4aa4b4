SPECIFICATION Spec
CONSTANTS
  Heroes = {1, 2, 3, 4, 5}
  NumRounds = 1
  ROUND_CAPACITY <- OneRound
  MaxBans = 0
INVARIANTS
  HiddenHeroNeverShown
CHECK_DEADLOCK FALSE
