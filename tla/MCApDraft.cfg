SPECIFICATION Spec
CONSTANTS
  Heroes = {1, 2, 3, 4, 5, 6, 7}
  NumRounds = 2
  ROUND_CAPACITY <- TwoRounds
  MaxBans = 1
INVARIANTS
  TypeOK
  HeroHeldOnce
  SlotsConserved
  WaitsExactlyWhenContested
  LegalIsAccepted
  BatchNeverSplit
  ContestsGiveSeats
  SealedPicksStayHidden
PROPERTIES
  KeepsPromise
CHECK_DEADLOCK FALSE
