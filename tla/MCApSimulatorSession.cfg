SPECIFICATION MCSpec
CONSTANTS
  Heroes = {1, 2, 3, 4, 5, 6, 7}
  NumRounds = 2
  ROUND_CAPACITY <- TwoRounds
  LocalSide = "dire"
  ControlledPositions = {1, 2}
  AllyOrder <- AllyThird
  Drivers = {d1}
  MaxBans = 0
INVARIANTS
  TypeOK
  PositionsFollowPicks
  AuthorityCanDecide
  PendingSeatsAreOpen
  DecisionsStayGood
  StrandedOnlyByCollision
PROPERTIES
  KeepsPromise
CHECK_DEADLOCK FALSE
