SPECIFICATION Spec
CONSTANTS
  Heroes = {1, 2, 3}
  NumRounds = 2
  ROUND_CAPACITY <- TwoRounds
  Positions = {1, 2}
  MAX_LIVE_BANS = 1
  MAX_LIVE_PICKS_PER_SIDE = 2
  Accounts = {"player", "other"}
  LinkAccount = "player"
  Envelopes <- Posted
  GsiUpdates <- Updates
  ManualObservations <- Reported
  MAX_REMEMBERED_EVENT_IDS = 1
  MaxEpochs = 2
INVARIANTS
  TypeOK
  DraftShowsTheFacts
  DeferredMeansMissing
  BindingsWereSaid
PROPERTIES
  RemovalSticks
  NewDraftForgetsSeat
CHECK_DEADLOCK FALSE
