SPECIFICATION VisualSpec
CONSTANTS
  Heroes = {1, 2}
  NumRounds = 1
  ROUND_CAPACITY <- OneRound
  Positions = {}
  MAX_LIVE_BANS = 0
  MAX_LIVE_PICKS_PER_SIDE = 1
  Accounts = {"player"}
  LinkAccount = "player"
  Ids = {i1, i2, i3, i4}
  Envelopes <- AnyEnvelope
  GsiUpdates = {}
  ManualObservations = {}
  MAX_REMEMBERED_EVENT_IDS = 1
  MaxEpochs = 2
  CardsOf <- OneDraft
  MaxQueue = 3
  MaxRestarts = 1
SYMMETRY AlikeIds
CHECK_DEADLOCK FALSE
INVARIANTS
  OkMeansKnown
