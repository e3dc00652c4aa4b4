SPECIFICATION Spec
CONSTANTS
  Heroes = {1, 2}
  MAX_PICKS_PER_SIDE = 1
  Tabs = {"a"}
  Intents = {"teamfight"}
  Corrections <- Clicks
  ScriptEvents <- Script
  MaxPosts = 2
  MaxChannel = 2
  MaxWork = 2
  MaxLives = 1
INVARIANTS
  LegacyTypeOK
  BoardFollowsStore
  SuggestionsNeverAhead
PROPERTIES
  BlindOnlyAfterLoss
  BoardCatchesUp
CHECK_DEADLOCK FALSE
