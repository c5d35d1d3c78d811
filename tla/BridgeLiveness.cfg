SPECIFICATION FairSpec
CONSTANTS
  c1 = c1
  c2 = c2
  h1 = h1
  h2 = h2
  None = None
  Convs <- TwoConvs
  Channels <- OneChannel
  Settings <- Backfilled
  Bodies <- AnyBody
  Reported <- OneState
  MaxMsgs = 2
  MaxHumans = 1
  MaxPushes = 2
  MaxMishaps = 1
PROPERTIES
  NewIsPosted PendingIsPruned
