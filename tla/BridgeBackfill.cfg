SPECIFICATION Spec
CONSTANTS
  c1 = c1
  c2 = c2
  h1 = h1
  h2 = h2
  None = None
  Convs <- TwoConvs
  Channels <- OneChannel
  Settings <- Backfilled
  Bodies <- Text
  Reported <- OneState
  MaxMsgs = 1
  MaxHumans = 0
  MaxPushes = 1
  MaxMishaps = 0
PROPERTY NeverPostsMapped
