SPECIFICATION Spec
CONSTANTS
  c1 = c1
  c2 = c2
  h1 = h1
  h2 = h2
  None = None
  Convs <- TwoConvs
  Channels <- OneChannel
  Settings <- BothModes
  Bodies <- AnyBody
  Reported <- OneState
  MaxMsgs = 1
  MaxHumans = 1
  MaxPushes = 1
  MaxMishaps = 1
PROPERTY UnsentIsReported
