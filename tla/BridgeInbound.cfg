SPECIFICATION Spec
CONSTANTS
  c1 = c1
  c2 = c2
  h1 = h1
  h2 = h2
  None = None
  Convs <- TwoConvs
  Channels <- TwoChannels
  Settings <- Rerouted
  Bodies <- Text
  Reported <- TwoStates
  MaxMsgs = 2
  MaxHumans = 0
  MaxPushes = 4
  MaxMishaps = 2
INVARIANTS
  CopiesArePaidFor OneThread PostedInItsThread 
PROPERTIES
  NeverPostsMapped ThreadsNeverMove
