SPECIFICATION FairSpec
CONSTANTS
  c1 = c1
  c2 = c2
  h1 = h1
  None = None
  Nothing = 0
  Event = {1, 2}
  Convs <- TwoConvs
  Channels <- OneChannel
  Settings <- BothModes
  Earlier = {c2}
  Bodies <- Text
  MaxHumans = 1
  MaxReplays = 1
  MaxMishaps = 1
CHECK_DEADLOCK FALSE
INVARIANTS
  CoreTypeOK OneCopyOneThread OwnSendsNeverComeBack
PROPERTIES
  CoreNoMisdelivery CoreRefinesMirror QueueIsFifo AcceptedIsBridged PumpEnds
