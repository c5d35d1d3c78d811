SPECIFICATION Spec
CONSTANTS
  c1 = c1
  c2 = c2
  h1 = h1
  h2 = h2
  None = None
  Convs <- TwoConvs
  Channels <- OneChannel
  Settings <- BothModes
  Bodies <- Text
  Reported <- TwoStates
  MaxMsgs = 2
  MaxHumans = 1
  MaxPushes = 3
  MaxMishaps = 1
SYMMETRY ConvSymmetry
INVARIANTS
  TypeOK CopiesArePaidFor LinksAreInjective  
  ReactionShowsStatus
PROPERTY RefinesMirror
