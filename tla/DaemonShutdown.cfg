SPECIFICATION FairSpec
CONSTANTS
  u1 = u1
  u2 = u2
  p1 = p1
  p2 = p2
  k1 = k1
  none = none
  orig = orig
  Absent = none
  Original = orig
  Users <- OneUser
  Newcomers <- Nothing
  Pushes <- Nothing
  Commands <- Nothing
  OwnerOf <- AllOne
  Ports <- ThreePorts
  MaxManual = 1
  MaxSignals = 1
CHECK_DEADLOCK FALSE
PROPERTIES
  ShutdownEnds
