SPECIFICATION FairSpec
CONSTANTS
  u1 = u1
  u2 = u2
  p1 = p1
  p2 = p2
  k1 = k1
  none = none
  orig = orig
  Absent = none
  Original = orig
  Users <- TwoUsers
  Newcomers <- OneUser
  Pushes <- TwoPushes
  Commands <- OneCommand
  OwnerOf <- EachOwn
  Ports <- TwoPorts
  MaxManual = 1
  MaxSignals = 1
CHECK_DEADLOCK FALSE
INVARIANTS
  DaemonTypeOK OneGeneration InForce NeverKilled
PROPERTIES
  ServesWhatRuns   UnreplacedShutdownEnds PushIsAnswered
