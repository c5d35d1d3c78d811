SPECIFICATION Spec
CONSTANTS
  u = u
  d = d
  None = None
  Users <- OneUser
  Discord = d
  Convs <- TheirConvs
  Rules <- SomeRules
  RuleLists <- TheirLists
  Configs <- TheirConfigs
  TeamChannels <- SomeChannels
  MaxRules = 2
  MaxEdits = 1
  MaxMeddling = 1
  MaxMishaps = 1
INVARIANTS
  CachedIsUsable
PROPERTIES
   EntersOnlyInvited
