SPECIFICATION FairSpec
CONSTANTS
    Attempts <- TwoAttempts
    Remote <- OneRemote
    First = first
    None = None
    MaxTokens = 1
    MaxStarts = 2
    MaxFailures = 1
    MaxMishaps = 1
CHECK_DEADLOCK FALSE
INVARIANTS SessionTypeOK AttemptIsHeldOnce LastWordIsStored
PROPERTIES  RestartsWithNewestToken
