SPECIFICATION FairSpec
CONSTANTS
    Attempts <- TwoAttempts
    Remote <- OneRemote
    First = first
    None = None
    MaxTokens = 1
    MaxStarts = 2
    MaxFailures = 0
    MaxMishaps = 0
CHECK_DEADLOCK FALSE
PROPERTIES PairedIsLoaded
