CONSTANTS
    cpu0 = cpu0
    cpu1 = cpu1
    key1 = key1
    key2 = key2
    MaxAttempts = 2
    MaxDeferred = 4
    KeyIdle = 1
    NameIdle = 2
    TickModulus = 16
    TokenBase = 10
    Addresses <- MCAddresses
    RootKeys <- MCRootKeys
    Relatives <- MCRelatives
    Pids <- MCPids
    Processors <- OneProcessor
    Nameable <- MCAddresses
    FailingOpens = FALSE
    MaxEvents = 3
    MaxCloses = 1
    MaxTick = 0
    MaxStarts = 1
SPECIFICATION FairSpec
CHECK_DEADLOCK FALSE
PROPERTIES
    DeferredAreCounted
