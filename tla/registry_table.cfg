CONSTANTS
    cpu0 = cpu0
    cpu1 = cpu1
    key1 = key1
    key2 = key2
    MaxAttempts = 2
    MaxDeferred = 2
    KeyIdle = 0
    NameIdle = 0
    TickModulus = 16
    TokenBase = 10
    Addresses <- MCAddresses
    RootKeys <- MCRootKeys
    Relatives <- MCRelatives
    Pids <- MCPids
    Processors <- TwoProcessors
    Nameable <- MCAddresses
    FailingOpens = FALSE
    MaxEvents = 3
    MaxCloses = 1
    MaxTick = 1
    MaxStarts = 1
SPECIFICATION Spec
SYMMETRY MCSymmetry
CHECK_DEADLOCK FALSE
INVARIANTS
    TypeOK
    WaitingCounts
    EachCountedOnce
    StoppedIsEmpty
    WaitersAreSought
