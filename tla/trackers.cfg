CONSTANTS
    IpcPids = {1, 2, 3}
    MessageIds = {101}
    RpcEndpoints <- MCRpcEndpoints
    MaxExchanges = 2
    MaxCalls = 2
    MaxPasses = 1
    Ends <- MCEnds
    MaxEvents = 3
    MaxOpens = 3
    FilePids = {4}
    Keys = {"key"}
    FileObjects = {"object1", "object2"}
    Processors = {cpu0, cpu1}
    MaxAttempts = 1
    FileIdle = 0
    NameIdle = 0
    MaxFiles = 2
    MaxIo = 3
    MaxTick = 1
    Processes = {proc1, proc2}
    Creators = {4, 8}
    Service = 8
    ExitedKept = 1
    MaxNow = 4
    PidsInUse = {4, 8, 12}
    Others <- MCOthers
    MaxSessions = 2
    MaxProcesses = 4
    GpuDevices = {"gpu", "other"}
    Shapes <- MCShapes
    RemapInterval = 2
    MaxTicks = 2
    MaxRestarts = 1
    Pages = 3
    Sizes <- MCSizes
    MaxMapped = 3
    MaxEnums = 3
SPECIFICATION Spec
SYMMETRY MCSymmetry
CHECK_DEADLOCK FALSE
INVARIANTS
    TypeOK
    LinksAreTrue
    ConnectionsKeepCounts
    
    ExitsAreTakenOnce
    
    
    OrphansAreStopped
    UsageIsTrue
    RestartedIsFound
    ClientHasModules
