CONSTANTS
    Readings <- MCReadings
    Inputs <- MCInputs
    MaxSize = 4
    MaxChanges = 2
    MaxQueries = 2
    Places <- MCPlaces
    Commands = {"none", "a", "b"}
    Callers = {1, 2}
    IndexRefresh = 1
    ComTime = 3
    ComChanges = 1
    MaxCalls = 2
    Objects <- MCObjects
    ObjectHandles <- MCObjectHandles
    Openable = {"a", "b"}
    Self = "self"
    MaxReuses = 1
    Nesting <- MCNesting
    Others = {"other"}
    JobHandles <- MCJobHandles
    MaxProcesses = 2
    Addresses = {1}
    ModuleRefreshInterval = 2
    SymbolTime = 4
    MaxCreations = 2
    SymbolCalls = 3
    MaxVersions = 2
    MaxBatteries = 3
    MaxReads = 3
    Operations <- MCOperations
    HasShutdown = TRUE
    Patience = 1
    ServiceTime = 1
SPECIFICATION Spec
CHECK_DEADLOCK FALSE
INVARIANTS
    TypeOK
    BuffersAreRead
    
    EachIsTheirs
    NothingIsLeft
    
PROPERTIES
    TogglesHold
