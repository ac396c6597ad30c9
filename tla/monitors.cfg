CONSTANTS
    MaxStarts = 2
    MaxRequests = 2
    Channels <- MCChannels
    Publishers = {"kernel", "none"}
    MaxEvents = 2
    PipeSize = 1
    Runtimes <- MCRuntimes
    MaxQueries = 2
    MaxTime = 5
    MaxLost = 1
    HeaderSize = 2
    PayloadSize = 2
    Timeout = 3
    Types <- HandleTypes
    FileQueries = 2
    MaxCalls = 2
    MaxReuses = 1
    BodyParts = 2
    FileSizes = {0, 1, 2, 3}
    DirectUploadLimit = 1
    UploadLimit = 2
SPECIFICATION Spec
CHECK_DEADLOCK FALSE
INVARIANTS
    TypeOK
    NothingIsLate
    PausesAreTrue
    

    
