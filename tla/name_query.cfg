CONSTANTS
    None = None
    Empty = Empty
    Handles = {h1}
    Objects = {o1, o2}
    LongNames = {o2}
    MaxWorkers = 2
SPECIFICATION FairSpec
INVARIANTS
    TypeOK
    AnswerIsForHandle
    CallerAndWorkerTakeTurns
PROPERTIES
    OrphansEnd
    GetNameReturns
