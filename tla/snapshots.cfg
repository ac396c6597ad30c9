CONSTANTS
    Pids = {0, 1, 2}
    Tids = {1, 2}
    Packaged = {2}
    MaxTime = 4
    MaxSnapshots = 5
SPECIFICATION Spec
CHECK_DEADLOCK FALSE
INVARIANTS
    TypeOK
    SnapshotIntact
    ProcessTimesAreThere
    MirrorIsSnapshot
    TerminatedThreadsHadEnded
