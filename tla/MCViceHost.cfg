SPECIFICATION RunSpec
CONSTANTS
    Procs = {p1, p2, p3}
    Inodes = {i1, i2, i3}
    NoProc = NoProc
    NoInode = NoInode
    MaxAttempts = 2
    Emulators = {v1}
    Pids = {x1, x2}
    NoPid = NoPid
    MaxBirths = 4
INVARIANTS
    MutualExclusion
    OnlyOrphansAreStruck
    SurvivorsAreNamed
PROPERTIES
    SweepSparesHolder
    ImplementsMutex
    NoOrphan
