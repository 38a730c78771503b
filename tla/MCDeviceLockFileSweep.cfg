SPECIFICATION Spec
CONSTANTS
    Procs = {p1, p2, p3}
    Inodes = {i1, i2, i3}
    NoProc = NoProc
    NoInode = NoInode
    MaxAttempts = 2
INVARIANTS
    MutualExclusion
SYMMETRY Symmetry
