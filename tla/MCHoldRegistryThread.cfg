SPECIFICATION Spec
CONSTANTS
    Insts = {outer, n1, n2}
    Nesting = {n1, n2}
    Threads = {t1, t2}
    NoThread = NoThread
    Free = Free
    Foreign = Foreign
    MaxEpoch = 4
INVARIANTS
    HoldingThreadIsListed
