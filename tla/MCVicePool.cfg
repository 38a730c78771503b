SPECIFICATION RunSpec
CONSTANTS
    m1 = m1
    m2 = m2
    t1 = t1
    t2 = t2
    t3 = t3
    a1 = a1
    a2 = a2
    Outsider = Outsider
    NoOne = NoOne
    Managers = {m1, m2}
    Threads = {t1, t2, t3}
    MgrOf <- MCMgrOf
    LastPort = 2
    OutsiderPorts = {1}
    Closers = {}
    ReuseExisting <- Never
    EnableTextMonitor <- Never
    MaxRetries = 2
SYMMETRY Symmetry
INVARIANTS
    LaunchIsLocked
    AllocatorAgrees
    NothingLeaks
    PoolsAreSound
