SPECIFICATION Spec
CONSTANTS
    m1 = m1
    m2 = m2
    t1 = t1
    t2 = t2
    Outsider = Outsider
    NoOne = NoOne
    Managers = {m1, m2}
    Threads = {t1, t2}
    MgrOf <- PairMgrOf
    LastPort = 3
    OutsiderPorts = {1, 2}
    Closers = {m2}
    ReuseExisting <- Two
    EnableTextMonitor <- One
    MaxRetries = 2
INVARIANT
    AdoptsNoReservation
