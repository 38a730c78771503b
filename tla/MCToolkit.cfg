SPECIFICATION RunSpec
CONSTANTS
    m1 = m1
    m2 = m2
    t1 = t1
    t2 = t2
    t3 = t3
    t4 = t4
    d1 = d1
    d2 = d2
    NoOne = NoOne
    NoDevice = NoDevice
    Managers = {m1, m2}
    Threads = {t1, t2, t3, t4}
    MgrOf <- MCMgrOf
    Devices = {d1, d2}
    UnitOf <- MCUnitOf
    Closers = {m1}
    Interrupted = {t1}
    MaxFaults = 2
    Insts = {outer, n1, n2}
    Nesting = {n1, n2}
    HoldThreads = {h1, h2}
    NoThread = NoThread
    Free = Free
    Foreign = Foreign
    MaxEpoch = 4
    Modulus = 8
    Window = 3
    MaxHeld = 2
    MaxTwice = 1
    MaxLost = 4
    Sent = 6
    MaxLate = 2
    MaxChunks = 2
    VideoSent = 7
    VideoLate = 3
    Lines = 3
    MaxCalls = 3
    MaxBlocks = 2
    MaxTimeouts = 2
    Tries = 3
    Hold = 2
    MaxPings = 2
    MaxServes = 2
    MaxNoise = 2
    PingLost = 1
    Top = 4
    Bottom = 1
    Scratch <- MCScratch
    Alignments = {1, 2}
    MaxSafe = 2
    MaxReserved = 1
    MaxRequests = 2
    Patience = 4
    IdleLimit = 2
    StableCount = 2
    PollSpares = 1
    Deadlines = {1, 99, 255, 256, 257, 512, 599}
    End = 612
    Banks = 3
    MaxSpares = 2
    Attempts = 2
    MaxResumes = 2
SYMMETRY Symmetry
INVARIANTS
    RegistryMatchesFlock
    EpochSeparatesLanes
    UserHasLock
    PoolKeepsBooks
    WakeupsMatchDevices
    RecordingsAreSound
    FramesAreWhole
    ReplyIsOwn
    PingIsSound
    AllocIsFirstFit
    WaitsAreHonest
    
