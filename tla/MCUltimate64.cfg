SPECIFICATION RunSpec
CONSTANTS
    t1 = t1
    t2 = t2
    c1 = c1
    c2 = c2
    Threads = {t1, t2}
    NoThread = NoThread
    Clients = {c1, c2}
    NoClient = NoClient
    ClientOf <- MCClientOf
    Required = TRUE
    Keep = 1
    Budget = 1
    Costs <- MCCosts
    MaxFiles = 3
    MaxPending = 0
    MaxCalls = 2
    MaxFaults = 2
    Slots <- MCSlots
    Bases <- MCBases
    Offered = {"D400", "D420"}
    NewSpeed = {"1", "48"}
    MaxRaises = 1
    Chunks = 2
    MaxWrites = 2
    SlowDrain = FALSE
    Pauses = FALSE
    Keys = 5
    BufMax = 2
    MaxReads = 8
    MaxProbes = 2
    MaxHolds <- MCMaxHolds
    MaxMoves = 1
INVARIANTS
    NeverUndercounts
    OrphansRemembered
    SparesUnlessOvertaken
    ConfigIsRestored
    WritesLand
    ProbeIsHonest
    StoredOrTold
    IdentityIsSound
PROPERTIES
    NoSpendOnUnswept
