SPECIFICATION Spec
CONSTANTS
    first = first
    second = second
    third = third
    Procs <- MCProcs
    Free = Free
    Timeout = 2
    Window = 4
    Grace = 1
    MaxFailures = 5
    MaxHandoffs = 1
    MaxHolds <- MCMaxHolds
PROPERTIES
    PatientBehindBeatingHolder
    ChainIsNotRearmed
    WaitEnds
