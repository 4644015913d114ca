\* Two CPUs and the loader: four processes, one of an invalid priority, queues of one place, every interleaving.
CONSTANTS
    p1 = p1  p2 = p2  p3 = p3  p4 = p4
    Procs = {p1, p2, p3, p4}
    Cpus = {cpu0, cpu1}
    Loader = loader
    MAX_PRIO = 2
    Capacity = 1
    Prio <- PrioOutOfRange
    NoProc = NoProc
    NoThread = NoThread
    Order <- OrderFour
    StartTime <- StartLast
    Code <- CodeMem
    TimeSlot = 2
    MaxTime = 4
SYMMETRY CpuPerms
SPECIFICATION Safety
INVARIANTS
    OSTypeOK
    OnePlace
    QueuesWellFormed
    NoneForgotten
    OnlyExcessLost
    RunToTheEnd
    NotBeforeStart
    NothingLeftBehind
PROPERTIES
    OneInstructionPerSlot
    FullQuantum
