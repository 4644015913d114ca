\* One CPU that has run dry before the loader sets done: at the top of its loop it never looks at done again.
CONSTANTS
    p1 = p1  p2 = p2  p3 = p3  p4 = p4
    Procs = {p1}
    Cpus = {cpu0}
    Loader = loader
    MAX_PRIO = 1
    Capacity = 2
    Prio <- PrioSame
    NoProc = NoProc
    NoThread = NoThread
    Order <- OrderOne
    StartTime <- StartAtOnce
    Code <- CodeShort
    TimeSlot = 2
    MaxTime = 0
SPECIFICATION Spec
PROPERTIES
    Termination
