\* One CPU and the loader, three processes on two of three priorities.
CONSTANTS
    p1 = p1  p2 = p2  p3 = p3
    Procs = {p1, p2, p3}
    Cpus = {cpu0}
    Loader = loader
    MAX_PRIO = 3
    Capacity = 3
    Prio <- PrioLevels
    NoProc = NoProc
    NoThread = NoThread
SPECIFICATION SchedSpec
INVARIANTS
    SlotsBounded
PROPERTIES
    NullMeansEmpty
    CallsReturn
    NoStarvation
