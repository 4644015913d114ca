\* One CPU: three processes of two priorities share it to the end.
CONSTANTS
    p1 = p1  p2 = p2  p3 = p3  p4 = p4
    Procs = {p1, p2, p3}
    Cpus = {cpu0}
    Loader = loader
    MAX_PRIO = 2
    Capacity = 3
    Prio <- PrioLevels
    NoProc = NoProc
    NoThread = NoThread
    Order <- OrderThree
    StartTime <- StartLater
    Code <- CodeCalc
    TimeSlot = 2
    MaxTime = 3
SPECIFICATION Spec
PROPERTIES
    AllFinish
    Termination
    GetReturns
