\* Two CPUs: the queues become empty between queue_empty and the loop of get_mlq_proc.
CONSTANTS
    p1 = p1  p2 = p2  p3 = p3  p4 = p4
    Procs = {p1, p2}
    Cpus = {cpu0, cpu1}
    Loader = loader
    MAX_PRIO = 1
    Capacity = 2
    Prio <- PrioSame
    NoProc = NoProc
    NoThread = NoThread
    Order <- OrderTwo
    StartTime <- StartAtOnce
    Code <- CodeCalc
    TimeSlot = 2
    MaxTime = 0
SPECIFICATION Spec
PROPERTIES
    GetReturns
