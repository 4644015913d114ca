\* Four slots, of which three are usable, and four processes.
CONSTANTS
    Procs = {p1, p2, p3, p4}
    MAX_QUEUE_SIZE = 4
    NoProc = NoProc
SPECIFICATION Spec
INVARIANTS
    QueueInv
PROPERTIES
    ImplementsFifo
