\* One CPU, two processes that share two frames of RAM and three of swap.
CONSTANTS
    Cpus = {c1}
    Procs = {p1, p2}
    Pages = {0, 1, 2}
    RamFrames = 2
    SwpFrames = 3
    Junk = junk
SPECIFICATION Spec
SYMMETRY Symmetry
INVARIANTS
    FrameGivenOnce
    LruOrder
    EvictablePresent
    SwapCopiesDistinct
