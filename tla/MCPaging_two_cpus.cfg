\* Two CPUs that get a frame at the same time.
CONSTANTS
    Cpus = {c1, c2}
    Procs = {p1, p2}
    Pages = {0}
    RamFrames = 2
    SwpFrames = 2
    Junk = junk
SPECIFICATION Spec
INVARIANTS
    FrameGivenOnce
