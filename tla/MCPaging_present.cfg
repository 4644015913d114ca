\* A page that is got for the first time.
CONSTANTS
    Cpus = {c1}
    Procs = {p1}
    Pages = {0, 1}
    RamFrames = 2
    SwpFrames = 2
    Junk = junk
SPECIFICATION Spec
INVARIANTS
    GottenPageIsPresent
