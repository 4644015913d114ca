\* Two symbols in pages of two bytes, on two frames of RAM and two of swap.
CONSTANTS
    Ids <- Symbols
    Sizes = {2, 3}
    PAGING_PAGESZ = 2
    PAGING_MAX_PGN = 4
    MaxBrk = 8
    PAGING_MAX_SYMTBL_SZ = 2
    Offsets = {0, 3, 4}
    RamFrames = 2
    SwpFrames = 2
    Cpu = c1
    Caller = p1
    Junk = junk
SPECIFICATION MemSpec
INVARIANTS
    NoOverlap
    BelowBrk
    MemoryMapped
    OverrunIsFirstByte
    MappedByPaging
    WithinArea
PROPERTIES
    AllocGivesSize
    InstructionReturns
