\* Devices of five, two and no bytes, one sequential; good, short, legacy and missing files.
CONSTANTS
    Devices = {0, 1, 2}
    Bytes <- FewBytes
    Mram = 0
    PAGING_PAGESZ = 2
    MaxFrames = 2
    PAGING_MAX_MMSWP = 2
    MM_FIXED_MEMSZ = FALSE
    FixedSizes <- FixedSizesSmall
    Disks <- SomeDisks
    Configurations <- SomeConfigurations
    Programs <- SomePrograms
    TestSize = 5
    NoFile = NoFile
    Unset = Unset
SPECIFICATION Spec
INVARIANTS
    ConfigRead
    ProgramsAsWritten
PROPERTIES
    ImplementsStore
