CONSTANTS
    ENTRIES = 4
    PAGE = 2
    WORD = 256
    USER_SPACE_START = 8
    USER_SPACE_END = 63
    KERNEL_HEAP_START = 64
    MAX_STACK = 6
    Frames <- MCFrames
    Memories <- MCMemories
    TOP = 24
    KERNEL_VMA = 64
    Code = 16
    HighTable = 17
    HighDir = 18
    KernelDirs <- MCDirs
    Device = 20
    KernelPml4 = 21
    Kernel = 23
    Counts <- MCCounts
    Addresses <- MCAddresses
    Flags <- MCFlags
    Stored = {2}
    Mixes <- MCMixes
SPECIFICATION Spec
INVARIANTS TypeOK OneUse AreasTrue
PROPERTIES LossesExplained StopsExplained CallsHonest
CHECK_DEADLOCK FALSE
