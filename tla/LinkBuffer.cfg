CONSTANTS
    MaxNodes = 9
    MaxBlocks = 7
    LinkBufferCap = 2
    PageSize = 2
    CacheMin = 1
    MinReuse = 2
    Barrier = 2
    InSizes = {1, 2}
    OutSizes = {1, 2, 3}
    OtherSizes = {1, 3}
    DirectReads = {2}
    AckSizes = {0, 1, 3}
    Delims = {3}
    Sharing = {"in"}
    BinaryInplaceThreshold = 1
    Slicing = {"in"}
    MaxBytes = 3
    MaxDirect = 4
SPECIFICATION Spec
INVARIANTS MemoryIntact RefCounts LengthsExact
PROPERTIES ImplementsByteQueue
CHECK_DEADLOCK FALSE
