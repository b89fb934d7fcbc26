SPECIFICATION Spec
CONSTANTS
    SIZE = 5
    WORD = 2
    MaxByte = 2
    MaxValue = 15
    BUFSIZE = 3
    MaxFile = 6
    MaxPattern = 2
    PCB_SIZE = 6
INVARIANTS
    BlocksRight
    CopiesRight
    ComparesRight
    ConversionsRight
    GrepExact
    GrepSound
    OwnMemoryOnly
PROPERTIES
    GetsOn
    Returned
CHECK_DEADLOCK FALSE
