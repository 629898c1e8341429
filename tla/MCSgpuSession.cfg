SPECIFICATION Spec
CONSTANTS
    PayloadMax = 4
    U32Max = 17
    U64Max = 17
    UsizeMax = 17
    MaxResources = 2
    MaxResourceBytes = 2
    MaxTotalBytes = 3
    MaxCommands = 2
    HandleMax = 4
    g1 = g1
    g2 = g2
    g3 = g3
    GpuHandles <- MCGpuHandles
    Byte <- MCByte
    Requests <- MCRequests
SYMMETRY Symmetry
INVARIANTS
    TypeOK
    PrivateBacking
    WithinBudget
    ReplyWellFormed
PROPERTIES
    HandleNeverReused
    FailureIsClean
    OrphanOnlyByFailedFree
    ImplementsService
