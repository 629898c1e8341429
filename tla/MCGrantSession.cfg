SPECIFICATION Spec
CONSTANTS
    PayloadMax = 3
    U32Max = 16
    U64Max = 20
    UsizeMax = 20
    SlotSpan = 4
    Align = 2
    TableMax = 4
    CellIds = {1, 2}
    Objects <- MCObjects
    ObjectBytes = 4
    GenerationMax = 2
    MaxTable = 2
    MaxClock = 1
    Forged <- MCForged
    o1 = o1
    o2 = o2
    NoObject = NoObject
    Bindings <- MCBindings
    InlineFrames <- MCInlineFrames
    Terms <- MCTerms
SYMMETRY Symmetry
INVARIANTS
    OnlyCurrentAuthority
    NoStaleHandle
    DeliveredBytes
    ConversionKeepsRequest
    LiveMessageServed
