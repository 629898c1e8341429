SPECIFICATION Spec
CONSTANTS
    PayloadMax = 2
    U32Max = 17
    U64Max = 18
    UsizeMax = 18
    MaxDamage = 1
    Cells <- MCCells
    Frames <- MCFrames
CHECK_DEADLOCK FALSE
INVARIANTS
    DecodedNeverPanics
    RoundTrip
    AcceptsExactly
