SPECIFICATION Spec
CONSTANTS
    Offsets = {0, 1, 2}
    Majors = {25, 26, 27}
    NotANumber <- MCNotANumber
    Exits = {0, 2}
    MaxChanges = 2
CHECK_DEADLOCK FALSE
INVARIANTS
    CountsForOneRequest
    UserspaceBehindKernel
PROPERTY
    LessNeverVerifies
