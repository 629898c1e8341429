SPECIFICATION PlanSpec
CONSTANTS
    Cell = {0, 1, 2}
    CpuMax = 1
    MemoryMin = 1
    NotUtf8 = 2
    LenSpan = 3
    Strings <- MCStrings
    MaxCells = 11
    MaxItems = 2
CHECK_DEADLOCK FALSE
INVARIANTS
    Canonical
    BuiltPlanDecodes
