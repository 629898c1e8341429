SPECIFICATION Spec
CONSTANTS
    Offsets = {0, 1, 2}
    Majors = {26, 27}
    NotANumber <- MCNotANumber
    Outputs = {"run1", "run2"}
    Pids = {1, 2}
    Exits = {0, 2}
    MaxChanges = 2
CHECK_DEADLOCK FALSE
INVARIANTS
    CountsForOneRequest
    CausalChain
    ReasonIsFirstFailure
PROPERTIES
    SecondSightingRevokes
    EveryPartCounts
