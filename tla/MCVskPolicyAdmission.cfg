SPECIFICATION Spec
CONSTANTS
    MaxEdits = 2
    U64Max = 3
CHECK_DEADLOCK FALSE
INVARIANT RequirementsOnlyRestrict
