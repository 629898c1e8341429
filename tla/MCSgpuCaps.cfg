SPECIFICATION CapsSpec
CONSTANTS
    Byte = 5
    VramSizes <- MCVramSizes
    ThreadCounts <- MCThreadCounts
INVARIANT FieldsApart
CHECK_DEADLOCK FALSE
