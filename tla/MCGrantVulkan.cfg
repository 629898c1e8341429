SPECIFICATION VulkanSpec
CONSTANTS
    PayloadMax = 8
    U32Max = 40
    U64Max = 40
    UsizeMax = 40
    SlotSpan = 8
    Align = 8
    TableMax = 4
    NoObject = NoObject
    Groups = 4
    WordSpan = 65536
INVARIANTS
    ReceiptHonest
    NoFalseAlarm
CHECK_DEADLOCK FALSE
