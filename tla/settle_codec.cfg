SPECIFICATION CodecSpec
CHECK_DEADLOCK FALSE
CONSTANTS
    Byte = 3
    Word = 2
    Orders <- ManyPulls
    Buffer <- BufferOf
    Bump <- BumpOf
    NativeSol = 50
    Sysvar = 1
    State = 2
    Other = 3
    Stray = {1, 61}
    MaxOrders = 3
    MaxEdits = 2
INVARIANTS NothingLeftOver ViewsAgree BuiltIsMeant
