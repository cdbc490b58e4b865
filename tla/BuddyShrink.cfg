CONSTANTS
    MaxOrder = 4
    BUDDY_ALLOC_ALIGN = 2
    MaxSlots = 6
    InitSlots = {1, 2, 3, 5, 6}
    SizeBits = 5
    Downsizing = "fitting"
    Null = Null
SPECIFICATION Spec
INVARIANT BlocksKept
