CONSTANTS
    Cutoff = 10
    LongSizes = {11, 12}
    SmallCutoff = 2
    ShortMax = 5
    HalfValues = 8
    MaxTime = 23
    Firsts = {1, 2048, 8300000, 8388607}
    Sectors = {0, 1, 33024, 33025, 33026, 66049, 70000, 8388608, 8388609}
SPECIFICATION Spec
INVARIANTS
    SortsAndFinds
    CounterReads
    FieldsExact
    CirclesInBuffer
    LayoutSound
CHECK_DEADLOCK FALSE
