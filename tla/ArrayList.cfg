CONSTANTS
    Elements = {1, 2, 3, 4, 5, 6}
    InitCapacity = 3
    MinBlock = 5
    Capacities = {6}
    Cutoff = 2
SPECIFICATION Spec
INVARIANTS
    ListTypeOK
    SortedIsSorted
    AccessInBlock
PROPERTIES
    ImplementsCollection
    AbsentRemoval
