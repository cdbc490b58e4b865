CONSTANTS
    NUM_CORES = 3
    THREAD_N = 1
    NumDrivers = 5
SPECIFICATION FairSpec
INVARIANTS
    BootTypeOK
    NoBadAccess
    ReadyForInterrupts
 
CHECK_DEADLOCK FALSE
