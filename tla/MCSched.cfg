CONSTANTS
    NUM_CORES = 2
    i0 = i0
    i1 = i1
    screen = screen
    kernel = kernel
    Tasks <- MCTasks
    Idle <- MCIdle
    Boot = Boot
    NoTask = NoTask
    prio <- MCprio
    pinned <- MCpinned
    home <- MChome
    Hit = {screen}
    Astray = {1}
    MaxPremption = 1
SPECIFICATION Spec
INVARIANTS
    TypeOK
    OneQueue
    CurrentQueued
    IdleStays
    NoPanic
    NonPreemptibleRuns
    PinRespected
    LockOrder
    Strengthening
