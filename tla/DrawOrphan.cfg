CONSTANTS
    NUM_CORES = 2
    i0 = i0
    i1 = i1
    screen = screen
    Kernels = {k1}
    Tasks <- MCTasks
    Idle <- MCIdle
    Boot = Boot
    NoTask = NoTask
    prio <- MCprio
    pinned <- MCpinned
    home <- MChome
    Hit <- MCTasks
    Astray = {0, 1}
    MaxPremption = 1
    Circles = {x1}
    NoCircle = NoCircle
    SgiLatency = FALSE
    SpuriousTas = FALSE
    ReadApart = TRUE
SPECIFICATION DrawSpec
INVARIANT SleeperWakeable
