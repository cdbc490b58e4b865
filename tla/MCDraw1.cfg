CONSTANTS
    NUM_CORES = 1
    i0 = i0
    screen = screen
    Kernels = {k1, k2}
    Tasks <- MCTasks
    Idle <- MCIdle
    Boot = Boot
    NoTask = NoTask
    prio <- MCprio
    pinned <- MCpinned
    home <- MChome
    Hit <- MCTasks
    Astray = {0}
    MaxPremption = 1
    Circles = {x1}
    NoCircle = NoCircle
    SgiLatency = TRUE
    SpuriousTas = TRUE
    ReadApart = FALSE
SPECIFICATION DrawSpec
SYMMETRY Symmetry
INVARIANTS
    DrawTypeOK
    MutualExclusion
    CirclesAccounted
    SleeperWakeable
