CONSTANTS
    NUM_CORES = 1
    i0 = i0
    screen = screen
    Kernels = {k1}
    Tasks <- MCTasks
    Idle <- MCIdle
    Boot = Boot
    NoTask = NoTask
    prio <- MCprio
    pinned <- MCpinned
    home <- MChome
    Hit <- MCTasks
    Astray = {0}
    MaxPremption = 1
    Circles = {x1, x2}
    NoCircle = NoCircle
    SgiLatency = FALSE
    SpuriousTas = FALSE
    ReadApart = TRUE
SPECIFICATION FairDrawSpec
PROPERTIES
    CircleDrawn
    WaiterWoken
