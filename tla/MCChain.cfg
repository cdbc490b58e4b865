CONSTANTS
    Files = {small, raw, elf, large, negative, wraps}
    small = small
    raw = raw
    elf = elf
    large = large
    negative = negative
    wraps = wraps
    FileLen <- MCFileLen
    Elf = {elf}
    Radix = 2
    MinSize = 2
    LineCap = 2
    MaxFaults = 2
SPECIFICATION FairSpec
INVARIANTS
    ChainTypeOK
    BootsOneFile
    InStep
PROPERTY UploadCompletes
CHECK_DEADLOCK FALSE
