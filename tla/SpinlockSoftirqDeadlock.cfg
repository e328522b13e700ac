CONSTANTS
    CPUs = {c0, c1}
    InitCPU = c0
    MaxFires = 3
    None = None
SPECIFICATION FairSpec
PROPERTY InitReturns
CHECK_DEADLOCK FALSE
