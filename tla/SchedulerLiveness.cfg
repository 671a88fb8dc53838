SPECIFICATION FairSpec
CONSTANTS
    NumCPUs = 2
    KernelStage2 = k
    NewProcesses = {p1, p2}
    Creators = {k}
    i0 = i0
    i1 = i1
    idleProcess <- MCIdle
    NoProcess = none
    DefaultTimeSlice = 1
    SliceWord = 4
    MaxDepth = 1
    WindowTicks = 1
PROPERTY EveryProcessRuns
