SPECIFICATION Spec
CONSTANTS
    NumCPUs = 2
    KernelStage2 = k
    NewProcesses = {p1, p2}
    Creators = {k}
    i0 = i0
    i1 = i1
    idleProcess <- MCIdle
    NoProcess = none
    DefaultTimeSlice = 1
    SliceWord = 4
    MaxDepth = 2
    WindowTicks = 1
SYMMETRY Symmetry
INVARIANTS
    HeadIsCurrent
    QueuedOnce
    LockIsHeld
    ContextIsOwn
    ScheduleNeverAllocates
    QueuesBalanced
PROPERTY RoundRobinSpec
