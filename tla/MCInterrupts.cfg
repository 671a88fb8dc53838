SPECIFICATION FairSpec
CONSTANTS
    c0 = c0
    c1 = c1
    CPUs <- TwoCPUs
    Boot = c0
    SleepTicks = 2
    MaxKeys = 1
INVARIANTS
    TypeOK
    InServiceIsOwn
    BootIsExact
PROPERTIES
    Taken
    SchedulingStarts
