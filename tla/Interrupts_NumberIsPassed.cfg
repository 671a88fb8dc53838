SPECIFICATION Spec
CONSTANTS
    c0 = c0
    c1 = c1
    CPUs <- TwoCPUs
    Boot = c0
    SleepTicks = 2
    MaxKeys = 0
INVARIANT
    NumberIsPassed
