SPECIFICATION Spec
CONSTANTS
    MemoryMaps <- MCMemoryMaps
    BiosPages = 2
    Kernel <- MCKernel
    Framebuffer <- MCFramebuffer
    Client = {t1, t2, c1, c2, c3}
    PageTables = {t1, t2}
    RunSizes = {3}
SYMMETRY Symmetry
INVARIANTS
    TypeOK
    Accounting
    ExclusiveOwnership
    SetAsideIsNeverGranted
PROPERTY FramebufferIsKept
CHECK_DEADLOCK FALSE
