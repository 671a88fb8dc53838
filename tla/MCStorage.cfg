SPECIFICATION FairSpec
CONSTANTS
    MappedPorts = 30
    NumMounts = 3
    NumBuffers = 4
    EndMark = 31
    LowClusters = 7
    Heap = {0, 3, 31}
    MaxChain = 6
    Machines <- MCMachines
    Icon <- MCIcon
    Paths <- MCPaths
INVARIANTS MountsAreExact FoundIsNamed NamedIsFound PictureIsExact
PROPERTY CallsReturn
CHECK_DEADLOCK FALSE
