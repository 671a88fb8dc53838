SPECIFICATION FairSpec
CONSTANTS
    MADTs <- MCTables
    BootCPU = 0
    Dead = {3}
    Late = {1, 2}
INVARIANTS
    OwnIdentity
    AllocatorsAreSerial
PROPERTY BootCompletes
