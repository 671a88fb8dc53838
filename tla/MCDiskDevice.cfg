SPECIFICATION FairSpec
CONSTANTS
    BlockSize = 2
    DiskBlocks = 15
    MaxFaults = 2
    NumBuffers = 2
    ByteCalls <- MCByteCalls
    BlockCalls <- MCBlockCalls
INVARIANTS ReadsAreExact WritesLand OtherBlocksKept BuffersAccounted
PROPERTY CallsReturn
CHECK_DEADLOCK FALSE
