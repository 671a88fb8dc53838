SPECIFICATION Spec
CONSTANTS
    Slots = 4
    Memory = 16
    Framebuffer = 12
    FramebufferPages = 1
    Devices = {68}
    HeapStart = 64
    pageCount = 1
    MaxHeap = 2
    Frames <- MCFrames
    Supplies <- MCSupplies
    Leftovers <- MCLeftovers
    Missing = Missing
INVARIANT TablesAreApart
INVARIANT FaultsStarved
PROPERTY AddressSpaceSpec
CHECK_DEADLOCK FALSE
