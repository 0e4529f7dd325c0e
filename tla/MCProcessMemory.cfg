CONSTANTS
    Total = 10
    BlockSize = 4
    Word = 64
    HeapAddress = 4
    Procs = {p, q}
    PartBlocks <- MCPartBlocks
    ImageBlocks <- MCImageBlocks
    Segments <- MCSegments
    AllocSlots = 2
    Sizes <- MCSizes
SPECIFICATION Spec
INVARIANTS TypeOK ObjectsDisjoint TableExact AccessExact
SYMMETRY Symmetry
CHECK_DEADLOCK FALSE
