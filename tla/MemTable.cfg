SPECIFICATION Spec
CONSTANTS
    UserKeys <- MCUserKeys
    Sequences_ = {1, 2, 3}
    UserCompare <- ThreeWayCompare
    MaxByte = 3
    kMaxSequenceNumber = 3
    ValueSizes = {14}
    Heights = {1, 2}
    kBlockSize = 96
    align = 8
    PointerSize = 8
    MaxEntries = 3
    MaxRefs = 2
INVARIANTS SeparatorsSeparate GetReadsSnapshot MemoryExact
PROPERTIES PrevUndoesNext
