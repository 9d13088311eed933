SPECIFICATION Spec
CONSTANTS
    UserKeys <- MCUserKeys
    Sequences_ = {1, 2, 3}
    UserCompare <- SliceCompare
    MaxByte = 3
    kMaxSequenceNumber = 3
    ValueSizes = {14}
    Heights = {1, 2}
    kBlockSize = 96
    align = 8
    PointerSize = 8
    MaxEntries = 2
    MaxRefs = 2
INVARIANT GetReadsSnapshot
