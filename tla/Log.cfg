SPECIFICATION Spec
CONSTANTS
    kBlockSize = 6
    Sizes = {0, 1, 7}
    InitialOffsets = {0, 8, 11}
    MaxRecords = 3
    MaxFaults = 1
INVARIANTS   NoFalseAlarm
