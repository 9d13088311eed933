SPECIFICATION Spec
CONSTANTS
    Threads = {t1, t2, t3, t4}
    MaxMmaps = 1
    MaxOpenFiles = 2
INVARIANTS CountersExact LimitsHold DescriptorsExact
