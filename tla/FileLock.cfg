SPECIFICATION Spec
CONSTANTS
    procA = procA
    procB = procB
    a1 = a1
    a2 = a2
    b1 = b1
    b2 = b2
    None = None
    Processes <- MCProcesses
    Threads <- MCThreads
    ProcessOf <- MCProcessOf
INVARIANTS TableExact ExclusiveUnlessClosed
