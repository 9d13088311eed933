SPECIFICATION Spec
CONSTANTS
    Keys = {1, 2, 3}
    Entries = {e1, e2, e3}
    Nil = Nil
    kInitialLength = 1
    kNumShards = 2
    HashRange = 8
    HashFunctions <- MCHashFunctions
    Charges = {1, 2}
    Capacities = {0, 3}
    MaxHandles = 2
    MaxInserts = 1
SYMMETRY Symmetry
INVARIANTS RefsExact ListsExact ChainsExact PruneLeavesNoneIdle TotalChargeBounded
PROPERTIES ImplementsCache
