SPECIFICATION FairWorkSpec
CONSTANTS
    Items = {1, 2, 3, 4, 5, 6}
    Children <- MCChildren
INVARIANTS RunInOrder NoLostWakeup
PROPERTIES EveryItemRuns
