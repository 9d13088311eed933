SPECIFICATION FairSpec
CONSTANTS
    Keys = {1, 2, 3}
    Readers = {r1}
    Writer = w
    kMaxHeight = 2
    Nil = Nil
    Wild = Wild
INVARIANTS
    NoWildRead
    LevelsExact
    LevelsNested
PROPERTIES
    
    ImplementsOrderedSet
