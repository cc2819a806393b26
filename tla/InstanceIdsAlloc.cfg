SPECIFICATION Spec
CONSTANTS
    Word = 8
    Block = 4
    MaxId = 6
    Stored <- StoredIds
    Workers = {w1}
INVARIANTS
    NextIsLowest

    
