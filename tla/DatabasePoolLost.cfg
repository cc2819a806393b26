SPECIFICATION Spec
CONSTANTS
    None = None
    Workers = {w1}
    Callers = {e1}
    Synch = {c1}
    Queued = {q1}
    Singles = {}
    Directs = {d1}
    Empty = {}
    Length = 2
    Size <- MCSize
    MaxRetries = 2
    LoopBreaker = 2
    MaxLosses = 1
INVARIANTS
    AllOrNothing
