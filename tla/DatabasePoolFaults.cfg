SPECIFICATION Spec
CONSTANTS
    None = None
    Workers = {w1}
    Callers = {e1, e2}
    Synch = {c1}
    Queued = {q1, q2}
    Singles = {s1}
    Directs = {d1, d2}
    Empty = {q2}
    Length = 2
    Size <- MCSize
    MaxRetries = 1
    LoopBreaker = 1
    MaxLosses = 1
SYMMETRY Symmetry
INVARIANTS
    NoTransactionLeftOpen
    PostOrder
