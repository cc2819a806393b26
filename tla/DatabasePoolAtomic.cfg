SPECIFICATION FairSpec
CONSTANTS
    None = None
    Workers = {w1, w2}
    Callers = {e1}
    Synch = {c1}
    Queued = {q1, q2}
    Singles = {}
    Directs = {d1}
    Empty = {}
    Length = 2
    Size <- MCSize
    MaxRetries = 2
    LoopBreaker = 1
    MaxLosses = 0
PROPERTIES
    
    Answered
