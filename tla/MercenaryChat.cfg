SPECIFICATION FairSpec
CONSTANTS
    None = None
    Owners = {o1, o2}
    Bots = {b1}
    MaxPending = 2
    HistoryDepth = 2
    MaxAttempts = 2
    MaxTalks = 3
    MaxKeys = 1
    MaxHires = 2
INVARIANTS
    WordsOfThisContract
PROPERTIES
    DialogueSpec
    Answered
    
