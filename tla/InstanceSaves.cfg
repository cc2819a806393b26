SPECIFICATION FairSpec
CONSTANTS
    None = None
    Players = {p1, p2}
    MaxId = 2
    MaxEvents = 2
INVARIANTS
    BindsMatch
    NoIdLeak
    EntryAccepted
PROPERTY EmptyCopyUnloads
