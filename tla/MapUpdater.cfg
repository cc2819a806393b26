SPECIFICATION FairSpec
CONSTANTS
    Main = Main
    NoMap = NoMap
    NoThread = NoThread
    Workers = {w1, w2, w3}
    BaseMaps = {b1, b2}
    Container = b1
    Instances = {i1, i2, i3}
    Parent <- MCParent
INVARIANTS
    PendingCounts
    BarrierHolds
    NoRequestSleeps
    OneUpdatePerMap
    NoNullCall
PROPERTIES
    TickSpec
    TickEnds
    ShutdownEnds
