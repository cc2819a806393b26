SPECIFICATION FairSpec
CONSTANTS
    Null = Null
    Producers = {p1, p2}
    Nodes = {n1, n2, n3, n4}
    Sends = 2
INVARIANTS
    NoDanglingNode
PROPERTIES
    FifoSpec
    Delivery
