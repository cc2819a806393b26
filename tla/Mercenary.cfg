SPECIFICATION Spec
CONSTANTS
    o1 = o1
    o2 = o2
    a1 = a1
    a2 = a2
    NoGroup = NoGroup
    Nobody = Nobody
    Owners = {o1}
    Accounts = {a1, a2}
    Players = {o1, a1, a2}
    Groups = {1, 2}
    GroupSize = 3
    MaxPerPlayer = 2
    Timeout = 1
    Grace = 2
    Purse = 1
    Offers = 1
    MaxDrops = 1
INVARIANTS
    Linked
    NoUseAfterDelete
PROPERTIES
    RefundEndsContract
