SPECIFICATION FairSpec
CONSTANTS
    o1 = o1
    o2 = o2
    a1 = a1
    a2 = a2
    NoGroup = NoGroup
    Nobody = Nobody
    Owners = {o1, o2}
    Accounts = {a1}
    Players = {o1, o2, a1}
    Groups = {1, 2, 3}
    GroupSize = 3
    MaxPerPlayer = 2
    Timeout = 1
    Grace = 2
    Purse = 1
    Offers = 0
    MaxDrops = 1
INVARIANTS
    OneContractPerBot
PROPERTIES
    WaitingEnds
