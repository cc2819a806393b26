SPECIFICATION FairSpec
CONSTANTS
    Sockets = {s1, s2}
    Room = 2
    Large = {4}
    Silent = {s2}
    MaxSends = 1
INVARIANTS
    Registered
    OneReader
PROPERTIES
    ChannelSpec
    Delivered
    Removed
