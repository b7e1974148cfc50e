SPECIFICATION FairSpec
CHECK_DEADLOCK FALSE
CONSTANTS
    Users = {"u1", "u2"}
    MaxNotif = 4
    MaxBuffer = 2
INVARIANTS
    TypeOK
    ErrChannelSafe
    ErrTellsWhy
PROPERTIES
    ImplementsFeed
    DeliverReturns
    UnsubscribeReturns
    EndIsReported
