CONSTANTS
    Msgs = {"sub", "batch", "block"}
    Subs = {"s1", "s2"}
    NoSub = "none"
    MaxNotif = 2
    Calls <- BatchCalls
SPECIFICATION FairSpec
INVARIANTS TypeOK IdLeads NotificationsInOrder Unsubscribable ErrClosedOnce NoOrphanPublisher
PROPERTY CloseEndsAll
CHECK_DEADLOCK FALSE
