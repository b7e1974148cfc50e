CONSTANTS
    Msgs = {"sub", "block"}
    Subs = {"s1"}
    NoSub = "none"
    MaxNotif = 1
    Calls <- BatchCalls
SPECIFICATION FairSpec
PROPERTY CloseCancelsCalls
CHECK_DEADLOCK FALSE
