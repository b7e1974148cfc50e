SPECIFICATION FairSpec
CHECK_DEADLOCK FALSE
CONSTANTS
    Ops = {"sub", "unsub", "rev"}
    NoOp = NoOp
    ID <- MCID
    Ids <- MCIds
    Subs = {"sub"}
    Unsubs = {"unsub"}
    Target <- MCTarget
    Reverse = {"rev"}
    Cancellable = {"sub", "rev"}
    Closers = {"k1"}
    MaxConns = 2
    CanReconnect = TRUE
    LateFail = FALSE
INVARIANTS
    TypeOK
    SendLock
    SingleReader
    ClosedNotPending
    InflightRegistered
    RespHasRoom
PROPERTIES
    NoSilentDeregistration
    CloseReturnsUnlessStuck
    DeadlineReturns
