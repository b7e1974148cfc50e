SPECIFICATION FairSpec
CHECK_DEADLOCK FALSE
CONSTANTS
    Ops = {"sub", "unsub"}
    NoOp = NoOp
    ID <- MCID
    Ids <- MCIds
    Subs = {"sub"}
    Unsubs = {"unsub"}
    Target <- MCTarget
    Reverse = {}
    Cancellable = {"sub"}
    Closers = {"k1"}
    MaxConns = 1
    CanReconnect = FALSE
    LateFail = FALSE
PROPERTIES
    CloseReturns
