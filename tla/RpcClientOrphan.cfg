SPECIFICATION Spec
CHECK_DEADLOCK FALSE
CONSTANTS
    Ops = {"call"}
    NoOp = NoOp
    ID <- MCID
    Ids <- MCIds
    Subs = {}
    Unsubs = {}
    Target <- MCTarget
    Reverse = {}
    Cancellable = {}
    Closers = {"k1"}
    MaxConns = 1
    CanReconnect = FALSE
    LateFail = FALSE
INVARIANTS
    QuitClosesEveryOp
