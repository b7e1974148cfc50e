SPECIFICATION Spec
CONSTANTS
    Q = 3
    Messages <- MCMessages
    Managers = {k1, k2}
    Keystores <- MCKeystores
    NoFile = NoFile
    Slots = {"s1"}
    Refs = {r1, r2, r3}
    None = None
    MaxChanges = 1
    MaxSigs = 3
INVARIANTS TypeOK SignVerifies AggregatesVerify CacheClean LatestCanSign OpensTheWallet
SYMMETRY Symmetry
CHECK_DEADLOCK FALSE
