SPECIFICATION Spec
CONSTANTS
    Procs = {"p1", "p2"}
    Conns = {"c1", "c2"}
    None = "none"
    Stale = "stale"
INVARIANTS SoleServerReachable
