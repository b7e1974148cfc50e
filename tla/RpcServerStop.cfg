SPECIFICATION Spec
CONSTANTS
    Procs = {"p1"}
    Conns = {"c1", "c2"}
    None = "none"
    Stale = "stale"
INVARIANTS StopClosesAll
