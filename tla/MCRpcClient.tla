---------------------------- MODULE MCRpcClient ----------------------------
(* Small instances of RpcClient: one op of each kind the client makes.      *)
EXTENDS RpcClient

MCID == {"1", "2", "3", "4", "5", "6"}

MCIds == [o \in Ops |->
    CASE o = "call"   -> {"1"}
      [] o = "batch"  -> {"2", "3"}
      [] o = "sub"    -> {"4"}
      [] o = "unsub"  -> {"5"}
      [] o = "rev"    -> {"2", "3"}
      [] o = "notify" -> {}]

MCTarget == [u \in Unsubs |-> "sub"]
=============================================================================
