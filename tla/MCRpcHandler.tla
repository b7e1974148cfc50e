---------------------------- MODULE MCRpcHandler ----------------------------
(* Messages for RpcHandler: s1 is subscribed by a plain call, s2 inside a     *)
(* batch that also unsubscribes s1, before or after it exists; a third one    *)
(* calls a method that waits for its context, like Block of the test service. *)
EXTENDS RpcHandler

C(kind, id, sub) == [kind |-> kind, id |-> id, sub |-> sub]

BatchCalls ==
    [m \in Msgs |->
        CASE m = "sub"   -> <<C("subscribe", TRUE, "s1")>>
          [] m = "batch" -> <<C("subscribe", TRUE, "s2"), C("unsubscribe", TRUE, "s1")>>
          [] m = "block" -> <<C("waits", TRUE, NoSub)>>]
=============================================================================
