---------------------------- MODULE MCRpcService -----------------------------
(* Constants of RpcService for TLC.  The object offers a call that must have a  *)
(* word and may have a block, a call without context or error, a subscription *)
(* whose context is a pointer, and three methods that are no callbacks.        *)
EXTENDS RpcService

W(first, rest) == [first |-> first, rest |-> rest]
Method(exported, name, ins, outs) ==
    [exported |-> exported, name |-> name, ins |-> ins, outs |-> outs]

MCNames == <<W(119, "ord"), W(102, "eed"), W(104, "eads")>>

MCApis ==
    <<[ns |-> "rpc", object |-> {Method(TRUE, W(77, "odules"), <<>>, <<T("value")>>)}],
      [ns |-> "api", object |->
        {Method(TRUE, W(71, "et"), <<T("ctx"), T("string"), Ptr("BlockNumber")>>,
                <<Ptr("value"), T("error")>>),
         Method(TRUE, W(83, "et"), <<T("int"), T("BlockNumberOrHash")>>, <<>>),
         Method(TRUE, W(79, "ne"), <<T("BlockNumber")>>, <<T("error")>>),
         Method(TRUE, W(70, "eed"), <<T("ctx"), T("int")>>, <<Ptr("sub"), T("error")>>),
         Method(TRUE, W(72, "eads"), <<Ptr("ctx")>>, <<Ptr("sub"), T("error")>>),
         Method(FALSE, W(111, "wn"), <<>>, <<>>),
         Method(TRUE, W(66, "ad"), <<>>, <<T("error"), T("value")>>),
         Method(TRUE, W(66, "ig"), <<>>, <<T("value"), T("value"), T("error")>>)}]>>

\* one replaces Get and leaves the rest; one has no callbacks; one has no name
MCObjects ==
    {[ns |-> "api", object |-> {Method(TRUE, W(71, "et"), <<T("int")>>, <<T("value")>>)}],
     [ns |-> "api", object |-> {Method(TRUE, W(66, "ad"), <<>>, <<T("error"), T("value")>>)}],
     [ns |-> "", object |-> MCApis[1].object]}

J(t, n) == [t |-> t, n |-> n]
Values == {J("null", 0), J("latest", 1), J("hex", MaxBlock), J("hex", MaxBlock + 1), J("hash", 1),
           J("text", 1), J("number", 1), J("object", 1), J("object", 2), J("object", 3)}
Array(vals) == [form |-> "array", vals |-> vals]
Params == {NoParams, [NoParams EXCEPT !.form = "null"], [NoParams EXCEPT !.form = "other"], Array(<<>>)}
          \cup {Array(<<v>>) : v \in Values} \cup {Array(<<J("number", 1), v>>) : v \in Values}
          \cup {Array(<<J("text", 1), v>>) : v \in {J("null", 0), J("latest", 1), J("hash", 1)}}
          \cup {Array(<<J("text", 2), J("number", 1)>>), Array(<<J("text", 3), J("null", 0)>>),
                Array(<<J("text", 3)>>), Array(<<J("text", 1), J("hex", 1), J("hex", 1)>>)}

Msg(id, kind, name, params) ==
    [ZeroMessage EXCEPT !.id = id, !.kind = kind, !.ns = "api", !.name = name, !.params = params]

Methods == {W(103, "et"), W(115, "et"), W(111, "ne"), W(111, "wn"), W(98, "ad"), W(71, "et")}
Ok == Array(<<J("text", 1)>>)

Messages ==
    {Msg("1", "plain", n, q) : n \in Methods, q \in Params}
    \cup {Msg("1", k, W(0, ""), q) : k \in {"subscribe", "unsubscribe"}, q \in Params}
    \cup {Msg(i, k, W(103, "et"), Ok) : i \in {NoId, BadId, NullId, "1"},
             k \in {"none", "bare", "plain", "subscribe", "unsubscribe", "subscription"}}
    \cup {[ZeroMessage EXCEPT !.id = i, !.reply = TRUE] : i \in {NoId, BadId, NullId, "1"}}

Elem(m) == [json |-> "message", msg |-> m]
Raw(batch, elems) == [syntax |-> TRUE, batch |-> batch, elems |-> elems]
Req(raw, outcome) == [raw |-> raw, outcomes |-> [i \in 1..3 |-> outcome]]

Some == {Elem(Msg("1", "plain", W(103, "et"), Ok)), Elem(Msg("2", "none", W(0, ""), NoParams)),
         Elem(Msg(NoId, "plain", W(103, "et"), Ok)), Elem(Msg(BadId, "plain", W(103, "et"), Ok)),
         [json |-> "junk"]}

MCRequests ==
    {Req(Raw(FALSE, <<Elem(m)>>), "value") : m \in Messages}
    \cup {Req(Raw(FALSE, <<Elem(Msg("1", "plain", n, Array(<<J("latest", 1)>>)))>>), o)
            : n \in Methods, o \in Outcomes}
    \cup {Req(Raw(TRUE, <<x, y, z>>), "value") : x \in Some, y \in Some, z \in Some}
    \cup {Req(Raw(TRUE, <<>>), "value"), Req(Raw(FALSE, <<[json |-> "junk"]>>), "value"),
          Req([Raw(FALSE, <<>>) EXCEPT !.syntax = FALSE], "value")}
=============================================================================
