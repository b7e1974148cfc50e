----------------------------- MODULE RpcService -----------------------------
(***************************************************************************)
(* The service registry of a Server (simple_rpc/rpc/service.go, server.go)   *)
(* while services are registered and a request is served: the calls of a    *)
(* batch are looked up one after the other, each under the registry's lock,  *)
(* and RegisterName may come between them.                                  *)
(***************************************************************************)
EXTENDS RpcRequest, FiniteSets

CONSTANTS
    Names,          \* Names[w]: the method name that JSON word w spells
    Apis,           \* services of a new server: RPCService and the apis argument
    Objects,        \* [ns, object] registered while the server runs
    Requests        \* [raw, outcomes]: input, and what the callback of each message does

\* every method some object brings along
AllMethods == UNION ({Apis[i].object : i \in DOMAIN Apis} \cup {o.object : o \in Objects})

\* what registerName accepts
Services == {e \in [ns : STRING, cb : SuitableCallbacks(AllMethods)] : e.ns # ""}

ASSUME ApisAssumption ==
    /\ Apis \in Seq([ns : STRING, object : SUBSET GoMethod])
    /\ Objects \subseteq [ns : STRING, object : SUBSET GoMethod]

\* a batch may be empty, a request that is not JSON has no elements, any other
\* has one
ASSUME RequestsAssumption ==
    \A r \in Requests :
        LET elems == r.raw.elems IN
        /\ elems \in Seq({elems[i] : i \in DOMAIN elems})
        /\ elems # <<>> => r.raw.syntax
        /\ elems = <<>> => ~r.raw.syntax \/ r.raw.batch
        /\ \A i \in DOMAIN elems :
              elems[i].json = "message" => elems[i].msg.params.vals \in Seq(JsonValue)

VARIABLES
    services,       \* server.services
    run,            \* server.run = 1
    req             \* the request being served

vars == <<services, run, req>>

\* raw, whether subscriptions are allowed, the message to handle next, the answers
\* so far and the callbacks that ran
Idle == [raw |-> [syntax |-> TRUE, batch |-> FALSE, elems |-> <<>>], outcomes |-> <<>>,
         allow |-> FALSE, next |-> 0, answers |-> <<>>, runs |-> {}]

TypeOK ==
    /\ services \subseteq Services
    /\ run \in BOOLEAN
    /\ req.allow \in BOOLEAN
    /\ \A x \in req.runs : x.args \in Seq(GoValue)
    /\ req = Idle \/ /\ \E r \in Requests : req.raw = r.raw
                      /\ req.next \in 1..Len(req.raw.elems) + 1
    /\ req.answers \in Seq({req.answers[i] : i \in DOMAIN req.answers})

\* NewServer, and the loop of StartIPCEndpoint that registers its apis.
NewServices ==
    LET reg[k \in 0..Len(Apis)] ==
            IF k = 0 THEN {} ELSE RegisterName(reg[k - 1], Apis[k].ns, Apis[k].object)
    IN reg[Len(Apis)]

Init == services = NewServices /\ run = TRUE /\ req = Idle

\* Server.RegisterName.
Register(o) ==
    /\ services' = RegisterName(services, o.ns, o.object)
    /\ UNCHANGED <<run, req>>

\* The first step of Stop.
StopRun == run /\ run' = FALSE /\ UNCHANGED <<services, req>>

\* readBatch, then handleBatch or handleMsg: what is no JSON and an empty batch are
\* answered at once.
Received(r, allowSubscribe) ==
    [raw |-> r.raw, outcomes |-> r.outcomes, allow |-> allowSubscribe, next |-> 1, runs |-> {},
     answers |-> CASE ~r.raw.syntax -> ErrorMessage(InvalidMessage)
                   [] r.raw.syntax /\ r.raw.elems = <<>> -> ErrorMessage(InvalidRequest)
                   [] OTHER -> <<>>]

\* A connection's read loop hands a request to its handler, also when the server
\* has been stopped meanwhile.
Receive(r) ==
    /\ req = Idle
    /\ req' = Received(r, TRUE)
    /\ UNCHANGED <<services, run>>

\* serveSingleRequest.
ServeSingleRequest(r) ==
    /\ req = Idle /\ run
    /\ req' = Received(r, FALSE)
    /\ UNCHANGED <<services, run>>

Finished == req # Idle /\ req.next > Len(req.raw.elems)

\* The next message: handleImmediate, or handleCallMsg on the call goroutine.
\* (All messages of a batch go through handleImmediate before the first call; it
\* leaves nothing behind that this module knows of.)
HandleNext ==
    /\ req # Idle /\ ~Finished
    /\ LET m == ReadBatch(req.raw)[req.next]
           r == HandleCallMsg(services, Names, m, req.allow, req.outcomes[req.next])
       IN req' = IF HandleImmediate(m) THEN [req EXCEPT !.next = @ + 1]
                 ELSE [req EXCEPT !.next = @ + 1, !.runs = @ \cup r.runs,
                                  !.answers = @ \o Answer(m, r.code)]
    /\ UNCHANGED <<services, run>>

\* writeJSON of the answers.
WriteAnswers == Finished /\ req' = Idle /\ UNCHANGED <<services, run>>

Next ==
    \/ \E o \in Objects : Register(o)
    \/ \E r \in Requests : Receive(r) \/ ServeSingleRequest(r)
    \/ StopRun \/ HandleNext \/ WriteAnswers

Spec == Init /\ [][Next]_vars

-----------------------------------------------------------------------------
(* Properties.                                                              *)

Fits(type, a) ==
    \/ type.ptr /\ a = Nil
    \/ CASE type.base = "int" -> a.num # {} /\ ~a.hash
         [] type.base = "string" -> ~a.hash
         [] type.base = "BlockNumber" -> a.num # {} /\ a.num \subseteq -2..MaxBlock /\ ~a.hash
         [] type.base = "BlockNumberOrHash" -> ~(a.num # {} /\ a.hash) /\ a.num \subseteq -2..MaxBlock
         [] OTHER -> FALSE

\* Whatever a peer sends, a callback is only called with as many arguments as the
\* Go function has, each of a value its type allows, and a subscription callback
\* runs with a notifier in its context and no other callback does (one whose Go
\* function takes no plain context.Context is never given it; newCallback,
\* parsePositionalArguments and handleSubscribe have to agree; reflect would panic
\* otherwise).
NeverMiscalled ==
    \A x \in req.runs :
        /\ Len(x.args) + (IF x.cb.hasCtx THEN 1 ELSE 0) = Len(x.cb.ins)
        /\ \A i \in DOMAIN x.args : Fits(x.cb.argTypes[i], x.args[i])
        /\ x.notifier = x.cb.isSubscribe
        /\ x.notifier => req.allow

Due(m) == /\ ~(m.id = NoId /\ m.kind # "none")
          /\ ~(m.id \notin {NoId, BadId} /\ m.kind = "none" /\ m.params.form = "absent" /\ m.reply)

\* the messages before the n-th that are due an answer
DueBefore(raw, n) ==
    {i \in DOMAIN raw.elems : i < n /\ Due(ReadBatch(raw)[i])}

\* the answer to the i-th message, in its place among the answers
AnsweredRight(raw, answers, i) ==
    LET m == ReadBatch(raw)[i]
        a == answers[Cardinality(DueBefore(raw, i)) + 1]
    IN /\ a.id = IF m.id \in {NoId, BadId} THEN NullId ELSE m.id
       /\ m.kind = "none" => a.code = InvalidRequest

AllAnswered(raw, answers, n) ==
    /\ Len(answers) = Cardinality(DueBefore(raw, n))
    /\ \A i \in DueBefore(raw, n) : AnsweredRight(raw, answers, i)

\* Every call and every invalid message of a request is answered once, in order,
\* under its own ID if it has a usable one and under null if not; notifications
\* and responses are not answered (handleImmediate, handleCallMsg, handleBatch).
AnswersMatch ==
    Finished =>
        IF ~req.raw.syntax \/ (req.raw.batch /\ req.raw.elems = <<>>)
        THEN Len(req.answers) = 1 /\ req.answers[1].id = NullId
        ELSE AllAnswered(req.raw, req.answers, req.next)

\* A method or subscription once registered stays available, whatever is registered
\* later under the same namespace (registerName; "rpc" itself can be extended).
StaysRegistered ==
    [][\A e \in services : \E f \in services' :
          f.ns = e.ns /\ f.cb.name = e.cb.name /\ f.cb.isSubscribe = e.cb.isSubscribe]_vars

-----------------------------------------------------------------------------
(* The invariant behind NeverMiscalled and AnswersMatch.                      *)

\* req has the fields of a request and nothing else
Shape == req = [raw |-> req.raw, outcomes |-> req.outcomes, allow |-> req.allow,
                next |-> req.next, answers |-> req.answers, runs |-> req.runs]

\* the messages handled so far are answered; a request without messages was
\* answered when it came
Answering ==
    req # Idle =>
        IF req.raw.elems = <<>> THEN Len(req.answers) = 1 /\ req.answers[1].id = NullId
        ELSE AllAnswered(req.raw, req.answers, req.next)

ServiceInv == TypeOK /\ Shape /\ Answering /\ NeverMiscalled
=============================================================================
