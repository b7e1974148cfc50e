----------------------------- MODULE RpcRequest -----------------------------
(***************************************************************************)
(* What one JSON-RPC request means: which callbacks a Go object offers      *)
(* (simple_rpc/rpc/service.go), how a raw message is taken apart and its    *)
(* positional arguments decoded (json.go, types.go), which callback it      *)
(* runs and what is answered (handler.go, errors.go).  Operators only, used  *)
(* by RpcService.                                                           *)
(*                                                                         *)
(* A JSON value is [t, n]: for a string t tells what it spells ("hex": the  *)
(* number n, "hash": 66 characters, "text": the word n), for an object n is *)
(* the set of its fields.  A Go argument is [num, hash]: num holds a        *)
(* number, block number or word if there is one.  Operators that may fail   *)
(* return the set of their results, empty for an error.                     *)
(***************************************************************************)
EXTENDS Integers, Sequences

CONSTANTS
    MaxBlock,   \* stands for math.MaxInt64
    NoId,       \* msg.ID = nil
    BadId,      \* an object or an array as ID
    NullId      \* JSON null as ID; also the ID of errorMessage

ASSUME BlockAssumption == MaxBlock \in Nat

JsonStrings == {"earliest", "latest", "pending", "hex", "hash", "text"}
JsonValue == [t : JsonStrings \cup {"null", "number", "object"}, n : Nat]
GoValue == [num : SUBSET Int, hash : BOOLEAN]

Nil == [num |-> {}, hash |-> FALSE]
Num(n) == [num |-> {n}, hash |-> FALSE]

-----------------------------------------------------------------------------
(* types.go.                                                                *)

EarliestBlockNumber == 0
LatestBlockNumber == -1
PendingBlockNumber == -2

\* the words that BlockNumber and BlockNumberOrHash know
BlockTags == [earliest |-> EarliestBlockNumber, latest |-> LatestBlockNumber,
              pending |-> PendingBlockNumber]

\* hexutil.DecodeUint64 and the comparison with math.MaxInt64.
DecodeNumber(v) == IF v.t = "hex" /\ v.n <= MaxBlock THEN {Num(v.n)} ELSE {}

\* BlockNumber.UnmarshalJSON: it is also called for null and for numbers, which
\* have no 0x prefix.
UnmarshalBlockNumber(v) ==
    IF v.t \in DOMAIN BlockTags THEN {Num(BlockTags[v.t])} ELSE DecodeNumber(v)

\* BlockNumberOrHash.UnmarshalJSON.  An object has the fields blockNumber (n = 1),
\* blockHash (2), both (3) or none of them (0); null sets neither.
UnmarshalBlockNumberOrHash(v) ==
    CASE v.t = "null" -> {Nil}
      [] v.t = "object" -> IF v.n = 3 THEN {}
                           ELSE {[num |-> IF v.n = 1 THEN {0} ELSE {}, hash |-> v.n = 2]}
      [] v.t = "hash" -> {[num |-> {}, hash |-> TRUE]}
      [] v.t \in JsonStrings \ {"hash"} -> UnmarshalBlockNumber(v)
      [] OTHER -> {}

\* encoding/json: null leaves a string or a number at zero.
UnmarshalBasic(base, v) ==
    CASE v.t = "null" -> {IF base = "int" THEN Num(0) ELSE Nil}
      [] base = "int" /\ v.t = "number" -> {Num(v.n)}
      [] base = "string" /\ v.t \in JsonStrings -> {Num(v.n)}
      [] OTHER -> {}

-----------------------------------------------------------------------------
(* service.go.  A Go method is [exported, name, ins, outs] without its       *)
(* receiver.  A type is [base, ptr]; "value" stands for a type that is only  *)
(* returned.                                                                *)

GoType == [base : {"ctx", "sub", "error", "int", "string", "BlockNumber", "BlockNumberOrHash",
                   "value"}, ptr : BOOLEAN]
GoMethod == [exported : BOOLEAN, name : [first : Nat, rest : STRING],
             ins : Seq(GoType), outs : Seq(GoType)]

T(base) == [base |-> base, ptr |-> FALSE]
Ptr(base) == [base |-> base, ptr |-> TRUE]

\* isContextType, isErrorType, isSubscriptionType look through pointers.
IsPubSub(m) ==
    /\ Len(m.ins) >= 1 /\ Len(m.outs) = 2
    /\ m.ins[1].base = "ctx" /\ m.outs[1].base = "sub" /\ m.outs[2].base = "error"

HasCtx(m) == m.ins # <<>> /\ m.ins[1] = T("ctx")

\* callback.makeArgTypes: without the receiver and a leading context.Context.
MakeArgTypes(m) == IF HasCtx(m) THEN Tail(m.ins) ELSE m.ins

\* newCallback: at most a value and then an error.
Suitable(m) ==
    /\ Len(m.outs) <= 2
    /\ Len(m.outs) = 2 => m.outs[1].base # "error" /\ m.outs[2].base = "error"

ErrPos(m) == IF Len(m.outs) = 2 THEN 1
             ELSE IF Len(m.outs) = 1 /\ m.outs[1].base = "error" THEN 0 ELSE -1

\* formatName.
FormatName(name) == [name EXCEPT !.first = IF @ \in 65..90 THEN @ + 32 ELSE @]

\* suitableCallbacks, newCallback.
SuitableCallbacks(object) ==
    {[name |-> FormatName(m.name), ins |-> m.ins, argTypes |-> MakeArgTypes(m),
      hasCtx |-> HasCtx(m), errPos |-> ErrPos(m), isSubscribe |-> IsPubSub(m)]
        : m \in {k \in object : k.exported /\ Suitable(k)}}

\* Mutant of RegisterName: the maps of a service that exists are replaced.
RegisterNameAnew(services, ns, object) ==
    LET cbs == SuitableCallbacks(object)
    IN IF ns = "" \/ cbs = {} THEN services
       ELSE {e \in services : e.ns # ns} \cup {[ns |-> ns, cb |-> c] : c \in cbs}

\* serviceRegistry.registerName: a service that exists is extended; callbacks and
\* subscriptions are maps of their own.
RegisterName(services, ns, object) ==
    LET cbs == SuitableCallbacks(object)
        replaced(e) == e.ns = ns /\ \E c \in cbs : c.name = e.cb.name /\ c.isSubscribe = e.cb.isSubscribe
    IN IF ns = "" \/ cbs = {} THEN services
       ELSE {e \in services : ~replaced(e)} \cup {[ns |-> ns, cb |-> c] : c \in cbs}

\* serviceRegistry.callback and .subscription.
Callback(services, ns, name) ==
    {e.cb : e \in {x \in services : x.ns = ns /\ x.cb.name = name /\ ~x.cb.isSubscribe}}
Subscription(services, ns, name) ==
    {e.cb : e \in {x \in services : x.ns = ns /\ x.cb.name = name /\ x.cb.isSubscribe}}

-----------------------------------------------------------------------------
(* json.go.  A message is [id, kind, ns, name, params, reply]: kind "none" is *)
(* an empty method, "bare" one without a separator, the others have the     *)
(* suffix their kind says; reply tells that a result or an error is there.   *)
(* Params are [form, vals] with form "absent", "null", "array" or "other".   *)

NoParams == [form |-> "absent", vals |-> <<>>]
ZeroMessage == [id |-> NoId, kind |-> "none", ns |-> "", name |-> [first |-> 0, rest |-> ""],
                params |-> NoParams, reply |-> FALSE]

HasValidID(m) == m.id \notin {NoId, BadId}
IsNotification(m) == m.id = NoId /\ m.kind # "none"
IsCall(m) == HasValidID(m) /\ m.kind # "none"
IsResponse(m) == HasValidID(m) /\ m.kind = "none" /\ m.params.form = "absent" /\ m.reply

\* readBatch, parseMessage: what is no JSON-RPC message becomes the zero message.
ReadBatch(raw) ==
    [i \in DOMAIN raw.elems |-> IF raw.elems[i].json = "message" THEN raw.elems[i].msg
                                                                 ELSE ZeroMessage]

\* Decoding into reflect.New(type): a pointer is set to nil by null.  The element
\* of *context.Context is an interface, which nothing decodes into.
Decode(type, v) ==
    IF type.ptr /\ v.t = "null" THEN {Nil}
    ELSE CASE type.base = "BlockNumber" -> UnmarshalBlockNumber(v)
           [] type.base = "BlockNumberOrHash" -> UnmarshalBlockNumberOrHash(v)
           [] type.base \in {"int", "string"} -> UnmarshalBasic(type.base, v)
           [] OTHER -> {}

\* Mutant of ParsePositionalArguments: surplus arguments are passed on.
ParsePositionalArgumentsLax(params, types) ==
    LET n == Len(params.vals)
    IN IF \/ params.form = "other"
          \/ \E i \in DOMAIN types : i <= n /\ Decode(types[i], params.vals[i]) = {}
          \/ \E i \in n + 1 .. Len(types) : ~types[i].ptr
       THEN {}
       ELSE {[i \in 1 .. (IF n > Len(types) THEN n ELSE Len(types)) |->
                IF i <= n /\ i <= Len(types) THEN CHOOSE a \in Decode(types[i], params.vals[i]) : TRUE
                ELSE Nil]}

\* parsePositionalArguments, parseArgumentArray.
ParsePositionalArguments(params, types) ==
    LET n == Len(params.vals)
    IN IF \/ params.form = "other" \/ n > Len(types)
          \/ \E i \in 1..n : Decode(types[i], params.vals[i]) = {}
          \/ \E i \in n + 1 .. Len(types) : ~types[i].ptr
       THEN {}
       ELSE {[i \in DOMAIN types |->
                IF i <= n THEN CHOOSE a \in Decode(types[i], params.vals[i]) : TRUE ELSE Nil]}

\* parseSubscriptionName.
ParseSubscriptionName(params) ==
    IF params.form = "array" /\ params.vals # <<>> /\ Head(params.vals).t \in JsonStrings
    THEN {Head(params.vals).n} ELSE {}

-----------------------------------------------------------------------------
(* handler.go, errors.go.  A callback may return a value, a value JSON cannot *)
(* encode, an error, an error with a code of its own (1), or panic.          *)

MethodNotFound == -32601
InvalidRequest == -32600
InvalidMessage == -32700
InvalidParams == -32602
DefaultError == -32000
Outcomes == {"value", "unencodable", "error", "coded", "panic"}

\* runMethod, callback.call, response, errorMessage: 0 is a result.  An error is
\* only looked for where errPos says.
RunMethod(cb, outcome) ==
    CASE outcome = "value" -> 0
      [] outcome \in {"error", "coded"} /\ cb.errPos < 0 -> 0
      [] outcome = "coded" /\ cb.errPos >= 0 -> 1
      [] OTHER -> DefaultError

\* handler.unsubscribe as newHandler wraps it.
UnsubscribeCb == [name |-> [first |-> 0, rest |-> ""], ins |-> <<T("ctx"), T("string")>>,
                  argTypes |-> <<T("string")>>, hasCtx |-> TRUE, errPos |-> 1,
                  isSubscribe |-> FALSE]

Failed(code) == [code |-> code, runs |-> {}]
Ran(cb, args, notifier, outcome) ==
    [code |-> RunMethod(cb, outcome), runs |-> {[cb |-> cb, args |-> args, notifier |-> notifier]}]

\* handleSubscribe; names[w] is the name that word w spells.
HandleSubscribe(services, names, m, allowSubscribe, outcome) ==
    LET word == ParseSubscriptionName(m.params)
        cbs == UNION {Subscription(services, m.ns, names[w]) : w \in word \cap DOMAIN names}
        cb == CHOOSE c \in cbs : TRUE
        args == ParsePositionalArguments(m.params, <<T("string")>> \o cb.argTypes)
    IN CASE ~allowSubscribe -> Failed(DefaultError)
         [] allowSubscribe /\ word = {} -> Failed(InvalidParams)
         [] allowSubscribe /\ word # {} /\ cbs = {} -> Failed(MethodNotFound)
         [] allowSubscribe /\ word # {} /\ cbs # {} ->
              IF args = {} THEN Failed(InvalidParams)
              ELSE Ran(cb, Tail(CHOOSE a \in args : TRUE), TRUE, outcome)

\* handleCall.
HandleCall(services, names, m, allowSubscribe, outcome) ==
    LET cbs == CASE m.kind = "unsubscribe" -> {UnsubscribeCb}
                 [] m.kind = "bare" -> {}
                 [] OTHER -> Callback(services, m.ns, m.name)
        cb == CHOOSE c \in cbs : TRUE
        args == ParsePositionalArguments(m.params, cb.argTypes)
    IN CASE m.kind = "subscribe" -> HandleSubscribe(services, names, m, allowSubscribe, outcome)
         [] m.kind # "subscribe" /\ cbs = {} -> Failed(MethodNotFound)
         [] m.kind # "subscribe" /\ cbs # {} ->
              IF args = {} THEN Failed(InvalidParams)
              ELSE Ran(cb, CHOOSE a \in args : TRUE, FALSE, outcome)

\* handleImmediate: responses and subscription notifications are the client's.
HandleImmediate(m) ==
    \/ IsNotification(m) /\ m.kind = "subscription"
    \/ IsResponse(m)

\* errorMessage, sent on its own.
ErrorMessage(code) == <<[id |-> NullId, code |-> code]>>

\* Mutant of Answer: errorMessage keeps its null ID.
AnswerNull(m, code) == IF IsNotification(m) THEN <<>> ELSE ErrorMessage(code)

\* The answer of handleCallMsg: errorMessage has a null ID, errorResponse and
\* response copy the ID of the message.
Answer(m, code) ==
    IF IsNotification(m) THEN <<>>
    ELSE <<[id |-> IF HasValidID(m) THEN m.id ELSE NullId, code |-> code]>>

\* handleCallMsg: the code of the answer and the callback run.
HandleCallMsg(services, names, m, allowSubscribe, outcome) ==
    IF IsNotification(m) \/ IsCall(m)
    THEN HandleCall(services, names, m, allowSubscribe, outcome)
    ELSE Failed(InvalidRequest)

=============================================================================
