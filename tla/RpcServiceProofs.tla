-------------------------- MODULE RpcServiceProofs --------------------------
(***************************************************************************)
(* Callbacks are called the way they were declared and requests are         *)
(* answered message by message, for any registered objects, any requests    *)
(* and any registrations while a request is served: ServiceInv of           *)
(* RpcService is inductive.                                                 *)
(***************************************************************************)
EXTENDS RpcService, FiniteSetTheorems, WellFoundedInduction, TLAPS

-----------------------------------------------------------------------------
(* Arguments.                                                               *)

\* The words for blocks stand for block numbers.
LEMMA BlockNumbers ==
    ASSUME NEW v, v.n \in Nat, NEW a \in UnmarshalBlockNumber(v)
    PROVE  \E n \in -2..MaxBlock : a = Num(n)
<1> USE BlockAssumption
<1>1. CASE v.t \in DOMAIN BlockTags
  <2>1. BlockTags[v.t] \in {0, -1, -2}
    BY <1>1 DEF BlockTags, EarliestBlockNumber, LatestBlockNumber, PendingBlockNumber
  <2>2. a = Num(BlockTags[v.t])
    BY <1>1 DEF UnmarshalBlockNumber
  <2>3. QED
    BY <2>1, <2>2
<1>2. CASE v.t \notin DOMAIN BlockTags
  <2>1. a \in DecodeNumber(v)
    BY <1>2 DEF UnmarshalBlockNumber
  <2>2. v.n <= MaxBlock /\ a = Num(v.n)
    BY <2>1 DEF DecodeNumber
  <2>3. QED
    BY <2>2
<1>3. QED
  BY <1>1, <1>2

\* Whatever decodes into a type is a value of it.
LEMMA DecodeFits ==
    ASSUME NEW type, NEW v \in JsonValue, NEW a \in Decode(type, v)
    PROVE  a \in GoValue /\ Fits(type, a)
<1> USE BlockAssumption
<1>0. v.n \in Nat /\ v.t \in JsonStrings \cup {"null", "number", "object"}
  BY DEF JsonValue
<1>1. /\ Nil \in GoValue /\ Nil.num = {} /\ Nil.hash = FALSE
      /\ \A n \in Int : Num(n) \in GoValue /\ Num(n).num = {n} /\ Num(n).hash = FALSE
  BY DEF Nil, Num, GoValue
<1>2. CASE type.ptr /\ v.t = "null"
  <2>1. a = Nil
    BY <1>2, Zenon DEF Decode
  <2>2. Fits(type, a)
    BY <1>2, <2>1, Zenon DEF Fits
  <2>3. QED
    BY <1>1, <2>1, <2>2
<1>3. CASE ~(type.ptr /\ v.t = "null") /\ type.base = "BlockNumber"
  <2>1. PICK n \in -2..MaxBlock : a = Num(n)
    BY <1>0, <1>3, BlockNumbers DEF Decode
  <2>2. QED
    BY <1>1, <1>3, <2>1 DEF Fits
<1>4. CASE ~(type.ptr /\ v.t = "null") /\ type.base = "BlockNumberOrHash"
  <2>1. a \in UnmarshalBlockNumberOrHash(v)
    BY <1>4 DEF Decode
  <2>2. /\ a \in GoValue /\ ~(a.num # {} /\ a.hash) /\ a.num \subseteq -2..MaxBlock
    <3>1. CASE v.t = "null"
      <4>1. a = Nil
        BY <2>1, <3>1 DEF UnmarshalBlockNumberOrHash, JsonStrings
      <4>2. QED
        BY <1>1, <4>1
    <3>2. CASE v.t = "object"
      <4>1. UnmarshalBlockNumberOrHash(v) =
               IF v.n = 3 THEN {} ELSE {[num |-> IF v.n = 1 THEN {0} ELSE {}, hash |-> v.n = 2]}
        BY <3>2 DEF UnmarshalBlockNumberOrHash, JsonStrings
      <4>2. a = [num |-> IF v.n = 1 THEN {0} ELSE {}, hash |-> v.n = 2]
        BY <2>1, <4>1, Zenon
      <4>3. /\ a.num = IF v.n = 1 THEN {0} ELSE {}
            /\ a.hash = (v.n = 2)
        BY <4>2, Zenon
      <4>4. a \in GoValue
        <5>1. (IF v.n = 1 THEN {0} ELSE {}) \in SUBSET Int
          OBVIOUS
        <5>2. (v.n = 2) \in BOOLEAN
          BY Zenon
        <5>3. QED
          BY <4>2, <5>1, <5>2, Zenon DEF GoValue
      <4>5. CASE v.n = 1
        <5>1. a.num = {0} /\ v.n # 2
          BY <4>3, <4>5
        <5>2. ~a.hash
          BY <4>3, <5>1, Zenon
        <5>3. QED
          BY <4>4, <5>1, <5>2
      <4>6. CASE v.n # 1
        <5>1. a.num = {}
          BY <4>3, <4>6
        <5>2. QED
          BY <4>4, <5>1
      <4>7. QED
        BY <4>5, <4>6
    <3>3. CASE v.t = "hash"
      <4>1. a = [num |-> {}, hash |-> TRUE]
        BY <2>1, <3>3 DEF UnmarshalBlockNumberOrHash
      <4>2. QED
        BY <4>1 DEF GoValue
    <3>4. CASE v.t \in JsonStrings \ {"hash"}
      <4>1. a \in UnmarshalBlockNumber(v)
        BY <2>1, <3>4 DEF UnmarshalBlockNumberOrHash, JsonStrings
      <4>2. PICK n \in -2..MaxBlock : a = Num(n)
        BY <1>0, <4>1, BlockNumbers
      <4>3. QED
        BY <1>1, <4>2
    <3>5. CASE v.t = "number"
      BY <2>1, <3>5 DEF UnmarshalBlockNumberOrHash, JsonStrings
    <3>6. QED
      BY <1>0, <3>1, <3>2, <3>3, <3>4, <3>5
  <2>3. QED
    BY <1>4, <2>2 DEF Fits
<1>5. CASE ~(type.ptr /\ v.t = "null") /\ type.base \in {"int", "string"}
  <2>1. a \in UnmarshalBasic(type.base, v)
    BY <1>5 DEF Decode
  <2>2. a \in {Num(0), Num(v.n)} \/ (type.base = "string" /\ a = Nil)
    BY <1>5, <2>1 DEF UnmarshalBasic
  <2>3. QED
    BY <1>0, <1>1, <1>5, <2>2 DEF Fits
<1>6. QED
  BY <1>2, <1>3, <1>4, <1>5 DEF Decode

\* Every argument list that is accepted has a fitting argument for every parameter.
LEMMA ArgumentsFit ==
    ASSUME NEW params, params.vals \in Seq(JsonValue), NEW types \in Seq(GoType),
           NEW args \in ParsePositionalArguments(params, types)
    PROVE  /\ args \in Seq(GoValue) /\ Len(args) = Len(types)
           /\ \A i \in 1..Len(types) : Fits(types[i], args[i])
<1> DEFINE n == Len(params.vals)
<1>1. /\ n <= Len(types) /\ n \in Nat /\ Len(types) \in Nat /\ DOMAIN types = 1..Len(types)
      /\ \A i \in 1..n : Decode(types[i], params.vals[i]) # {}
      /\ \A i \in n + 1 .. Len(types) : types[i].ptr
      /\ args = [i \in DOMAIN types |->
                   IF i <= n THEN CHOOSE a \in Decode(types[i], params.vals[i]) : TRUE ELSE Nil]
  BY DEF ParsePositionalArguments
<1>2. ASSUME NEW i \in 1..Len(types) PROVE args[i] \in GoValue /\ Fits(types[i], args[i])
  <2>1. CASE i <= n
    <3>1. params.vals[i] \in JsonValue /\ i \in 1..n
      BY <1>1, <2>1
    <3>2. args[i] \in Decode(types[i], params.vals[i])
      BY <1>1, <2>1, <3>1
    <3>3. QED
      BY <3>1, <3>2, DecodeFits
  <2>2. CASE i > n
    <3>1. args[i] = Nil /\ types[i].ptr
      BY <1>1, <2>2
    <3>2. Nil \in GoValue
      BY DEF Nil, GoValue
    <3>3. QED
      BY <3>1, <3>2 DEF Fits
  <2>3. QED
    BY <1>1, <2>1, <2>2
<1>3. args \in Seq(GoValue)
  <2>1. args \in [1..Len(types) -> GoValue] /\ Len(types) \in Nat
    BY <1>1, <1>2
  <2>2. \A S, l : l \in Nat => \A f \in [1..l -> S] : f \in Seq(S)
    OBVIOUS
  <2>3. QED
    BY <2>1, <2>2
<1>4. Len(args) = Len(types)
  BY <1>1, <1>3
<1>5. QED
  BY <1>2, <1>3, <1>4

-----------------------------------------------------------------------------
(* The registry.                                                            *)

\* A callback takes its arguments after the context, if it takes one.
CbRight(cb) ==
    /\ cb.ins \in Seq(GoType) /\ cb.argTypes \in Seq(GoType)
    /\ Len(cb.argTypes) + (IF cb.hasCtx THEN 1 ELSE 0) = Len(cb.ins)

\* The objects of the Apis and those registered later have Go methods.
LEMMA MethodsRight ==
    /\ AllMethods \subseteq GoMethod
    /\ \A i \in DOMAIN Apis : Apis[i].object \subseteq AllMethods
    /\ \A o \in Objects : o.object \subseteq AllMethods
<1>1. \A i \in DOMAIN Apis : Apis[i].object \subseteq GoMethod
  <2> DEFINE Api == [ns : STRING, object : SUBSET GoMethod]
  <2>1. \A i \in DOMAIN Apis : Apis[i] \in Api
    <3>1. Apis \in Seq(Api)
      BY ApisAssumption
    <3> HIDE DEF Api
    <3>2. QED
      BY <3>1
  <2>2. QED
    BY <2>1
<1>2. \A o \in Objects : o.object \subseteq GoMethod
  BY ApisAssumption
<1>3. QED
  BY <1>1, <1>2 DEF AllMethods

\* newCallback: the types of the arguments are those of the Go function.
LEMMA CallbackRight ==
    ASSUME NEW cb \in SuitableCallbacks(AllMethods)
    PROVE  CbRight(cb)
<1>1. PICK m \in AllMethods :
         cb = [name |-> FormatName(m.name), ins |-> m.ins, argTypes |-> MakeArgTypes(m),
               hasCtx |-> HasCtx(m), errPos |-> ErrPos(m), isSubscribe |-> IsPubSub(m)]
  BY DEF SuitableCallbacks
<1>2. m.ins \in Seq(GoType)
  BY MethodsRight DEF GoMethod
<1>3. cb.ins = m.ins /\ cb.argTypes = MakeArgTypes(m) /\ cb.hasCtx = HasCtx(m)
  BY <1>1, Zenon
<1>4. CASE HasCtx(m)
  <2>1. m.ins # <<>>
    BY <1>4 DEF HasCtx
  <2>2. MakeArgTypes(m) = Tail(m.ins) /\ cb.hasCtx
    BY <1>3, <1>4 DEF MakeArgTypes
  <2>3. Tail(m.ins) \in Seq(GoType) /\ Len(Tail(m.ins)) + 1 = Len(m.ins)
    BY <1>2, <2>1
  <2>4. QED
    BY <1>2, <1>3, <2>2, <2>3 DEF CbRight
<1>5. CASE ~HasCtx(m)
  <2>1. MakeArgTypes(m) = m.ins /\ ~cb.hasCtx
    BY <1>3, <1>5 DEF MakeArgTypes
  <2>2. Len(m.ins) \in Nat
    BY <1>2
  <2>3. QED
    BY <1>2, <1>3, <2>1, <2>2 DEF CbRight
<1>6. QED
  BY <1>4, <1>5

\* registerName adds callbacks of the object and keeps a callback of every name.
LEMMA RegisterNameRight ==
    ASSUME NEW S, NEW o \in [ns : STRING, object : SUBSET AllMethods]
    PROVE  /\ S \subseteq Services => RegisterName(S, o.ns, o.object) \subseteq Services
           /\ \A e \in S : \E f \in RegisterName(S, o.ns, o.object) :
                 f.ns = e.ns /\ f.cb.name = e.cb.name /\ f.cb.isSubscribe = e.cb.isSubscribe
<1> DEFINE cbs == SuitableCallbacks(o.object)
           replaced(e) == e.ns = o.ns /\ \E c \in cbs : c.name = e.cb.name /\ c.isSubscribe = e.cb.isSubscribe
           new == {[ns |-> o.ns, cb |-> c] : c \in cbs}
<1>1. cbs \subseteq SuitableCallbacks(AllMethods)
  BY DEF SuitableCallbacks
<1>2. RegisterName(S, o.ns, o.object) =
         IF o.ns = "" \/ cbs = {} THEN S ELSE {e \in S : ~replaced(e)} \cup new
  BY DEF RegisterName
<1>3. ASSUME o.ns # "" PROVE new \subseteq Services
  <2>1. ASSUME NEW c \in cbs PROVE [ns |-> o.ns, cb |-> c] \in Services
    <3> DEFINE SC == SuitableCallbacks(AllMethods)
               r == [ns |-> o.ns, cb |-> c]
    <3>1. o.ns \in STRING /\ c \in SC
      BY <1>1
    <3> HIDE DEF SC
    <3>2. r \in [ns : STRING, cb : SC] /\ r.ns # ""
      BY <1>3, <3>1
    <3>3. QED
      BY <3>2 DEF Services, SC
  <2>2. QED
    BY <2>1
<1>4. ASSUME NEW e \in S, replaced(e)
      PROVE  \E f \in new : f.ns = e.ns /\ f.cb.name = e.cb.name /\ f.cb.isSubscribe = e.cb.isSubscribe
  <2>1. PICK c \in cbs : c.name = e.cb.name /\ c.isSubscribe = e.cb.isSubscribe
    BY <1>4
  <2>2. [ns |-> o.ns, cb |-> c] \in new
    OBVIOUS
  <2>3. QED
    BY <1>4, <2>1, <2>2
<1> HIDE DEF cbs, new, replaced
<1>5. S \subseteq Services => RegisterName(S, o.ns, o.object) \subseteq Services
  BY <1>2, <1>3
<1>6. \A e \in S : \E f \in RegisterName(S, o.ns, o.object) :
         f.ns = e.ns /\ f.cb.name = e.cb.name /\ f.cb.isSubscribe = e.cb.isSubscribe
  BY <1>2, <1>4
<1>7. QED
  BY <1>5, <1>6

\* A method or subscription once registered stays available.
THEOREM RegistrationsStay == Spec => StaysRegistered
<1> DEFINE Stays == \A e \in services : \E f \in services' :
                       f.ns = e.ns /\ f.cb.name = e.cb.name /\ f.cb.isSubscribe = e.cb.isSubscribe
<1>1. [Next]_vars => [Stays]_vars
  <2> SUFFICES ASSUME Next PROVE Stays
    OBVIOUS
  <2>1. ASSUME NEW o \in Objects, Register(o) PROVE Stays
    <3>1. o \in [ns : STRING, object : SUBSET AllMethods]
      BY ApisAssumption, MethodsRight
    <3>2. services' = RegisterName(services, o.ns, o.object)
      BY <2>1 DEF Register
    <3>3. QED
      BY <3>1, <3>2, RegisterNameRight
  <2>2. CASE services' = services
    BY <2>2
  <2>3. QED
    BY <2>1, <2>2 DEF Next, Receive, ServeSingleRequest, StopRun, HandleNext, WriteAnswers
<1>2. QED
  BY <1>1, PTL DEF Spec, StaysRegistered

\* A set of numbers that is not empty has a least element.
LEMMA LeastNat ==
    ASSUME NEW S, S \subseteq Nat, S # {}
    PROVE  \E x \in S : \A y \in S : x <= y
<1> DEFINE R == {ss \in Nat \X Nat : ss[1] < ss[2]}
<1>1. IsWellFoundedOn(R, Nat)
  BY NatLessThanWellFounded DEF OpToRel
<1>2. PICK x \in S : \A y \in S : ~(<<y, x>> \in R)
  BY <1>1, WFMin
<1>3. \A y \in S : ~(y < x)
  BY <1>2
<1>4. QED
  BY <1>3

\* The loop that registers the apis of a new server, and what it leaves.
LEMMA NewServicesRight == NewServices \subseteq Services
<1> DEFINE N == Len(Apis)
           Step(f, k) == IF k = 0 THEN {} ELSE RegisterName(f[k - 1], Apis[k].ns, Apis[k].object)
           P(f, n) == f = [k \in 0..n |-> Step(f, k)]
           h == CHOOSE f : P(f, N)
<1>1. /\ N \in Nat /\ DOMAIN Apis = 1..N
      /\ \A i \in 1..N : Apis[i] \in [ns : STRING, object : SUBSET AllMethods]
  <2> DEFINE Api == [ns : STRING, object : SUBSET GoMethod]
  <2>1. Apis \in Seq(Api)
    BY ApisAssumption
  <2>2. N \in Nat /\ DOMAIN Apis = 1..N /\ \A i \in 1..N : Apis[i] \in Api
    <3> HIDE DEF Api
    <3>1. QED
      BY <2>1
  <2>3. QED
    BY <2>2, MethodsRight
<1>2. NewServices = h[N]
  BY DEF NewServices
<1>3. \A n \in Nat : \E f : P(f, n)
  <2> DEFINE Bad == {n \in Nat : ~\E f : P(f, n)}
  <2>1. SUFFICES ASSUME Bad # {} PROVE FALSE
    OBVIOUS
  <2>2. PICK n \in Bad : \A y \in Bad : n <= y
    BY <2>1, LeastNat
  <2>3. CASE n = 0
    <3> DEFINE g == [k \in 0..0 |-> {}]
    <3>1. P(g, 0)
      OBVIOUS
    <3>2. QED
      BY <2>2, <2>3, <3>1
  <2>4. CASE n # 0
    <3>1. n \in Nat /\ n - 1 \in Nat /\ n - 1 \notin Bad
      <4>1. n \in Nat
        OBVIOUS
      <4> HIDE DEF Bad
      <4>2. QED
        BY <2>2, <2>4, <4>1
    <3>2. PICK f : P(f, n - 1)
      BY <3>1
    <3> DEFINE last == RegisterName(f[n - 1], Apis[n].ns, Apis[n].object)
               g == [k \in 0..n |-> IF k = n THEN last ELSE f[k]]
    <3>3. \A k \in 0..n - 1 : f[k] = Step(f, k)
      BY <3>2
    <3>4. \A k \in 0..n : g[k] = Step(g, k)
      <4> SUFFICES ASSUME NEW k \in 0..n PROVE g[k] = Step(g, k)
        OBVIOUS
      <4>1. CASE k = n
        <5>1. g[n] = last /\ g[n - 1] = f[n - 1]
          BY <3>1
        <5>2. QED
          BY <2>4, <4>1, <5>1
      <4>2. CASE k # n
        <5>1. k \in 0..n - 1 /\ g[k] = f[k] /\ (k # 0 => g[k - 1] = f[k - 1])
          BY <3>1, <4>2
        <5>2. QED
          BY <3>3, <5>1
      <4>3. QED
        BY <4>1, <4>2
    <3>5. P(g, n)
      BY <3>4
    <3>6. QED
      BY <2>2, <3>5
  <2>5. QED
    BY <2>3, <2>4
<1>4. P(h, N)
  BY <1>1, <1>3
<1> HIDE DEF h
<1>5. \A k \in 0..N : h[k] = Step(h, k)
  BY <1>4
<1>6. \A k \in 0..N : h[k] \subseteq Services
  <2> DEFINE Bad == {k \in 0..N : ~(h[k] \subseteq Services)}
  <2>1. SUFFICES ASSUME Bad # {} PROVE FALSE
    OBVIOUS
  <2>2. PICK k \in Bad : \A y \in Bad : k <= y
    <3>1. Bad \subseteq Nat
      BY <1>1
    <3> HIDE DEF Bad
    <3>2. QED
      BY <2>1, <3>1, LeastNat
  <2>3. k # 0
    BY <1>1, <1>5, <2>2
  <2>4. k \in 1..N /\ k - 1 \in 0..N /\ h[k - 1] \subseteq Services
    BY <1>1, <2>2, <2>3
  <2>5. h[k] = RegisterName(h[k - 1], Apis[k].ns, Apis[k].object)
    BY <1>5, <2>3, <2>4
  <2>6. h[k] \subseteq Services
    BY <1>1, <2>4, <2>5, RegisterNameRight
  <2>7. QED
    BY <2>2, <2>6
<1>7. QED
  BY <1>1, <1>2, <1>6

-----------------------------------------------------------------------------
(* Calls.                                                                   *)

\* What NeverMiscalled says of one run of a callback.
RunRight(x, allowed) ==
    /\ x.args \in Seq(GoValue)
    /\ Len(x.args) + (IF x.cb.hasCtx THEN 1 ELSE 0) = Len(x.cb.ins)
    /\ \A i \in DOMAIN x.args : Fits(x.cb.argTypes[i], x.args[i])
    /\ x.notifier = x.cb.isSubscribe
    /\ x.notifier => allowed

\* Only a pub-sub method makes a subscription callback, and the two are told apart.
LEMMA SubscribeFlag ==
    ASSUME NEW cb \in SuitableCallbacks(AllMethods)
    PROVE  cb.isSubscribe \in BOOLEAN
<1>1. PICK m \in AllMethods :
        cb = [name |-> FormatName(m.name), ins |-> m.ins, argTypes |-> MakeArgTypes(m),
              hasCtx |-> HasCtx(m), errPos |-> ErrPos(m), isSubscribe |-> IsPubSub(m)]
  BY Zenon DEF SuitableCallbacks
<1>2. cb.isSubscribe = IsPubSub(m)
  BY <1>1, Zenon
<1>3. IsPubSub(m) \in BOOLEAN
  BY Zenon DEF IsPubSub
<1>4. QED
  BY <1>2, <1>3, Zenon

\* The callback of unsubscribe is as newCallback makes it.
LEMMA UnsubscribeRight == CbRight(UnsubscribeCb) /\ UnsubscribeCb.isSubscribe = FALSE
<1>1. /\ UnsubscribeCb.ins = <<T("ctx"), T("string")>> /\ UnsubscribeCb.argTypes = <<T("string")>>
      /\ UnsubscribeCb.hasCtx = TRUE /\ UnsubscribeCb.isSubscribe = FALSE
  BY Zenon DEF UnsubscribeCb
<1>2. T("ctx") \in GoType /\ T("string") \in GoType
  BY DEF T, GoType
<1> HIDE DEF T, GoType
<1>3. <<T("ctx"), T("string")>> \in Seq(GoType) /\ <<T("string")>> \in Seq(GoType)
  BY <1>2
<1>4. QED
  BY <1>1, <1>3 DEF CbRight

\* A failed call runs nothing, a successful one what it says.
LEMMA RunsOf ==
    /\ \A code : Failed(code).runs = {} /\ Failed(code).code = code
    /\ \A cb, args, n, o : Ran(cb, args, n, o).runs = {[cb |-> cb, args |-> args, notifier |-> n]}
  BY Zenon DEF Failed, Ran

\* A callback run with arguments that were parsed for it.
LEMMA RanRight ==
    ASSUME NEW cb, CbRight(cb), NEW args \in Seq(GoValue), Len(args) = Len(cb.argTypes),
           \A i \in 1..Len(cb.argTypes) : Fits(cb.argTypes[i], args[i]),
           NEW n \in BOOLEAN, cb.isSubscribe = n, NEW allowed, n => allowed,
           NEW x, x = [cb |-> cb, args |-> args, notifier |-> n]
    PROVE  RunRight(x, allowed)
<1>1. x.cb = cb /\ x.args = args /\ x.notifier = n
  BY Zenon
<1>2. DOMAIN args = 1..Len(cb.argTypes)
  OBVIOUS
<1>3. QED
  BY <1>1, <1>2 DEF RunRight, CbRight

\* handleSubscribe runs a subscription callback, with a notifier, where that is allowed.
LEMMA SubscribeRight ==
    ASSUME NEW S, S \subseteq Services, NEW m, m.params.vals \in Seq(JsonValue),
           NEW names, NEW allowed \in BOOLEAN, NEW o, NEW x \in HandleSubscribe(S, names, m, allowed, o).runs
    PROVE  RunRight(x, allowed)
<1> DEFINE word == ParseSubscriptionName(m.params)
           cbs == UNION {Subscription(S, m.ns, names[w]) : w \in word \cap DOMAIN names}
           cb == CHOOSE c \in cbs : TRUE
           args == ParsePositionalArguments(m.params, <<T("string")>> \o cb.argTypes)
           a == CHOOSE y \in args : TRUE
<1>1. /\ allowed /\ cbs # {} /\ args # {}
      /\ HandleSubscribe(S, names, m, allowed, o) = Ran(cb, Tail(a), TRUE, o)
  <2> DEFINE H == HandleSubscribe(S, names, m, allowed, o)
  <2>1. H = CASE ~allowed -> Failed(DefaultError)
              [] allowed /\ word = {} -> Failed(InvalidParams)
              [] allowed /\ word # {} /\ cbs = {} -> Failed(MethodNotFound)
              [] allowed /\ word # {} /\ cbs # {} ->
                   IF args = {} THEN Failed(InvalidParams) ELSE Ran(cb, Tail(a), TRUE, o)
    BY DEF HandleSubscribe
  <2>2. x \in H.runs
    OBVIOUS
  <2>3. \A code : x \notin Failed(code).runs
    BY RunsOf, Zenon
  <2> HIDE DEF H, word, cbs, cb, args, a
  <2>4. \A code : H # Failed(code)
    BY <2>2, <2>3
  <2>5. ~allowed => H = Failed(DefaultError)
    BY <2>1
  <2>6. allowed /\ word = {} => H = Failed(InvalidParams)
    BY <2>1
  <2>7. allowed /\ word # {} /\ cbs = {} => H = Failed(MethodNotFound)
    BY <2>1
  <2>8. allowed /\ word # {} /\ cbs # {} =>
           H = IF args = {} THEN Failed(InvalidParams) ELSE Ran(cb, Tail(a), TRUE, o)
    BY <2>1
  <2>9. QED
    <3>1. allowed
      BY <2>4, <2>5
    <3>2. word # {}
      BY <2>4, <2>6, <3>1, Zenon
    <3>3. cbs # {}
      BY <2>4, <2>7, <3>1, <3>2, Zenon
    <3>4. H = IF args = {} THEN Failed(InvalidParams) ELSE Ran(cb, Tail(a), TRUE, o)
      BY <2>8, <3>1, <3>2, <3>3
    <3>5. args # {} /\ H = Ran(cb, Tail(a), TRUE, o)
      BY <2>4, <3>4
    <3>6. QED
      BY <3>1, <3>3, <3>5 DEF H
<1>2. cb \in cbs /\ a \in args
  BY <1>1
<1>3. cb \in SuitableCallbacks(AllMethods) /\ cb.isSubscribe = TRUE
  <2>1. PICK e \in S : cb = e.cb /\ e.cb.isSubscribe
    BY <1>2 DEF Subscription
  <2>2. e.cb \in SuitableCallbacks(AllMethods)
    BY DEF Services
  <2>3. e.cb.isSubscribe \in BOOLEAN
    BY <2>2, SubscribeFlag
  <2>4. QED
    BY <2>1, <2>2, <2>3
<1> HIDE DEF word, cbs, cb
<1>4. CbRight(cb)
  BY <1>3, CallbackRight
<1> DEFINE types == <<T("string")>> \o cb.argTypes
<1>5. /\ types \in Seq(GoType) /\ Len(types) = Len(cb.argTypes) + 1
      /\ \A i \in 1..Len(cb.argTypes) : types[i + 1] = cb.argTypes[i]
  <2>1. T("string") \in GoType
    BY DEF T, GoType
  <2>2. cb.argTypes \in Seq(GoType)
    BY <1>4 DEF CbRight
  <2> HIDE DEF GoType, T
  <2>3. QED
    BY <2>1, <2>2
<1>6. a \in ParsePositionalArguments(m.params, types)
  BY <1>2
<1> HIDE DEF types, args, a
<1>7. /\ a \in Seq(GoValue) /\ Len(a) = Len(types)
      /\ \A i \in 1..Len(types) : Fits(types[i], a[i])
  BY <1>5, <1>6, ArgumentsFit
<1>8. Len(cb.argTypes) \in Nat
  BY <1>4 DEF CbRight
<1>9. /\ Tail(a) \in Seq(GoValue) /\ Len(Tail(a)) = Len(cb.argTypes)
      /\ \A i \in 1..Len(cb.argTypes) : Tail(a)[i] = a[i + 1]
  BY <1>5, <1>7, <1>8
<1>10. \A i \in 1..Len(cb.argTypes) : Fits(cb.argTypes[i], Tail(a)[i])
  BY <1>5, <1>7, <1>8, <1>9
<1>11. x = [cb |-> cb, args |-> Tail(a), notifier |-> TRUE]
  <2>1. Ran(cb, Tail(a), TRUE, o).runs = {[cb |-> cb, args |-> Tail(a), notifier |-> TRUE]}
    BY Zenon DEF Ran
  <2>2. x \in Ran(cb, Tail(a), TRUE, o).runs
    BY <1>1, Zenon
  <2>3. QED
    BY <2>1, <2>2, Zenon
<1>12. QED
  BY <1>1, <1>3, <1>4, <1>9, <1>10, <1>11, RanRight

\* handleCall and handleCallMsg run callbacks only as they were declared.
LEMMA CallRight ==
    ASSUME NEW S, S \subseteq Services, NEW m, m.params.vals \in Seq(JsonValue),
           NEW names, NEW allowed \in BOOLEAN, NEW o, NEW x \in HandleCallMsg(S, names, m, allowed, o).runs
    PROVE  RunRight(x, allowed)
<1> DEFINE cbs == CASE m.kind = "unsubscribe" -> {UnsubscribeCb}
                    [] m.kind = "bare" -> {}
                    [] OTHER -> Callback(S, m.ns, m.name)
           cb == CHOOSE c \in cbs : TRUE
           args == ParsePositionalArguments(m.params, cb.argTypes)
           a == CHOOSE y \in args : TRUE
           H == HandleCall(S, names, m, allowed, o)
<1>1. x \in H.runs
  BY RunsOf DEF HandleCallMsg
<1>2. H = CASE m.kind = "subscribe" -> HandleSubscribe(S, names, m, allowed, o)
            [] m.kind # "subscribe" /\ cbs = {} -> Failed(MethodNotFound)
            [] m.kind # "subscribe" /\ cbs # {} ->
                 IF args = {} THEN Failed(InvalidParams) ELSE Ran(cb, a, FALSE, o)
  BY DEF HandleCall
<1>3. CASE m.kind = "subscribe"
  <2>1. H = HandleSubscribe(S, names, m, allowed, o)
    <3> HIDE DEF H, cbs, cb, args, a
    <3>1. QED
      BY <1>2, <1>3
  <2>2. QED
    BY <1>1, <2>1, SubscribeRight
<1>4. CASE m.kind # "subscribe"
  <2>1. cbs # {} /\ args # {} /\ H = Ran(cb, a, FALSE, o)
    <3> HIDE DEF H, cbs, cb, args, a
    <3>1. QED
      BY <1>1, <1>2, <1>4, RunsOf
  <2>2. cb \in cbs /\ a \in args
    BY <2>1
  <2>3. CbRight(cb) /\ cb.isSubscribe = FALSE
    <3>1. CASE cb = UnsubscribeCb
      BY <3>1, UnsubscribeRight
    <3>2. CASE cb \in Callback(S, m.ns, m.name)
      <4> HIDE DEF cb
      <4>1. PICK e \in S : cb = e.cb /\ ~e.cb.isSubscribe
        BY <3>2 DEF Callback
      <4>2. e.cb \in SuitableCallbacks(AllMethods)
        BY DEF Services
      <4>3. e.cb.isSubscribe \in BOOLEAN
        BY <4>2, SubscribeFlag
      <4>4. QED
        BY <4>1, <4>2, <4>3, CallbackRight
    <3>3. cbs = {UnsubscribeCb} \/ cbs = {} \/ cbs = Callback(S, m.ns, m.name)
      OBVIOUS
    <3>4. QED
      BY <2>2, <3>1, <3>2, <3>3
  <2> HIDE DEF cbs, cb
  <2>4. cb.argTypes \in Seq(GoType)
    BY <2>3 DEF CbRight
  <2>5. a \in ParsePositionalArguments(m.params, cb.argTypes)
    BY <2>2
  <2> HIDE DEF args, a
  <2>6. /\ a \in Seq(GoValue) /\ Len(a) = Len(cb.argTypes)
        /\ \A i \in 1..Len(cb.argTypes) : Fits(cb.argTypes[i], a[i])
    BY <2>4, <2>5, ArgumentsFit
  <2>7. x = [cb |-> cb, args |-> a, notifier |-> FALSE]
    <3>1. Ran(cb, a, FALSE, o).runs = {[cb |-> cb, args |-> a, notifier |-> FALSE]}
      BY Zenon DEF Ran
    <3>2. x \in Ran(cb, a, FALSE, o).runs
      BY <1>1, <2>1, Zenon
    <3>3. QED
      BY <3>1, <3>2, Zenon
  <2>8. QED
    BY <2>3, <2>6, <2>7, RanRight
<1>5. QED
  BY <1>3, <1>4

-----------------------------------------------------------------------------
(* Answers.                                                                 *)

\* The messages that are due an answer are finitely many; an earlier one has an
\* earlier place among the answers.
LEMMA DueFinite ==
    ASSUME NEW raw, NEW E, raw.elems \in Seq(E), NEW n \in Nat
    PROVE  /\ IsFiniteSet(DueBefore(raw, n)) /\ Cardinality(DueBefore(raw, n)) \in Nat
           /\ \A i \in DueBefore(raw, n) :
                 /\ Cardinality(DueBefore(raw, i)) \in Nat
                 /\ Cardinality(DueBefore(raw, i)) < Cardinality(DueBefore(raw, n))
<1>1. IsFiniteSet(1..Len(raw.elems)) /\ DOMAIN raw.elems = 1..Len(raw.elems)
  BY FS_Interval
<1>2. \A k : IsFiniteSet(DueBefore(raw, k)) /\ Cardinality(DueBefore(raw, k)) \in Nat
  <2>1. TAKE k
  <2>2. DueBefore(raw, k) \subseteq 1..Len(raw.elems)
    BY <1>1 DEF DueBefore
  <2>3. QED
    BY <1>1, <2>2, FS_Subset, FS_CardinalityType
<1>3. ASSUME NEW i \in DueBefore(raw, n)
      PROVE  Cardinality(DueBefore(raw, i)) < Cardinality(DueBefore(raw, n))
  <2>1. i \in Nat /\ i < n
    BY <1>1 DEF DueBefore
  <2>2. i \notin DueBefore(raw, i) /\ DueBefore(raw, i) \subseteq DueBefore(raw, n)
    BY <1>1, <2>1 DEF DueBefore
  <2>3. DueBefore(raw, i) # DueBefore(raw, n)
    BY <1>3, <2>2
  <2>4. QED
    BY <1>2, <2>2, <2>3, FS_Subset
<1>4. QED
  BY <1>2, <1>3

\* What a message is answered, if it is due an answer.
RightAnswer(m, a) ==
    /\ a.id = IF m.id \in {NoId, BadId} THEN NullId ELSE m.id
    /\ m.kind = "none" => a.code = InvalidRequest

\* One message is handled: the answers before it stay in their places.
LEMMA AnswerOne ==
    ASSUME NEW raw, NEW E, raw.elems \in Seq(E), NEW k \in DOMAIN raw.elems,
           NEW B, NEW answers \in Seq(B), NEW new, AllAnswered(raw, answers, k),
           \/ /\ Due(ReadBatch(raw)[k])
              /\ \E a : RightAnswer(ReadBatch(raw)[k], a) /\ new = answers \o <<a>>
           \/ ~Due(ReadBatch(raw)[k]) /\ new = answers
    PROVE  AllAnswered(raw, new, k + 1)
<1>1. k \in Nat /\ k + 1 \in Nat /\ DOMAIN raw.elems = 1..Len(raw.elems)
  OBVIOUS
<1> DEFINE D == DueBefore(raw, k)
<1>2. /\ IsFiniteSet(D) /\ Cardinality(D) \in Nat /\ Len(answers) = Cardinality(D)
      /\ \A i \in D : /\ Cardinality(DueBefore(raw, i)) \in Nat
                      /\ Cardinality(DueBefore(raw, i)) < Cardinality(D)
                      /\ AnsweredRight(raw, answers, i)
  BY <1>1, DueFinite DEF AllAnswered
<1>3. CASE ~Due(ReadBatch(raw)[k])
  <2>1. DueBefore(raw, k + 1) = D
    BY <1>1, <1>3 DEF DueBefore
  <2>2. QED
    BY <1>3, <2>1 DEF AllAnswered
<1>4. CASE Due(ReadBatch(raw)[k])
  <2>1. PICK a : RightAnswer(ReadBatch(raw)[k], a) /\ new = answers \o <<a>>
    BY <1>4
  <2>2. DueBefore(raw, k + 1) = D \cup {k} /\ k \notin D
    BY <1>1, <1>4 DEF DueBefore
  <2> HIDE DEF D
  <2>3. Cardinality(DueBefore(raw, k + 1)) = Cardinality(D) + 1
    BY <1>2, <2>2, FS_AddElement
  <2>4. /\ Len(new) = Len(answers) + 1 /\ new[Len(answers) + 1] = a
        /\ \A j \in 1..Len(answers) : new[j] = answers[j]
    <3>1. answers \in Seq(B \cup {a}) /\ <<a>> \in Seq(B \cup {a})
      OBVIOUS
    <3>2. QED
      BY <2>1, <3>1
  <2>5. AnsweredRight(raw, new, k)
    BY <1>2, <2>1, <2>4 DEF AnsweredRight, RightAnswer, D
  <2>6. ASSUME NEW i \in D PROVE AnsweredRight(raw, new, i)
    <3>1. new[Cardinality(DueBefore(raw, i)) + 1] = answers[Cardinality(DueBefore(raw, i)) + 1]
      BY <1>2, <2>4, <2>6
    <3>2. AnsweredRight(raw, answers, i)
      BY <1>2, <2>6
    <3>3. QED
      BY <3>1, <3>2, Zenon DEF AnsweredRight
  <2>7. QED
    BY <1>2, <2>2, <2>3, <2>4, <2>5, <2>6 DEF AllAnswered
<1>5. QED
  BY <1>3, <1>4

\* handleImmediate answers nothing that is due an answer, handleCallMsg answers
\* everything else as it should.
LEMMA AnswerRight ==
    ASSUME NEW S, NEW m, NEW allowed, NEW o
    PROVE  /\ HandleImmediate(m) => ~Due(m)
           /\ LET code == HandleCallMsg(S, Names, m, allowed, o).code
              IN ~HandleImmediate(m) =>
                    \/ ~Due(m) /\ Answer(m, code) = <<>>
                    \/ Due(m) /\ \E a : RightAnswer(m, a) /\ Answer(m, code) = <<a>>
<1> DEFINE code == HandleCallMsg(S, Names, m, allowed, o).code
           a == [id |-> IF HasValidID(m) THEN m.id ELSE NullId, code |-> code]
<1>1. Due(m) <=> ~IsNotification(m) /\ ~IsResponse(m)
  BY Zenon DEF Due, IsNotification, IsResponse, HasValidID
<1>2. HandleImmediate(m) => ~Due(m)
  BY <1>1, Zenon DEF HandleImmediate
<1>3. ASSUME ~HandleImmediate(m), IsNotification(m) PROVE ~Due(m) /\ Answer(m, code) = <<>>
  BY <1>1, <1>3, Zenon DEF Answer
<1>4. ASSUME ~HandleImmediate(m), ~IsNotification(m)
      PROVE  Due(m) /\ RightAnswer(m, a) /\ Answer(m, code) = <<a>>
  <2>1. Due(m)
    BY <1>1, <1>4, Zenon DEF HandleImmediate
  <2>2. Answer(m, code) = <<a>>
    BY <1>4, Zenon DEF Answer
  <2>3. a.id = IF m.id \in {NoId, BadId} THEN NullId ELSE m.id
    BY DEF HasValidID
  <2>4. ASSUME m.kind = "none" PROVE a.code = InvalidRequest
    <3>1. ~IsCall(m)
      BY <2>4, Zenon DEF IsCall
    <3>2. HandleCallMsg(S, Names, m, allowed, o) = Failed(InvalidRequest)
      BY <1>4, <3>1, Zenon DEF HandleCallMsg
    <3>3. Failed(InvalidRequest).code = InvalidRequest
      BY Zenon DEF Failed
    <3>4. a.code = code
      BY Zenon
    <3>5. QED
      BY <3>2, <3>3, <3>4, Zenon
  <2>5. QED
    BY <2>1, <2>2, <2>3, <2>4, Zenon DEF RightAnswer
<1>5. QED
  BY <1>2, <1>3, <1>4, Zenon

-----------------------------------------------------------------------------
(* The inductive invariant.                                                 *)

\* The fields of the idle request.
LEMMA IdleFields ==
    /\ Idle.next = 0 /\ Idle.answers = <<>> /\ Idle.runs = {} /\ Idle.allow = FALSE
    /\ Idle = [raw |-> Idle.raw, outcomes |-> Idle.outcomes, allow |-> Idle.allow,
               next |-> Idle.next, answers |-> Idle.answers, runs |-> Idle.runs]
  BY Zenon DEF Idle

\* A sequence is a sequence of its elements.
LEMMA SelfTyped == ASSUME NEW B, NEW s \in Seq(B) PROVE s \in Seq({s[i] : i \in DOMAIN s})
  OBVIOUS

\* ServiceInv holds when no request is served.
LEMMA IdleRight == req = Idle /\ services \subseteq Services /\ run \in BOOLEAN => ServiceInv
<1> SUFFICES ASSUME req = Idle, services \subseteq Services, run \in BOOLEAN PROVE ServiceInv
  OBVIOUS
<1> USE IdleFields
<1>1. req.answers \in Seq({req.answers[i] : i \in DOMAIN req.answers})
  OBVIOUS
<1>2. Shape
  BY Zenon DEF Shape
<1>3. QED
  BY <1>1, <1>2, Zenon DEF ServiceInv, TypeOK, Answering, NeverMiscalled

\* readBatch answers a request without messages at once and no other.
LEMMA ReceivedRight ==
    ASSUME ServiceInv, NEW r \in Requests, NEW allowed \in BOOLEAN, req' = Received(r, allowed),
           UNCHANGED <<services, run>>
    PROVE  ServiceInv'
<1> DEFINE ans == CASE ~r.raw.syntax -> ErrorMessage(InvalidMessage)
                    [] r.raw.syntax /\ r.raw.elems = <<>> -> ErrorMessage(InvalidRequest)
                    [] OTHER -> <<>>
<1>1. /\ req'.raw = r.raw /\ req'.next = 1 /\ req'.runs = {} /\ req'.allow = allowed
      /\ req'.answers = ans /\ Shape'
  BY Zenon DEF Received, Shape
<1>2. PICK E : r.raw.elems \in Seq(E)
  BY RequestsAssumption
<1>3. CASE r.raw.elems = <<>>
  <2>1. PICK code : ans = ErrorMessage(code)
    BY <1>3
  <2>2. ans = <<[id |-> NullId, code |-> code]>>
    BY <2>1 DEF ErrorMessage
  <2> HIDE DEF ans
  <2>3. ans[1].id = NullId /\ Len(ans) = 1 /\ ans \in Seq({ans[i] : i \in DOMAIN ans})
    <3>1. ans \in Seq({[id |-> NullId, code |-> code]}) /\ Len(ans) = 1
      BY <2>2
    <3>2. ans[1] = [id |-> NullId, code |-> code]
      BY <2>2
    <3>3. ans[1].id = NullId
      BY <3>2
    <3>4. QED
      BY <3>1, <3>3, SelfTyped
  <2>4. TypeOK'
    BY <1>1, <1>2, <2>3 DEF ServiceInv, TypeOK
  <2>5. Answering'
    BY <1>1, <1>3, <2>3 DEF Answering
  <2>6. QED
    BY <1>1, <2>4, <2>5 DEF ServiceInv, NeverMiscalled
<1>4. CASE r.raw.elems # <<>>
  <2>1. ans = <<>>
    BY <1>4, RequestsAssumption
  <2>2. DueBefore(r.raw, 1) = {}
    BY <1>2 DEF DueBefore
  <2>3. AllAnswered(r.raw, ans, 1)
    BY <2>1, <2>2, FS_EmptySet DEF AllAnswered
  <2> HIDE DEF ans
  <2>4. ans \in Seq({ans[i] : i \in DOMAIN ans})
    BY <2>1
  <2>5. TypeOK'
    BY <1>1, <1>2, <2>4 DEF ServiceInv, TypeOK
  <2>6. Answering'
    BY <1>1, <1>4, <2>3 DEF Answering
  <2>7. QED
    BY <1>1, <2>5, <2>6 DEF ServiceInv, NeverMiscalled
<1>5. QED
  BY <1>3, <1>4

\* A message is handled.
LEMMA HandleNextRight == ASSUME ServiceInv, HandleNext PROVE ServiceInv'
<1> DEFINE m == ReadBatch(req.raw)[req.next]
           r == HandleCallMsg(services, Names, m, req.allow, req.outcomes[req.next])
<1>1. PICK q \in Requests : req.raw = q.raw
  BY DEF ServiceInv, TypeOK, HandleNext
<1>2. PICK E : req.raw.elems \in Seq(E)
  BY <1>1, RequestsAssumption
<1>3. req.next \in DOMAIN req.raw.elems /\ req.raw.elems # <<>>
  BY <1>2 DEF ServiceInv, TypeOK, HandleNext, Finished
<1>4. PICK B : req.answers \in Seq(B)
  BY DEF ServiceInv, TypeOK
<1>5. AllAnswered(req.raw, req.answers, req.next)
  BY <1>3 DEF ServiceInv, Answering, HandleNext
<1>6. m.params.vals \in Seq(JsonValue)
  <2>1. CASE req.raw.elems[req.next].json = "message"
    <3>1. m = req.raw.elems[req.next].msg
      BY <1>3, <2>1 DEF ReadBatch
    <3>2. QED
      BY <1>1, <1>3, <2>1, <3>1, RequestsAssumption
  <2>2. CASE req.raw.elems[req.next].json # "message"
    <3>1. m = ZeroMessage
      BY <1>3, <2>2 DEF ReadBatch
    <3>2. ZeroMessage.params = NoParams /\ NoParams.vals = <<>>
      BY Zenon DEF ZeroMessage, NoParams
    <3> HIDE DEF m
    <3>3. QED
      BY <3>1, <3>2
  <2>3. QED
    BY <2>1, <2>2
<1>7. \A x \in r.runs : RunRight(x, req.allow)
  BY <1>6, CallRight DEF ServiceInv, TypeOK
<1>8. /\ req'.raw = req.raw /\ req'.next = req.next + 1 /\ req'.allow = req.allow /\ Shape'
      /\ \/ ~Due(m) /\ req'.answers = req.answers
         \/ Due(m) /\ \E a : RightAnswer(m, a) /\ req'.answers = req.answers \o <<a>>
      /\ req'.runs \subseteq req.runs \cup r.runs
  <2>1. req = [raw |-> req.raw, outcomes |-> req.outcomes, allow |-> req.allow,
               next |-> req.next, answers |-> req.answers, runs |-> req.runs]
    BY DEF ServiceInv, Shape
  <2>2. CASE HandleImmediate(m)
    <3>1. req' = [req EXCEPT !.next = req.next + 1]
      BY <2>2 DEF HandleNext
    <3>2. req' = [raw |-> req.raw, outcomes |-> req.outcomes, allow |-> req.allow,
                  next |-> req.next + 1, answers |-> req.answers, runs |-> req.runs]
      BY <2>1, <3>1
    <3>3. ~Due(m)
      BY <2>2, AnswerRight
    <3> HIDE DEF m, r
    <3>4. QED
      BY <3>2, <3>3, Zenon DEF Shape
  <2>3. CASE ~HandleImmediate(m)
    <3> DEFINE new == req.answers \o Answer(m, r.code)
    <3>1. req' = [req EXCEPT !.next = req.next + 1, !.runs = req.runs \cup r.runs,
                             !.answers = new]
      BY <2>3 DEF HandleNext
    <3>2. \/ ~Due(m) /\ Answer(m, r.code) = <<>>
          \/ Due(m) /\ \E a : RightAnswer(m, a) /\ Answer(m, r.code) = <<a>>
      BY <2>3, AnswerRight
    <3> HIDE DEF m, r
    <3>3. req.answers \o <<>> = req.answers
      BY <1>4
    <3>4. \/ ~Due(m) /\ new = req.answers
          \/ Due(m) /\ \E a : RightAnswer(m, a) /\ new = req.answers \o <<a>>
      BY <3>2, <3>3, Zenon
    <3> HIDE DEF new
    <3>5. req' = [raw |-> req.raw, outcomes |-> req.outcomes, allow |-> req.allow,
                  next |-> req.next + 1, answers |-> new, runs |-> req.runs \cup r.runs]
      BY <2>1, <3>1
    <3>6. QED
      BY <3>4, <3>5, Zenon DEF Shape
  <2>4. QED
    BY <2>2, <2>3
<1>9. AllAnswered(req.raw, req'.answers, req.next + 1)
  <2> HIDE DEF r
  <2>1. QED
    BY <1>2, <1>3, <1>4, <1>5, <1>8, AnswerOne
<1>10. PICK C : req'.answers \in Seq(C)
  <2>1. CASE req'.answers = req.answers
    BY <1>4, <2>1
  <2>2. CASE \E a : req'.answers = req.answers \o <<a>>
    <3>1. PICK a : req'.answers = req.answers \o <<a>>
      BY <2>2
    <3>2. req.answers \in Seq(B \cup {a}) /\ <<a>> \in Seq(B \cup {a})
      BY <1>4
    <3>3. QED
      BY <3>1, <3>2
  <2>3. QED
    BY <1>8, <2>1, <2>2
<1> HIDE DEF m, r
<1>11. \A x \in req'.runs : RunRight(x, req'.allow)
  <2>1. \A x \in req.runs : RunRight(x, req.allow)
    BY DEF ServiceInv, TypeOK, NeverMiscalled, RunRight
  <2>2. QED
    BY <1>7, <1>8, <2>1
<1>12. TypeOK'
  <2>1. req'.next \in 1..Len(req'.raw.elems) + 1
    BY <1>2, <1>3, <1>8
  <2>2. services' = services /\ run' = run
    BY DEF HandleNext
  <2>3. req'.answers \in Seq({req'.answers[i] : i \in DOMAIN req'.answers})
    BY <1>10
  <2>4. \A x \in req'.runs : x.args \in Seq(GoValue)
    BY <1>11 DEF RunRight
  <2>5. QED
    BY <1>1, <1>8, <2>1, <2>2, <2>3, <2>4 DEF ServiceInv, TypeOK
<1>13. Answering'
  BY <1>3, <1>8, <1>9 DEF Answering
<1>14. NeverMiscalled'
  BY <1>11 DEF NeverMiscalled, RunRight
<1>15. QED
  BY <1>8, <1>12, <1>13, <1>14 DEF ServiceInv

\* The registry and the request being served stay as ServiceInv says, whatever is
\* registered while the request is served.
THEOREM ServiceInvariant == Spec => []ServiceInv
<1>1. Init => ServiceInv
  BY NewServicesRight, IdleRight DEF Init
<1>2. ServiceInv /\ [Next]_vars => ServiceInv'
  <2> SUFFICES ASSUME ServiceInv, [Next]_vars PROVE ServiceInv'
    OBVIOUS
  <2>1. ASSUME NEW o \in Objects, Register(o) PROVE ServiceInv'
    <3>1. o \in [ns : STRING, object : SUBSET AllMethods]
      BY ApisAssumption, MethodsRight
    <3>2. services' = RegisterName(services, o.ns, o.object) /\ run' = run /\ req' = req
      BY <2>1 DEF Register
    <3>3. services' \subseteq Services
      BY <3>1, <3>2, RegisterNameRight DEF ServiceInv, TypeOK
    <3>4. QED
      BY <3>2, <3>3 DEF ServiceInv, TypeOK, Shape, Answering, NeverMiscalled
  <2>2. ASSUME NEW r \in Requests, Receive(r) PROVE ServiceInv'
    BY <2>2, ReceivedRight DEF Receive
  <2>3. ASSUME NEW r \in Requests, ServeSingleRequest(r) PROVE ServiceInv'
    BY <2>3, ReceivedRight DEF ServeSingleRequest
  <2>4. CASE StopRun
    BY <2>4 DEF StopRun, ServiceInv, TypeOK, Shape, Answering, NeverMiscalled
  <2>5. CASE HandleNext
    BY <2>5, HandleNextRight
  <2>6. CASE WriteAnswers
    <3>1. req' = Idle /\ services' \subseteq Services /\ run' \in BOOLEAN
      BY <2>6 DEF WriteAnswers, ServiceInv, TypeOK
    <3>2. (req = Idle /\ services \subseteq Services /\ run \in BOOLEAN => ServiceInv)'
      BY IdleRight, PTL
    <3>3. QED
      BY <3>1, <3>2
  <2>7. CASE UNCHANGED vars
    BY <2>7 DEF vars, ServiceInv, TypeOK, Shape, Answering, NeverMiscalled
  <2>8. QED
    BY <2>1, <2>2, <2>3, <2>4, <2>5, <2>6, <2>7 DEF Next
<1>3. QED
  BY <1>1, <1>2, PTL DEF Spec

\* Whatever a peer sends, a callback is only called with the arguments it was declared
\* with, and a subscription callback with a notifier.
THEOREM CalledAsDeclared == Spec => []NeverMiscalled
<1>1. ServiceInv => NeverMiscalled
  BY DEF ServiceInv
<1>2. QED
  BY <1>1, ServiceInvariant, PTL

\* Every message of a request that is due an answer gets one, in order.
THEOREM RequestsAnswered == Spec => []AnswersMatch
<1>1. ServiceInv => AnswersMatch
  <2> SUFFICES ASSUME ServiceInv, Finished PROVE
        IF ~req.raw.syntax \/ (req.raw.batch /\ req.raw.elems = <<>>)
        THEN Len(req.answers) = 1 /\ req.answers[1].id = NullId
        ELSE AllAnswered(req.raw, req.answers, req.next)
    BY DEF AnswersMatch
  <2>1. PICK q \in Requests : req.raw = q.raw
    BY DEF ServiceInv, TypeOK, Finished
  <2>2. ~req.raw.syntax \/ (req.raw.batch /\ req.raw.elems = <<>>) <=> req.raw.elems = <<>>
    BY <2>1, RequestsAssumption
  <2>3. QED
    BY <2>2 DEF ServiceInv, Answering, Finished
<1>2. QED
  BY <1>1, ServiceInvariant, PTL
=============================================================================
