-------------------------- MODULE RpcHandlerProofs --------------------------
(***************************************************************************)
(* serverSubs and the sub.err channels of a handler are safe for any set of  *)
(* messages, any batches of calls in them, any subscriptions and any number  *)
(* of notifications: ServerSubsInv of RpcHandler is inductive.  So is        *)
(* OrderInv, on top of it: what is sent about a subscription is its answer,  *)
(* then its notifications in the order they were published.                  *)
(***************************************************************************)
EXTENDS RpcHandler, TLAPS

\* What CallsAssumption says of the call a goroutine is at.
LEMMA CurCall ==
    ASSUME NEW m \in Msgs, idx[m] \in DOMAIN Calls[m]
    PROVE /\ Cur(m).kind = "subscribe" => Cur(m).sub \in Subs /\ Owner(m, Cur(m).sub)
          /\ Cur(m).kind = "unsubscribe" => Cur(m).sub \in Subs
<1>1. Calls[m] \in Seq(Call)
  BY CallsAssumption
<1>2. Cur(m) \in Call
  BY <1>1 DEF Cur
<1>3. Cur(m).kind \in {"subscribe", "unsubscribe"} => Cur(m).sub \in Subs
  BY <1>2, CallsAssumption DEF Cur, Call
<1>4. QED
  BY <1>3 DEF Owner, Cur

\* idgen makes the message that creates a subscription unique.
LEMMA OneOwner ==
    ASSUME NEW m \in Msgs, NEW k \in Msgs, NEW s, Owner(m, s), Owner(k, s)
    PROVE m = k
  BY IdgenAssumption DEF Owner

\* A position up to Len(Calls[m]) is one of a call.
LEMMA InDomain ==
    ASSUME NEW m \in Msgs, TypeOK, idx[m] <= Len(Calls[m])
    PROVE idx[m] \in DOMAIN Calls[m]
<1>1. Calls[m] \in Seq(Call)
  BY CallsAssumption
<1>2. QED
  BY <1>1 DEF TypeOK

\* handleSubscribe adds one notifier to its message's.
LEMMA NotifiersAppend ==
    ASSUME NEW m \in Msgs, NEW s \in Subs, TypeOK,
           notifiers' = [notifiers EXCEPT ![m] = Append(@, s)]
    PROVE \A k \in Msgs : Notifiers(k)' = IF k = m THEN Notifiers(m) \cup {s} ELSE Notifiers(k)
<1> DEFINE q == notifiers[m]
<1>1. q \in Seq(Subs) /\ Len(q) \in Nat /\ DOMAIN q = 1..Len(q)
  BY DEF TypeOK
<1>2. /\ DOMAIN Append(q, s) = 1..Len(q) + 1
      /\ Append(q, s)[Len(q) + 1] = s
      /\ \A i \in DOMAIN q : Append(q, s)[i] = q[i]
  BY <1>1
<1>3. notifiers'[m] = Append(q, s)
  BY DEF TypeOK
<1>4. ASSUME NEW x PROVE x \in Notifiers(m)' <=> x \in Notifiers(m) \cup {s}
  <2>1. x \in Notifiers(m)' <=> \E i \in 1..Len(q) + 1 : x = Append(q, s)[i]
    BY <1>2, <1>3 DEF Notifiers
  <2>2. x \in Notifiers(m) <=> \E i \in 1..Len(q) : x = q[i]
    BY <1>1 DEF Notifiers
  <2>3. \A i \in 1..Len(q) + 1 : i \in 1..Len(q) \/ i = Len(q) + 1
    BY <1>1
  <2>4. Len(q) + 1 \in 1..Len(q) + 1 /\ 1..Len(q) \subseteq 1..Len(q) + 1
    BY <1>1
  <2>5. QED
    BY <1>1, <1>2, <2>1, <2>2, <2>3, <2>4
<1>5. Notifiers(m)' = Notifiers(m) \cup {s}
  BY <1>4
<1>6. \A k \in Msgs : k # m => Notifiers(k)' = Notifiers(k)
  BY DEF TypeOK, Notifiers
<1>7. QED
  BY <1>5, <1>6

\* The notifiers still to be activated after one is.
LEMMA NotifiersTail ==
    ASSUME NEW m \in Msgs, TypeOK, notifiers[m] # <<>>,
           notifiers' = [notifiers EXCEPT ![m] = Tail(@)]
    PROVE /\ \A k \in Msgs : Notifiers(k)' \subseteq Notifiers(k)
          /\ \A k \in Msgs : k # m => Notifiers(k)' = Notifiers(k)
          /\ Head(notifiers[m]) \in Notifiers(m)
<1> DEFINE q == notifiers[m]
<1>1. q \in Seq(Subs) /\ Len(q) \in Nat \ {0} /\ DOMAIN q = 1..Len(q)
  BY DEF TypeOK
<1>2. Head(q) \in Notifiers(m)
  BY <1>1 DEF Notifiers
<1>3. \A k \in Msgs : k # m => Notifiers(k)' = Notifiers(k)
  BY DEF TypeOK, Notifiers
<1>4. \A i \in DOMAIN Tail(q) : i + 1 \in DOMAIN q /\ Tail(q)[i] = q[i + 1]
  BY <1>1
<1>5. notifiers'[m] = Tail(q)
  BY DEF TypeOK
<1>6. Notifiers(m)' \subseteq Notifiers(m)
  BY <1>4, <1>5 DEF Notifiers
<1>7. QED
  BY <1>2, <1>3, <1>6

\* Every step keeps the variables in their types.
LEMMA TypeStep == TypeOK /\ Owned /\ [Next]_vars => TypeOK'
<1> SUFFICES ASSUME TypeOK, Owned, [Next]_vars PROVE TypeOK'
  OBVIOUS
<1> USE DEF TypeOK, msgVars, notifierVars, pubVars, subVars
<1>1. CASE Stall \/ Drop \/ CloseBegin
  BY <1>1 DEF Stall, Drop, CloseBegin
<1>2. CASE CloseStep
  BY <1>2 DEF CloseStep, CallsDone, CancelServerSubscriptions, CloseCodec
<1>3. ASSUME NEW m \in Msgs, HandleMsg(m) PROVE TypeOK'
  BY <1>3 DEF HandleMsg
<1>4. ASSUME NEW m \in Msgs, CreateSubscription(m) PROVE TypeOK'
  BY <1>4 DEF CreateSubscription
<1>5. ASSUME NEW m \in Msgs, Refuse(m) PROVE TypeOK'
  BY <1>5 DEF Refuse
<1>6. ASSUME NEW m \in Msgs, RunMethod(m) PROVE TypeOK'
  BY <1>6, CurCall, InDomain DEF RunMethod
<1>7. ASSUME NEW m \in Msgs, CallbackReturn(m) PROVE TypeOK'
  <2>1. Cur(m).kind = "subscribe" => Cur(m).sub \in Subs
    BY <1>7, CurCall DEF CallbackReturn, Owned
  <2>2. granted' \in [Msgs -> SUBSET Subs]
    BY <1>7, <2>1 DEF CallbackReturn
  <2>3. mpc' \in [Msgs -> {"idle", "run", "callback", "answer", "activate", "done"}]
    BY <1>7 DEF CallbackReturn
  <2>4. idx' \in [Msgs -> Nat \ {0}]
    BY <1>7 DEF CallbackReturn
  <2>5. QED
    BY <1>7, <2>2, <2>3, <2>4 DEF CallbackReturn
<1>8. ASSUME NEW m \in Msgs, Unsubscribe(m) PROVE TypeOK'
  <2>1. idx' \in [Msgs -> Nat \ {0}]
    BY <1>8 DEF Unsubscribe
  <2>2. serverSubs' \in SUBSET Subs /\ suberr' \in [Subs -> {"open", "closed"}]
    BY <1>8 DEF Unsubscribe
  <2>3. QED
    BY <1>8, <2>1, <2>2 DEF Unsubscribe
<1>9. ASSUME NEW m \in Msgs, AddSubscriptions(m) PROVE TypeOK'
  BY <1>9 DEF AddSubscriptions, Notifiers
<1>10. ASSUME NEW m \in Msgs, WriteAnswer(m) PROVE TypeOK'
  BY <1>10 DEF WriteAnswer
<1>11. ASSUME NEW m \in Msgs, Activate(m) PROVE TypeOK'
  <2> DEFINE s == Head(notifiers[m])
  <2>1. notifiers[m] \in Seq(Subs) /\ notifiers[m] # <<>>
    BY <1>11 DEF Activate
  <2>2. s \in Subs /\ Tail(notifiers[m]) \in Seq(Subs)
    BY <2>1
  <2>3. PICK k \in 0..Len(buffer[s]) :
            /\ wire' = [wire EXCEPT ![s] = @ \o SubSeq(buffer[s], 1, k)]
            /\ activated' = [activated EXCEPT ![s] = (k = Len(buffer[s]))]
    BY <1>11 DEF Activate
  <2> HIDE DEF s
  <2>4. wire[s] \o SubSeq(buffer[s], 1, k) \in Seq(Nat)
    <3>1. buffer[s] \in Seq(Nat) /\ wire[s] \in Seq(Nat)
      BY <2>2
    <3>2. QED
      BY <2>3, <3>1
  <2>5. wire' \in [Subs -> Seq(Nat)]
    BY <2>3, <2>4
  <2>6. activated' \in [Subs -> BOOLEAN]
    BY <2>3
  <2>7. notifiers' \in [Msgs -> Seq(Subs)]
    BY <1>11, <2>2 DEF Activate
  <2>8. QED
    BY <1>11, <2>5, <2>6, <2>7 DEF Activate
<1>12. ASSUME NEW m \in Msgs, EndCall(m) PROVE TypeOK'
  BY <1>12 DEF EndCall
<1>13. ASSUME NEW s \in Subs, NotifyBuffered(s) PROVE TypeOK'
  BY <1>13 DEF NotifyBuffered
<1>14. ASSUME NEW s \in Subs, NotifySent(s) PROVE TypeOK'
  BY <1>14 DEF NotifySent
<1>15. ASSUME NEW s \in Subs, PublisherQuit(s) PROVE TypeOK'
  BY <1>15 DEF PublisherQuit
<1>16. CASE UNCHANGED vars
  BY <1>16 DEF vars
<1>17. QED
  BY <1>1, <1>2, <1>3, <1>4, <1>5, <1>6, <1>7, <1>8, <1>9, <1>10, <1>11, <1>12, <1>13,
     <1>14, <1>15, <1>16 DEF Next, CallProc

\* Nothing else changes a message's notifiers.
LEMMA NotifiersSame ==
    ASSUME notifiers' = notifiers PROVE \A k \in Msgs : Notifiers(k)' = Notifiers(k)
  BY DEF Notifiers

\* A step of the connection, a step of handler.close or a publisher's step.
LEMMA OtherStep ==
    ASSUME ServerSubsInv, Stall \/ Drop \/ CloseBegin \/ CloseStep \/ UNCHANGED vars
                          \/ \E s \in Subs : NotifyBuffered(s) \/ NotifySent(s) \/ PublisherQuit(s)
    PROVE (Owned /\ Granted /\ Registered /\ Quiet /\ ErrClosedOnce)'
<1> USE DEF ServerSubsInv, msgVars, notifierVars, pubVars, subVars, Running, Late
<1>0. UNCHANGED <<msgVars, created, callReturned, activated>>
  BY DEF Stall, Drop, CloseBegin, CloseStep, CallsDone, CancelServerSubscriptions, CloseCodec,
         vars, NotifyBuffered, NotifySent, PublisherQuit
<1>1. \A k \in Msgs : Notifiers(k)' = Notifiers(k)
  BY <1>0, NotifiersSame
<1>2. Owned' /\ Granted'
  BY <1>0, <1>1 DEF Owned, Granted, Cur
<1>3. CASE Stall \/ Drop \/ CloseBegin \/ CallsDone \/ CloseCodec \/ UNCHANGED vars
  <2>1. UNCHANGED <<subVars, pubVars, notifierVars, wire>>
    BY <1>3 DEF Stall, Drop, CloseBegin, CallsDone, CloseCodec, vars
  <2>2. Registered' /\ ErrClosedOnce'
    BY <1>0, <1>1, <2>1 DEF Registered, ErrClosedOnce
  <2>3. Quiet'
    BY <1>3, <2>1 DEF Stall, Drop, CloseBegin, CallsDone, CloseCodec, vars, Quiet
  <2>4. QED
    BY <1>2, <2>2, <2>3
<1>4. CASE CancelServerSubscriptions
  <2>1. Registered'
    BY <1>0, <1>1, <1>4 DEF CancelServerSubscriptions, Registered, TypeOK
  <2>2. Quiet' /\ ErrClosedOnce'
    BY <1>4 DEF CancelServerSubscriptions, Quiet, ErrClosedOnce
  <2>3. QED
    BY <1>2, <2>1, <2>2
<1>5. ASSUME NEW s \in Subs, NotifyBuffered(s) \/ NotifySent(s) \/ PublisherQuit(s)
      PROVE Registered' /\ Quiet' /\ ErrClosedOnce'
  <2>1. Quiet' /\ ErrClosedOnce'
    BY <1>5 DEF NotifyBuffered, NotifySent, PublisherQuit, Quiet, ErrClosedOnce
  <2>2. CASE NotifyBuffered(s)
    BY <1>0, <1>1, <2>1, <2>2 DEF NotifyBuffered, Registered, TypeOK
  <2>3. CASE NotifySent(s)
    BY <1>0, <1>1, <2>1, <2>3 DEF NotifySent, Registered, TypeOK
  <2>4. CASE PublisherQuit(s)
    BY <1>0, <1>1, <2>1, <2>4 DEF PublisherQuit, Registered, TypeOK
  <2>5. QED
    BY <1>5, <2>2, <2>3, <2>4
<1>6. QED
  BY <1>2, <1>3, <1>4, <1>5 DEF CloseStep

\* A call goroutine up to the end of its last call: it owns its subscriptions.
LEMMA CallStep ==
    ASSUME ServerSubsInv, NEW m \in Msgs,
           HandleMsg(m) \/ CreateSubscription(m) \/ Refuse(m) \/ RunMethod(m)
           \/ CallbackReturn(m) \/ Unsubscribe(m)
    PROVE (Owned /\ Granted /\ Registered /\ Quiet /\ ErrClosedOnce)'
<1> USE DEF ServerSubsInv, msgVars, notifierVars, pubVars, subVars, Running, Late
<1>1. CASE HandleMsg(m)
  <2>1. \A k \in Msgs : Notifiers(k)' = Notifiers(k)
    BY <1>1, NotifiersSame DEF HandleMsg
  <2>2. Owned'
    BY <1>1, <2>1 DEF HandleMsg, Owned, TypeOK, Cur
  <2>3. Granted' /\ Registered' /\ Quiet' /\ ErrClosedOnce'
    BY <1>1, <2>1 DEF HandleMsg, Granted, Registered, Quiet, ErrClosedOnce, TypeOK
  <2>4. QED
    BY <2>2, <2>3
<1>2. CASE CreateSubscription(m)
  <2> DEFINE c == Cur(m).sub
  <2>1. \A k \in Msgs : Notifiers(k)' = Notifiers(k)
    BY <1>2, NotifiersSame DEF CreateSubscription
  <2>2. c \in Subs /\ c \in Notifiers(m) /\ Owner(m, c)
    BY <1>2, CurCall DEF CreateSubscription, Owned
  <2>3. ~callReturned[c]
    BY <1>2, <2>2, OneOwner DEF CreateSubscription, Owned
  <2>4. Owned' /\ Granted'
    BY <1>2, <2>1 DEF CreateSubscription, Owned, Granted, TypeOK, Cur
  <2>5. Registered'
    BY <1>2, <2>1, <2>2, <2>3 DEF CreateSubscription, Registered, TypeOK
  <2>6. Quiet' /\ ErrClosedOnce'
    BY <1>2 DEF CreateSubscription, Quiet, ErrClosedOnce
  <2>7. QED
    BY <2>4, <2>5, <2>6
<1>3. CASE Refuse(m)
  <2>1. \A k \in Msgs : Notifiers(k)' = Notifiers(k)
    BY <1>3, NotifiersSame DEF Refuse
  <2>2. Owned'
    BY <1>3, <2>1 DEF Refuse, Owned, TypeOK, Cur
  <2>3. Granted' /\ Registered' /\ Quiet' /\ ErrClosedOnce'
    BY <1>3, <2>1 DEF Refuse, Granted, Registered, Quiet, ErrClosedOnce
  <2>4. QED
    BY <2>2, <2>3
<1>4. CASE RunMethod(m)
  <2>1. idx[m] \in DOMAIN Calls[m]
    BY <1>4, InDomain DEF RunMethod
  <2>2. Cur(m).kind = "subscribe" => Cur(m).sub \in Subs /\ Owner(m, Cur(m).sub)
    BY <2>1, CurCall
  <2>3. /\ \A k \in Msgs : k # m => Notifiers(k)' = Notifiers(k)
        /\ Notifiers(m) \subseteq Notifiers(m)'
        /\ \A s \in Notifiers(m)' : s \in Notifiers(m) \/ (Cur(m).kind = "subscribe" /\ s = Cur(m).sub)
        /\ Cur(m).kind = "subscribe" => Cur(m).sub \in Notifiers(m)'
    <3>1. CASE Cur(m).kind = "subscribe"
      <4>1. notifiers' = [notifiers EXCEPT ![m] = Append(@, Cur(m).sub)]
        BY <1>4, <3>1 DEF RunMethod
      <4>2. \A k \in Msgs :
               Notifiers(k)' = IF k = m THEN Notifiers(m) \cup {Cur(m).sub} ELSE Notifiers(k)
        BY <2>2, <3>1, <4>1, NotifiersAppend
      <4>3. QED
        BY <3>1, <4>2
    <3>2. CASE Cur(m).kind # "subscribe"
      <4>1. notifiers' = notifiers
        BY <1>4, <3>2 DEF RunMethod
      <4>2. \A k \in Msgs : Notifiers(k)' = Notifiers(k)
        BY <4>1, NotifiersSame
      <4>3. QED
        BY <3>2, <4>2
    <3>3. QED
      BY <3>1, <3>2
  <2>4. Owned'
    <3>1. \A k \in Msgs : Cur(k)' = Cur(k) /\ idx'[k] = idx[k]
      BY <1>4 DEF RunMethod, Cur
    <3>2. \A k \in Msgs :
             /\ Late(k)' <=> Late(k)
             /\ mpc'[k] = "callback" => k = m \/ mpc[k] = "callback"
      BY <1>4 DEF RunMethod, TypeOK
    <3>3. callReturned' = callReturned /\ ~Late(m)
      BY <1>4 DEF RunMethod
    <3>4. \A k \in Msgs : \A s \in Notifiers(k)' : Owner(k, s) /\ (Late(k)' => callReturned'[s])
      BY <2>2, <2>3, <3>2, <3>3 DEF Owned
    <3>5. \A s \in Subs : callReturned'[s] => \E k \in Msgs : Owner(k, s) /\ Late(k)'
      BY <3>2, <3>3 DEF Owned
    <3>6. \A k \in Msgs : mpc'[k] = "callback" =>
             /\ idx'[k] \in DOMAIN Calls[k]
             /\ Cur(k)'.kind = "subscribe" => Cur(k)'.sub \in Notifiers(k)'
      BY <2>1, <2>3, <3>1, <3>2 DEF Owned
    <3>7. QED
      BY <3>4, <3>5, <3>6 DEF Owned, Owner
  <2>5. Granted' /\ Registered'
    <3>1. Granted'
      BY <1>4, <2>3 DEF RunMethod, Granted, TypeOK
    <3>2. Registered'
      <4>1. \A k \in Msgs : Notifiers(k) \subseteq Notifiers(k)' /\ (Running(k) => Running(k)')
        BY <1>4, <2>3 DEF RunMethod, TypeOK
      <4>2. QED
        BY <1>4, <4>1 DEF RunMethod, Registered
    <3>3. QED
      BY <3>1, <3>2
  <2>6. Quiet' /\ ErrClosedOnce'
    BY <1>4 DEF RunMethod, Quiet, ErrClosedOnce, TypeOK
  <2>7. QED
    BY <2>4, <2>5, <2>6
<1>5. CASE CallbackReturn(m)
  <2>1. \A k \in Msgs : Notifiers(k)' = Notifiers(k)
    BY <1>5, NotifiersSame DEF CallbackReturn
  <2>2. Owned'
    BY <1>5, <2>1 DEF CallbackReturn, Owned, TypeOK, Cur
  <2>3. Granted'
    <3>1. \A k \in Msgs : \A s \in granted'[k] :
             s \in granted[k] \/ (k = m /\ created[s] /\ s \in Notifiers(m))
      BY <1>5 DEF CallbackReturn, Owned, TypeOK
    <3>2. QED
      BY <1>5, <2>1, <3>1 DEF CallbackReturn, Granted, TypeOK
  <2>4. Registered' /\ Quiet' /\ ErrClosedOnce'
    BY <1>5, <2>1 DEF CallbackReturn, Registered, Quiet, ErrClosedOnce, TypeOK
  <2>5. QED
    BY <2>2, <2>3, <2>4
<1>6. CASE Unsubscribe(m)
  <2>1. \A k \in Msgs : Notifiers(k)' = Notifiers(k)
    BY <1>6, NotifiersSame DEF Unsubscribe
  <2>2. Owned'
    BY <1>6, <2>1 DEF Unsubscribe, Owned, TypeOK, Cur
  <2>3. Granted' /\ Quiet'
    BY <1>6, <2>1 DEF Unsubscribe, Granted, Quiet
  <2>4. Registered' /\ ErrClosedOnce'
    BY <1>6, <2>1 DEF Unsubscribe, Registered, ErrClosedOnce, TypeOK
  <2>5. QED
    BY <2>2, <2>3, <2>4
<1>7. QED
  BY <1>1, <1>2, <1>3, <1>4, <1>5, <1>6

\* A call goroutine after its last call: it gives its subscriptions away.
LEMMA AnswerStep ==
    ASSUME ServerSubsInv, NEW m \in Msgs,
           AddSubscriptions(m) \/ WriteAnswer(m) \/ Activate(m) \/ EndCall(m)
    PROVE (Owned /\ Granted /\ Registered /\ Quiet /\ ErrClosedOnce)'
<1> USE DEF ServerSubsInv, msgVars, notifierVars, pubVars, subVars, Running, Late
<1>1. CASE AddSubscriptions(m)
  <2>1. \A k \in Msgs : Notifiers(k)' = Notifiers(k)
    BY <1>1, NotifiersSame DEF AddSubscriptions
  <2>2. \A s \in Notifiers(m) : s \in Subs /\ Owner(m, s) /\ ~callReturned[s]
    <3>1. \A s \in Notifiers(m) : s \in Subs
      BY DEF Notifiers, TypeOK
    <3>2. QED
      BY <1>1, <3>1, OneOwner DEF AddSubscriptions, Owned
  <2>3. \A s \in Subs : callReturned'[s] <=> callReturned[s] \/ s \in Notifiers(m)
    BY <1>1 DEF AddSubscriptions
  <2>4. \A k \in Msgs : k # m => mpc'[k] = mpc[k]
    BY <1>1 DEF AddSubscriptions, TypeOK
  <2>5. mpc[m] = "run" /\ mpc'[m] = "answer"
    BY <1>1 DEF AddSubscriptions, TypeOK
  <2>6. Owned'
    <3>1. \A k \in Msgs : \A s \in Notifiers(k) : s \in Subs
      BY DEF Notifiers, TypeOK
    <3>2. \A k \in Msgs : \A s \in Notifiers(k)' : Owner(k, s) /\ (Late(k)' => callReturned'[s])
      BY <2>1, <2>2, <2>3, <2>4, <3>1 DEF Owned
    <3>3. \A s \in Subs : callReturned'[s] => \E k \in Msgs : Owner(k, s) /\ Late(k)'
      BY <2>2, <2>3, <2>4, <2>5 DEF Owned
    <3>4. \A k \in Msgs : mpc'[k] = "callback" =>
             /\ idx'[k] \in DOMAIN Calls[k]
             /\ Cur(k)'.kind = "subscribe" => Cur(k)'.sub \in Notifiers(k)'
      BY <1>1, <2>1, <2>4, <2>5 DEF AddSubscriptions, Owned, Cur
    <3>5. QED
      BY <3>2, <3>3, <3>4 DEF Owned, Owner
  <2>7. Granted'
    <3>1. \A k \in Msgs : granted'[k] = granted[k] /\ granted[k] \subseteq Subs
      BY <1>1 DEF AddSubscriptions, TypeOK
    <3>2. created' = created
      BY <1>1 DEF AddSubscriptions
    <3>3. QED
      BY <2>1, <2>3, <2>4, <2>5, <3>1, <3>2 DEF Granted
  <2>8. Registered'
    <3>1. serverSubs' = serverSubs \cup {s \in Notifiers(m) : created[s]}
      BY <1>1 DEF AddSubscriptions
    <3>2. UNCHANGED <<created, activated, buffer, pubVars, suberr, wire>>
      BY <1>1 DEF AddSubscriptions
    <3>3. \A s \in Subs : ~callReturned'[s] =>
             s \notin serverSubs' /\ suberr'[s] = "open" /\ ~activated'[s]
      BY <2>3, <3>1, <3>2 DEF Registered
    <3>4. \A s \in Subs : created'[s] /\ ~callReturned'[s] =>
             \E k \in Msgs : s \in Notifiers(k)' /\ Running(k)'
      BY <2>1, <2>3, <2>4, <3>2 DEF Registered
    <3>5. \A s \in Subs : created'[s] /\ callReturned'[s] =>
             s \in serverSubs' \/ suberr'[s] = "closed"
      BY <2>3, <3>1, <3>2 DEF Registered
    <3>6. QED
      BY <2>3, <3>2, <3>3, <3>4, <3>5 DEF Registered
  <2>9. Quiet' /\ ErrClosedOnce'
    BY <1>1, <2>2 DEF AddSubscriptions, Quiet, ErrClosedOnce, Registered, TypeOK
  <2>10. QED
    BY <2>6, <2>7, <2>8, <2>9
<1>2. CASE WriteAnswer(m)
  <2>1. \A k \in Msgs : Notifiers(k)' = Notifiers(k)
    BY <1>2, NotifiersSame DEF WriteAnswer
  <2>2. Owned' /\ Granted'
    BY <1>2, <2>1 DEF WriteAnswer, Owned, Granted, TypeOK, Cur
  <2>3. \A s \in Subs : wire'[s] # <<>> => created[s] /\ callReturned[s]
    BY <1>2 DEF WriteAnswer, Granted, Registered
  <2>4. Registered'
    <3>1. \A k \in Msgs : Running(k)' <=> Running(k)
      BY <1>2 DEF WriteAnswer, TypeOK
    <3>2. QED
      BY <1>2, <2>1, <2>3, <3>1 DEF WriteAnswer, Registered
  <2>5. Quiet' /\ ErrClosedOnce'
    BY <1>2 DEF WriteAnswer, Quiet, ErrClosedOnce, TypeOK
  <2>6. QED
    BY <2>2, <2>4, <2>5
<1>3. CASE Activate(m)
  <2> DEFINE s == Head(notifiers[m])
  <2>1. /\ \A k \in Msgs : Notifiers(k)' \subseteq Notifiers(k)
        /\ \A k \in Msgs : k # m => Notifiers(k)' = Notifiers(k)
        /\ s \in Notifiers(m)
    BY <1>3, NotifiersTail DEF Activate
  <2>2. s \in Subs /\ callReturned[s] /\ mpc[m] = "activate"
    BY <1>3, <2>1 DEF Activate, Owned, Notifiers, TypeOK
  <2>3. UNCHANGED <<mpc, idx, granted, created, callReturned, buffer, pubVars, subVars, hpc>>
    BY <1>3 DEF Activate
  <2>4. Owned'
    BY <2>1, <2>2, <2>3 DEF Owned, Cur
  <2>5. Granted'
    BY <2>1, <2>2, <2>3 DEF Granted
  <2>6. \A t \in Subs :
           /\ activated'[t] => t = s \/ activated[t]
           /\ wire'[t] # <<>> => wire[t] # <<>> \/ (t = s /\ buffer[s] # <<>>)
    <3>1. PICK k \in 0..Len(buffer[s]) :
             /\ wire' = [wire EXCEPT ![s] = @ \o SubSeq(buffer[s], 1, k)]
             /\ activated' = [activated EXCEPT ![s] = (k = Len(buffer[s]))]
      BY <1>3 DEF Activate
    <3>2. buffer[s] \in Seq(Nat) /\ wire[s] \in Seq(Nat)
      BY <2>2 DEF TypeOK
    <3>3. buffer[s] = <<>> => SubSeq(buffer[s], 1, k) = <<>>
      BY <3>1, <3>2
    <3>4. wire[s] = <<>> /\ buffer[s] = <<>> => wire[s] \o SubSeq(buffer[s], 1, k) = <<>>
      BY <3>2, <3>3
    <3>5. QED
      BY <2>2, <3>1, <3>4 DEF TypeOK
  <2>7. Registered'
    BY <2>1, <2>2, <2>3, <2>6 DEF Registered
  <2>8. Quiet' /\ ErrClosedOnce'
    BY <2>3 DEF Quiet, ErrClosedOnce
  <2>9. QED
    BY <2>4, <2>5, <2>7, <2>8
<1>4. CASE EndCall(m)
  <2>1. \A k \in Msgs : Notifiers(k)' = Notifiers(k)
    BY <1>4, NotifiersSame DEF EndCall
  <2>2. \A k \in Msgs :
           /\ Running(k)' <=> Running(k)
           /\ Late(k)' <=> Late(k)
           /\ mpc'[k] = "callback" <=> mpc[k] = "callback"
    BY <1>4 DEF EndCall, TypeOK
  <2>3. Owned' /\ Granted'
    BY <1>4, <2>1, <2>2 DEF EndCall, Owned, Granted, Cur
  <2>4. Registered' /\ Quiet' /\ ErrClosedOnce'
    <3>1. Registered'
      BY <1>4, <2>1, <2>2 DEF EndCall, Registered
    <3>2. QED
      BY <1>4, <3>1 DEF EndCall, Quiet, ErrClosedOnce, TypeOK
  <2>5. QED
    BY <2>3, <2>4
<1>5. QED
  BY <1>1, <1>2, <1>3, <1>4

\* A fresh connection has no notifiers.
LEMMA NoNotifiers ==
    ASSUME Init
    PROVE  \A m \in Msgs : Notifiers(m) = {}
<1>1. \A m \in Msgs : notifiers[m] = <<>>
  BY DEF Init
<1>2. \A m \in Msgs : \A i \in DOMAIN notifiers[m] : FALSE
  BY <1>1
<1>3. QED
  BY <1>2 DEF Notifiers

\* The bookkeeping of server subscriptions is right at every moment: a subscription
\* belongs to the goroutine that creates it until addSubscriptions, and is then in
\* serverSubs until its err channel is closed.
THEOREM ServerSubsInvariant == Spec => []ServerSubsInv
<1>1. Init => ServerSubsInv
  <2> SUFFICES ASSUME Init PROVE ServerSubsInv
    OBVIOUS
  <2>1. TypeOK
    BY DEF Init, TypeOK
  <2>2. \A m \in Msgs : Notifiers(m) = {}
    BY NoNotifiers
  <2>3. Owned /\ Granted /\ Registered /\ Quiet /\ ErrClosedOnce
    BY <2>2 DEF Init, Owned, Granted, Registered, Quiet, ErrClosedOnce, Late
  <2>4. QED
    BY <2>1, <2>3 DEF ServerSubsInv
<1>2. ServerSubsInv /\ [Next]_vars => ServerSubsInv'
  <2> SUFFICES ASSUME ServerSubsInv, [Next]_vars PROVE ServerSubsInv'
    OBVIOUS
  <2>1. TypeOK'
    BY TypeStep DEF ServerSubsInv
  <2>2. (Owned /\ Granted /\ Registered /\ Quiet /\ ErrClosedOnce)'
    BY OtherStep, CallStep, AnswerStep DEF Next, CallProc
  <2>3. QED
    BY <2>1, <2>2 DEF ServerSubsInv
<1>3. QED
  BY <1>1, <1>2, PTL DEF Spec

\* The variables of a handler keep their types.
THEOREM HandlerTypeCorrect == Spec => []TypeOK
<1>1. ServerSubsInv => TypeOK
  BY DEF ServerSubsInv
<1>2. QED
  BY <1>1, ServerSubsInvariant, PTL

\* Neither unsubscribe nor cancelServerSubscriptions closes a sub.err twice.
THEOREM SubErrClosedOnce == Spec => []ErrClosedOnce
<1>1. ServerSubsInv => ErrClosedOnce
  BY DEF ServerSubsInv
<1>2. QED
  BY <1>1, ServerSubsInvariant, PTL

\* A client that was sent a subscription's ID can always end it.
THEOREM AnsweredUnsubscribable == Spec => []Unsubscribable
<1>1. ServerSubsInv => Unsubscribable
  BY DEF ServerSubsInv, Registered, Unsubscribable, Answered
<1>2. QED
  BY <1>1, ServerSubsInvariant, PTL

\* handler.close leaves no subscription without telling its publisher.
THEOREM CloseLeavesNoOrphan == Spec => []NoOrphanPublisher
<1>1. ServerSubsInv => NoOrphanPublisher
  BY DEF ServerSubsInv, Registered, Quiet, Running, NoOrphanPublisher
<1>2. QED
  BY <1>1, ServerSubsInvariant, PTL

-----------------------------------------------------------------------------
(* The order of what is sent about a subscription.                          *)

\* A step that leaves the traffic of all subscriptions alone.
LEMMA TrafficKept ==
    ASSUME OrderInv, UNCHANGED <<activated, buffer, count, wire>>, conn' = "up" => conn = "up"
    PROVE  Numbered' /\ Ascending' /\ Complete'
  BY DEF OrderInv, Numbered, Ascending, Complete

\* Steps that concern neither calls nor traffic.
LEMMA OrderOther ==
    ASSUME OrderInv,
           UNCHANGED <<msgVars, activated, buffer, count, wire>>, conn' = "up" => conn = "up"
    PROVE  OrderInv'
<1>1. Installed'
  BY DEF OrderInv, Installed, Notifiers, msgVars
<1>2. QED
  BY <1>1, TrafficKept DEF OrderInv

\* The subscription of the call a goroutine is about to run is unheard of.
LEMMA Unheard ==
    ASSUME ServerSubsInv, OrderInv, NEW m \in Msgs, mpc[m] = "run", idx[m] <= Len(Calls[m]),
           Cur(m).kind = "subscribe"
    PROVE  /\ Cur(m).sub \in Subs /\ idx[m] \in DOMAIN Calls[m]
           /\ Cur(m).sub \notin Notifiers(m)
           /\ ~activated[Cur(m).sub] /\ wire[Cur(m).sub] = <<>>
<1> DEFINE s == Cur(m).sub
<1>1. idx[m] \in DOMAIN Calls[m] /\ s \in Subs /\ Owner(m, s)
  BY InDomain, CurCall DEF ServerSubsInv
<1>2. ~callReturned[s]
  <2>1. SUFFICES ASSUME callReturned[s] PROVE FALSE
    OBVIOUS
  <2>2. PICK k \in Msgs : Owner(k, s) /\ Late(k)
    BY <1>1, <2>1 DEF ServerSubsInv, Owned
  <2>3. k = m
    BY <1>1, <2>2, OneOwner
  <2>4. QED
    BY <2>2, <2>3 DEF Late
<1>3. ~activated[s] /\ wire[s] = <<>>
  BY <1>1, <1>2 DEF ServerSubsInv, Registered
<1>4. s \notin Notifiers(m)
  <2>1. SUFFICES ASSUME s \in Notifiers(m) PROVE FALSE
    OBVIOUS
  <2>2. PICK i \in DOMAIN Calls[m] :
            Calls[m][i].kind = "subscribe" /\ Calls[m][i].sub = s /\ i < idx[m]
    BY <2>1 DEF OrderInv, Installed
  <2>3. i = idx[m]
    BY <1>1, <2>2, IdgenAssumption DEF Cur
  <2>4. i \in Nat
    BY CallsAssumption
  <2>5. QED
    BY <2>2, <2>3, <2>4
<1>5. QED
  BY <1>1, <1>3, <1>4

\* A call goroutine that goes on to its next call, or to the next stage, with the
\* notifiers it has.
LEMMA InstalledAdvance ==
    ASSUME ServerSubsInv, OrderInv, NEW m \in Msgs, NEW to,
           mpc' = [mpc EXCEPT ![m] = to], to # "idle",
           idx' = idx \/ idx' = [idx EXCEPT ![m] = @ + 1],
           to = "run" => idx' # idx \/ Notifiers(m) = {},
           mpc[m] # "activate" \/ Notifiers(m) = {},
           UNCHANGED <<notifiers, activated, wire>>,
           \A k \in Msgs : k # m => granted'[k] = granted[k],
           to \notin {"activate", "done"} => granted'[m] \subseteq Notifiers(m)
    PROVE  Installed'
<1>0. TypeOK
  BY DEF ServerSubsInv
<1>1. \A k \in Msgs : Notifiers(k)' = Notifiers(k)
  BY DEF Notifiers
<1>2. /\ \A k \in Msgs : mpc'[k] = IF k = m THEN to ELSE mpc[k]
      /\ \A k \in Msgs : idx[k] \in Nat /\ idx'[k] \in Nat /\ idx'[k] >= idx[k]
      /\ \A k \in Msgs : k # m => idx'[k] = idx[k]
      /\ idx' # idx => idx'[m] = idx[m] + 1
  <2>1. idx \in [Msgs -> Nat \ {0}] /\ mpc \in [Msgs -> {"idle", "run", "callback", "answer", "activate", "done"}]
    BY <1>0 DEF TypeOK
  <2>2. \A k \in Msgs : mpc'[k] = IF k = m THEN to ELSE mpc[k]
    BY <2>1
  <2>3. CASE idx' = idx
    BY <2>1, <2>2, <2>3
  <2>4. CASE idx' = [idx EXCEPT ![m] = @ + 1]
    <3>1. \A k \in Msgs : idx'[k] = IF k = m THEN idx[k] + 1 ELSE idx[k]
      BY <2>1, <2>4
    <3>2. QED
      BY <2>1, <2>2, <3>1
  <2>5. QED
    BY <2>3, <2>4
<1>3. ASSUME NEW k \in Msgs, NEW s \in Notifiers(k)
      PROVE  \E i \in DOMAIN Calls[k] :
                /\ Calls[k][i].kind = "subscribe" /\ Calls[k][i].sub = s
                /\ i <= idx'[k] /\ (mpc'[k] = "run" => i < idx'[k])
  <2>1. PICK i \in DOMAIN Calls[k] :
                /\ Calls[k][i].kind = "subscribe" /\ Calls[k][i].sub = s
                /\ i <= idx[k] /\ (mpc[k] = "run" => i < idx[k])
    BY <1>3 DEF OrderInv, Installed
  <2>2. i \in Nat
    BY CallsAssumption
  <2>3. i <= idx'[k] /\ (mpc'[k] = "run" => i < idx'[k])
    BY <1>2, <1>3, <2>1, <2>2
  <2>4. QED
    BY <2>1, <2>3
<1>4. \A k \in Msgs : \A s \in Notifiers(k) :
          /\ mpc'[k] # "idle" /\ ~activated'[s]
          /\ wire'[s] = <<>> \/ (wire'[s] = <<0>> /\ mpc'[k] = "activate")
  BY <1>2 DEF OrderInv, Installed
<1>5. \A k \in Msgs : \A i, j \in DOMAIN notifiers'[k] : notifiers'[k][i] = notifiers'[k][j] => i = j
  BY DEF OrderInv, Installed
<1>6. \A k \in Msgs : mpc'[k] \notin {"activate", "done"} => granted'[k] \subseteq Notifiers(k)
  BY <1>2 DEF OrderInv, Installed
<1>7. QED
  BY <1>1, <1>3, <1>4, <1>5, <1>6 DEF Installed

\* Handling calls, up to the answer.
LEMMA OrderCall ==
    ASSUME ServerSubsInv, OrderInv, NEW m \in Msgs,
           \/ HandleMsg(m) \/ Refuse(m) \/ RunMethod(m) \/ CallbackReturn(m) \/ Unsubscribe(m)
           \/ AddSubscriptions(m) \/ EndCall(m)
    PROVE  OrderInv'
<1>0. TypeOK
  BY DEF ServerSubsInv
<1>1. UNCHANGED <<activated, buffer, count, wire>> /\ (conn' = "up" => conn = "up")
  BY DEF HandleMsg, Refuse, RunMethod, CallbackReturn, Unsubscribe, AddSubscriptions, EndCall,
         notifierVars, pubVars
<1>2. Numbered' /\ Ascending' /\ Complete'
  BY <1>1, TrafficKept
<1>3. mpc[m] \notin {"activate", "done"} => granted[m] \subseteq Notifiers(m)
  BY DEF OrderInv, Installed
<1>4. CASE HandleMsg(m)
  <2>1. Notifiers(m) = {}
    BY <1>4 DEF HandleMsg, OrderInv, Installed
  <2>2. QED
    BY <1>1, <1>2, <1>3, <1>4, <2>1, InstalledAdvance DEF HandleMsg, OrderInv
<1>5. CASE Refuse(m) \/ Unsubscribe(m)
  <2>1. /\ mpc[m] = "run" /\ mpc' = mpc /\ idx' = [idx EXCEPT ![m] = @ + 1]
        /\ UNCHANGED <<notifiers, granted>>
    BY <1>5 DEF Refuse, Unsubscribe
  <2>2. mpc' = [mpc EXCEPT ![m] = "run"]
    BY <1>0, <2>1 DEF TypeOK
  <2>3. idx' # idx
    BY <1>0, <2>1 DEF TypeOK
  <2>4. QED
    BY <1>1, <1>2, <1>3, <2>1, <2>2, <2>3, InstalledAdvance DEF OrderInv
<1>6. CASE CallbackReturn(m)
  <2>1. /\ mpc[m] = "callback" /\ mpc' = [mpc EXCEPT ![m] = "run"]
        /\ idx' = [idx EXCEPT ![m] = @ + 1] /\ UNCHANGED notifiers
    BY <1>6 DEF CallbackReturn
  <2>2. idx' # idx
    BY <1>0, <2>1 DEF TypeOK
  <2>3. Cur(m).kind = "subscribe" => Cur(m).sub \in Notifiers(m)
    BY <2>1 DEF ServerSubsInv, Owned
  <2>4. /\ \A k \in Msgs : k # m => granted'[k] = granted[k]
        /\ granted'[m] \subseteq Notifiers(m)
    BY <1>0, <1>3, <1>6, <2>1, <2>3 DEF CallbackReturn, TypeOK
  <2>5. QED
    BY <1>1, <1>2, <2>1, <2>2, <2>4, InstalledAdvance DEF OrderInv
<1>7. CASE AddSubscriptions(m)
  BY <1>1, <1>2, <1>3, <1>7, InstalledAdvance DEF AddSubscriptions, OrderInv
<1>8. CASE EndCall(m)
  <2>1. Notifiers(m) = {}
    BY <1>0, <1>8 DEF EndCall, Notifiers, TypeOK
  <2>2. QED
    BY <1>1, <1>2, <1>8, <2>1, InstalledAdvance DEF EndCall, OrderInv
<1>9. CASE RunMethod(m) /\ Cur(m).kind # "subscribe"
  BY <1>1, <1>2, <1>3, <1>9, InstalledAdvance DEF RunMethod, OrderInv
<1>10. CASE RunMethod(m) /\ Cur(m).kind = "subscribe"
  <2> DEFINE s == Cur(m).sub
  <2>1. /\ mpc[m] = "run" /\ idx[m] <= Len(Calls[m])
        /\ mpc' = [mpc EXCEPT ![m] = "callback"] /\ UNCHANGED <<idx, granted>>
        /\ notifiers' = [notifiers EXCEPT ![m] = Append(@, s)]
    BY <1>10 DEF RunMethod
  <2>2. /\ s \in Subs /\ idx[m] \in DOMAIN Calls[m] /\ s \notin Notifiers(m)
        /\ ~activated[s] /\ wire[s] = <<>>
    BY <1>10, <2>1, Unheard
  <2>3. \A k \in Msgs : Notifiers(k)' = IF k = m THEN Notifiers(m) \cup {s} ELSE Notifiers(k)
    BY <1>0, <2>1, <2>2, NotifiersAppend
  <2>4. \A k \in Msgs : mpc'[k] = IF k = m THEN "callback" ELSE mpc[k]
    BY <1>0, <2>1 DEF TypeOK
  <2>5. ASSUME NEW k \in Msgs, NEW x \in Notifiers(k)'
        PROVE  /\ \E i \in DOMAIN Calls[k] :
                     /\ Calls[k][i].kind = "subscribe" /\ Calls[k][i].sub = x
                     /\ i <= idx'[k] /\ (mpc'[k] = "run" => i < idx'[k])
               /\ mpc'[k] # "idle" /\ ~activated'[x]
               /\ wire'[x] = <<>> \/ (wire'[x] = <<0>> /\ mpc'[k] = "activate")
    <3>1. CASE x \in Notifiers(k)
      BY <1>1, <2>1, <2>4, <3>1 DEF OrderInv, Installed
    <3>2. CASE k = m /\ x = s
      <4>1. Calls[m][idx[m]].kind = "subscribe" /\ Calls[m][idx[m]].sub = s /\ idx[m] <= idx'[m]
        BY <1>0, <1>10, <2>1 DEF Cur, TypeOK
      <4>2. QED
        BY <1>1, <2>2, <2>4, <3>2, <4>1
    <3>3. QED
      BY <2>3, <2>5, <3>1, <3>2
  <2>6. \A i, j \in DOMAIN notifiers'[m] : notifiers'[m][i] = notifiers'[m][j] => i = j
    <3> DEFINE q == notifiers[m]
    <3>1. /\ q \in Seq(Subs) /\ notifiers'[m] = Append(q, s)
      BY <1>0, <2>1 DEF TypeOK
    <3>2. /\ DOMAIN q = 1..Len(q) /\ Len(q) \in Nat
          /\ DOMAIN Append(q, s) = 1..Len(q) + 1
          /\ Append(q, s)[Len(q) + 1] = s
          /\ \A i \in 1..Len(q) : Append(q, s)[i] = q[i]
      BY <3>1
    <3>3. \A i \in 1..Len(q) : q[i] # s
      BY <2>2, <3>2 DEF Notifiers
    <3>4. \A i, j \in 1..Len(q) : q[i] = q[j] => i = j
      BY <3>2 DEF OrderInv, Installed
    <3>5. \A i \in 1..Len(q) + 1 : i \in 1..Len(q) \/ i = Len(q) + 1
      BY <3>2
    <3>6. QED
      BY <3>1, <3>2, <3>3, <3>4, <3>5
  <2>7. \A k \in Msgs : k # m => notifiers'[k] = notifiers[k]
    BY <1>0, <2>1 DEF TypeOK
  <2>8. \A k \in Msgs : mpc'[k] \notin {"activate", "done"} => granted'[k] \subseteq Notifiers(k)'
    BY <2>1, <2>3, <2>4 DEF OrderInv, Installed
  <2>9. \A k \in Msgs : \A i, j \in DOMAIN notifiers'[k] : notifiers'[k][i] = notifiers'[k][j] => i = j
    BY <2>6, <2>7 DEF OrderInv, Installed
  <2>10. Installed'
    BY <2>5, <2>8, <2>9 DEF Installed
  <2>11. QED
    BY <1>2, <2>10 DEF OrderInv
<1>11. QED
  BY <1>4, <1>5, <1>6, <1>7, <1>8, <1>9, <1>10

\* The answer is the first thing sent about a subscription whose ID it carries.
LEMMA OrderAnswer ==
    ASSUME ServerSubsInv, OrderInv, NEW m \in Msgs, WriteAnswer(m)
    PROVE  OrderInv'
<1>0. TypeOK
  BY DEF ServerSubsInv
<1>1. /\ mpc[m] = "answer" /\ mpc' = [mpc EXCEPT ![m] = "activate"]
      /\ UNCHANGED <<conn, idx, notifiers, granted, activated, buffer, count>>
  BY DEF WriteAnswer, notifierVars, pubVars
<1>2. \A k \in Msgs : mpc'[k] = IF k = m THEN "activate" ELSE mpc[k]
  BY <1>0, <1>1 DEF TypeOK
<1>3. \A k \in Msgs : Notifiers(k)' = Notifiers(k)
  BY <1>1 DEF Notifiers
<1>4. \A s \in granted[m] : s \in Notifiers(m) /\ s \in Subs /\ wire[s] = <<>> /\ ~activated[s]
  <2>1. granted[m] \subseteq Notifiers(m) /\ granted[m] \subseteq Subs
    BY <1>0, <1>1 DEF OrderInv, Installed, TypeOK
  <2>2. \A s \in Notifiers(m) : wire[s] = <<>> /\ ~activated[s]
    BY <1>1 DEF OrderInv, Installed
  <2>3. QED
    BY <2>1, <2>2
<1>5. \A s \in Subs : wire'[s] = wire[s] \/ (wire'[s] = <<0>> /\ s \in granted[m])
  <2>1. \A s \in Subs : wire'[s] = wire[s] \/ (wire'[s] = Append(wire[s], 0) /\ s \in granted[m])
    BY DEF WriteAnswer
  <2>2. Append(<<>>, 0) = <<0>>
    OBVIOUS
  <2>3. QED
    BY <1>4, <2>1, <2>2
<1>6. \A k \in Msgs : \A s \in Notifiers(k) : s \in Subs /\ (s \in granted[m] => k = m)
  <2> SUFFICES ASSUME NEW k \in Msgs, NEW s \in Notifiers(k)
               PROVE  s \in Subs /\ (s \in granted[m] => k = m)
    OBVIOUS
  <2>1. s \in Subs
    BY <1>0 DEF TypeOK, Notifiers
  <2>2. Owner(k, s) /\ (s \in granted[m] => Owner(m, s))
    BY <1>4 DEF ServerSubsInv, Owned
  <2>3. QED
    BY <2>1, <2>2, OneOwner
<1>7. Installed'
  <2>1. \A k \in Msgs : \A s \in Notifiers(k) :
            wire'[s] = <<>> \/ (wire'[s] = <<0>> /\ mpc'[k] = "activate")
    BY <1>2, <1>5, <1>6 DEF OrderInv, Installed
  <2>2. QED
    BY <1>1, <1>2, <1>3, <2>1 DEF OrderInv, Installed
<1>8. Numbered'
  BY <1>1 DEF OrderInv, Numbered
<1>9. Ascending'
  <2>1. \A s \in Subs : count[s] \in Nat
    BY <1>0 DEF TypeOK
  <2>2. QED
    BY <1>1, <1>5, <2>1 DEF OrderInv, Ascending
<1>10. Complete'
  BY <1>1, <1>4, <1>5 DEF OrderInv, Complete
<1>11. QED
  BY <1>7, <1>8, <1>9, <1>10 DEF OrderInv

\* activate sends the first k buffered notifications after the answer.
LEMMA OrderActivate ==
    ASSUME ServerSubsInv, OrderInv, NEW m \in Msgs, Activate(m)
    PROVE  OrderInv'
<1> DEFINE s == Head(notifiers[m])
           n == Len(buffer[s])
<1>0. TypeOK
  BY DEF ServerSubsInv
<1>1. /\ mpc[m] = "activate" /\ notifiers[m] # <<>>
      /\ notifiers' = [notifiers EXCEPT ![m] = Tail(@)]
      /\ UNCHANGED <<conn, mpc, idx, granted, buffer, count>>
  BY DEF Activate, pubVars
<1>2. PICK k \in 0..n :
          /\ k < n => FALSE \in WriteResults
          /\ wire' = [wire EXCEPT ![s] = @ \o SubSeq(buffer[s], 1, k)]
          /\ activated' = [activated EXCEPT ![s] = (k = n)]
  BY DEF Activate
<1>3. /\ \A l \in Msgs : Notifiers(l)' \subseteq Notifiers(l)
      /\ \A l \in Msgs : l # m => Notifiers(l)' = Notifiers(l)
      /\ s \in Notifiers(m)
  BY <1>0, <1>1, NotifiersTail
<1>4. s \in Subs /\ ~activated[s] /\ (wire[s] = <<>> \/ wire[s] = <<0>>)
  BY <1>0, <1>3 DEF OrderInv, Installed, TypeOK, Notifiers
<1>5. /\ notifiers[m] \in Seq(Subs) /\ notifiers'[m] = Tail(notifiers[m])
      /\ \A i \in DOMAIN notifiers'[m] : /\ i \in Nat /\ i + 1 \in DOMAIN notifiers[m]
                                         /\ notifiers'[m][i] = notifiers[m][i + 1]
      /\ s = notifiers[m][1] /\ 1 \in DOMAIN notifiers[m]
  <2>1. notifiers[m] \in Seq(Subs) /\ notifiers'[m] = Tail(notifiers[m])
    BY <1>0, <1>1 DEF TypeOK
  <2>2. \A q \in Seq(Subs) : q # <<>> =>
            /\ \A i \in DOMAIN Tail(q) : i \in Nat /\ i + 1 \in DOMAIN q /\ Tail(q)[i] = q[i + 1]
            /\ Head(q) = q[1] /\ 1 \in DOMAIN q
    OBVIOUS
  <2>3. QED
    BY <1>1, <2>1, <2>2
<1>6. \A i, j \in DOMAIN notifiers[m] : notifiers[m][i] = notifiers[m][j] => i = j
  BY DEF OrderInv, Installed
<1>7. s \notin Notifiers(m)'
  BY <1>5, <1>6 DEF Notifiers
<1>8. \A l \in Msgs : \A x \in Notifiers(l)' : x # s /\ x \in Subs
  <2> SUFFICES ASSUME NEW l \in Msgs, NEW x \in Notifiers(l)' PROVE x # s /\ x \in Subs
    OBVIOUS
  <2>1. x \in Notifiers(l)
    BY <1>3
  <2>2. \A h \in Msgs : \A y \in Notifiers(h) : Owner(h, y)
    BY DEF ServerSubsInv, Owned
  <2>3. Owner(l, x) /\ Owner(m, s)
    BY <1>3, <2>1, <2>2
  <2>4. x \in Subs
    BY <1>0, <2>1 DEF TypeOK, Notifiers
  <2>5. QED
    BY <1>7, <2>3, <2>4, OneOwner
<1>9. \A x \in Subs : x # s => wire'[x] = wire[x] /\ activated'[x] = activated[x]
  BY <1>0, <1>2 DEF TypeOK
<1>10. Installed'
  <2>1. \A l \in Msgs : \A x \in Notifiers(l)' :
          /\ \E i \in DOMAIN Calls[l] :
                /\ Calls[l][i].kind = "subscribe" /\ Calls[l][i].sub = x
                /\ i <= idx'[l] /\ (mpc'[l] = "run" => i < idx'[l])
          /\ mpc'[l] # "idle" /\ ~activated'[x]
          /\ wire'[x] = <<>> \/ (wire'[x] = <<0>> /\ mpc'[l] = "activate")
    BY <1>1, <1>3, <1>8, <1>9 DEF OrderInv, Installed
  <2>2. \A i, j \in DOMAIN notifiers'[m] : notifiers'[m][i] = notifiers'[m][j] => i = j
    BY <1>5, <1>6
  <2>3. \A l \in Msgs : l # m => notifiers'[l] = notifiers[l]
    BY <1>0, <1>1 DEF TypeOK
  <2>4. \A l \in Msgs : \A i, j \in DOMAIN notifiers'[l] : notifiers'[l][i] = notifiers'[l][j] => i = j
    BY <2>2, <2>3 DEF OrderInv, Installed
  <2>5. \A l \in Msgs : mpc'[l] \notin {"activate", "done"} => granted'[l] \subseteq Notifiers(l)'
    BY <1>1, <1>3 DEF OrderInv, Installed
  <2>6. QED
    BY <2>1, <2>4, <2>5 DEF Installed
<1>11. /\ n = count[s] /\ n \in Nat /\ k \in Nat /\ buffer[s] \in Seq(Nat)
       /\ \A i \in 1..n : buffer[s][i] = i
  <2>1. buffer[s] \in Seq(Nat) /\ count[s] \in Nat
    BY <1>0, <1>4 DEF TypeOK
  <2>2. n = count[s] /\ \A i \in DOMAIN buffer[s] : buffer[s][i] = i
    BY <1>4 DEF OrderInv, Numbered
  <2>3. QED
    BY <2>1, <2>2
<1>12. Numbered'
  BY <1>1, <1>4, <1>9, <1>11 DEF OrderInv, Numbered
<1>13. \/ wire[s] = <<>> /\ wire'[s] = [i \in 1..k |-> i]
       \/ wire[s] = <<0>> /\ wire'[s] = [i \in 1..k + 1 |-> i - 1]
  <2> DEFINE B == SubSeq(buffer[s], 1, k)
  <2>1. B = [i \in 1..k |-> i] /\ B \in Seq(Nat) /\ Len(B) = k
    BY <1>2, <1>11
  <2>2. wire'[s] = wire[s] \o B
    BY <1>0, <1>2, <1>4 DEF TypeOK
  <2>3. CASE wire[s] = <<>>
    BY <2>1, <2>2, <2>3
  <2>4. CASE wire[s] = <<0>>
    <3>1. /\ Len(<<0>> \o B) = k + 1 /\ <<0>> \o B \in Seq(Nat)
          /\ \A i \in 1..k + 1 : (<<0>> \o B)[i] = i - 1
      BY <1>11, <2>1
    <3>2. QED
      BY <1>11, <2>2, <2>4, <3>1
  <2>5. QED
    BY <1>4, <2>3, <2>4
<1>14. Ascending'
  <2>1. ASSUME NEW x \in Subs
        PROVE  /\ \A i, j \in DOMAIN wire'[x] : i < j => wire'[x][i] < wire'[x][j]
               /\ \A i \in DOMAIN wire'[x] : wire'[x][i] <= count'[x]
    <3>1. CASE x = s
      <4>1. CASE wire'[s] = [i \in 1..k |-> i]
        BY <1>1, <1>11, <3>1, <4>1
      <4>2. CASE wire'[s] = [i \in 1..k + 1 |-> i - 1]
        BY <1>1, <1>11, <3>1, <4>2
      <4>3. QED
        BY <1>13, <4>1, <4>2
    <3>2. CASE x # s
      BY <1>1, <1>9, <3>2 DEF OrderInv, Ascending
    <3>3. QED
      BY <3>1, <3>2
  <2>2. QED
    BY <2>1 DEF Ascending
<1>15. Complete'
  <2>1. conn = "up" => k = n
    BY <1>2, <1>11 DEF WriteResults
  <2>2. QED
    BY <1>1, <1>9, <1>11, <1>13, <2>1 DEF OrderInv, Complete
<1>16. QED
  BY <1>10, <1>12, <1>14, <1>15 DEF OrderInv

\* One more number after those up to c.
LEMMA AppendCount ==
    ASSUME NEW c \in Nat
    PROVE  /\ Append([i \in 1..c |-> i], c + 1) = [i \in 1..c + 1 |-> i]
           /\ Append([i \in 1..c + 1 |-> i - 1], c + 1) = [i \in 1..(c + 1) + 1 |-> i - 1]
<1>1. /\ [i \in 1..c |-> i] \in Seq(Nat) /\ Len([i \in 1..c |-> i]) = c
      /\ [i \in 1..c + 1 |-> i] \in Seq(Nat) /\ Len([i \in 1..c + 1 |-> i]) = c + 1
  OBVIOUS
<1>2. /\ [i \in 1..c + 1 |-> i - 1] \in Seq(Nat) /\ Len([i \in 1..c + 1 |-> i - 1]) = c + 1
      /\ [i \in 1..(c + 1) + 1 |-> i - 1] \in Seq(Nat) /\ Len([i \in 1..(c + 1) + 1 |-> i - 1]) = c + 2
  OBVIOUS
<1>3. Append([i \in 1..c |-> i], c + 1) = [i \in 1..c + 1 |-> i]
  BY <1>1
<1>4. Append([i \in 1..c + 1 |-> i - 1], c + 1) = [i \in 1..(c + 1) + 1 |-> i - 1]
  BY <1>2
<1>5. QED
  BY <1>3, <1>4

\* Notify, before and after activation.
LEMMA OrderNotify ==
    ASSUME ServerSubsInv, OrderInv, NEW s \in Subs, NotifyBuffered(s) \/ NotifySent(s)
    PROVE  OrderInv'
<1>0. TypeOK
  BY DEF ServerSubsInv
<1>1. /\ UNCHANGED <<conn, msgVars, activated>>
      /\ count' = [count EXCEPT ![s] = @ + 1]
  BY DEF NotifyBuffered, NotifySent, notifierVars
<1>2. /\ \A x \in Subs : count'[x] = IF x = s THEN count[x] + 1 ELSE count[x]
      /\ \A x \in Subs : count[x] \in Nat
  BY <1>0, <1>1 DEF TypeOK
<1>3. \A k \in Msgs : Notifiers(k)' = Notifiers(k)
  BY <1>1 DEF Notifiers, msgVars
<1>4. CASE NotifyBuffered(s)
  <2>1. ~activated[s] /\ wire' = wire /\ buffer' = [buffer EXCEPT ![s] = Append(@, count[s] + 1)]
    BY <1>4 DEF NotifyBuffered
  <2>2. Installed'
    BY <1>1, <1>3, <2>1 DEF OrderInv, Installed, msgVars
  <2>3. Numbered'
    <3>1. /\ buffer[s] \in Seq(Nat) /\ Len(buffer[s]) = count[s]
          /\ buffer'[s] = Append(buffer[s], count[s] + 1)
      BY <1>0, <2>1 DEF TypeOK, OrderInv, Numbered
    <3>2. /\ Len(buffer'[s]) = count[s] + 1
          /\ \A i \in DOMAIN buffer'[s] : buffer'[s][i] = i
      BY <1>2, <3>1 DEF OrderInv, Numbered
    <3>3. \A x \in Subs : x # s => buffer'[x] = buffer[x]
      BY <1>0, <2>1 DEF TypeOK
    <3>4. QED
      BY <1>1, <1>2, <3>2, <3>3 DEF OrderInv, Numbered
  <2>4. Ascending'
    <3>1. \A x \in Subs : wire[x] \in Seq(Nat)
      BY <1>0 DEF TypeOK
    <3>2. \A x \in Subs : \A i \in DOMAIN wire[x] : wire[x][i] <= count'[x]
      BY <1>2, <3>1 DEF OrderInv, Ascending
    <3>3. QED
      BY <2>1, <3>2 DEF OrderInv, Ascending
  <2>5. Complete'
    BY <1>1, <1>2, <2>1 DEF OrderInv, Complete
  <2>6. QED
    BY <2>2, <2>3, <2>4, <2>5 DEF OrderInv
<1>5. CASE NotifySent(s)
  <2>1. /\ activated[s] /\ buffer' = buffer
        /\ wire' = wire \/ wire' = [wire EXCEPT ![s] = Append(@, count[s] + 1)]
        /\ conn = "up" => wire' = [wire EXCEPT ![s] = Append(@, count[s] + 1)]
    BY <1>5 DEF NotifySent, WriteResults, notifierVars
  <2>2. /\ \A x \in Subs : x # s => wire'[x] = wire[x]
        /\ wire'[s] = wire[s] \/ wire'[s] = Append(wire[s], count[s] + 1)
        /\ conn = "up" => wire'[s] = Append(wire[s], count[s] + 1)
        /\ \A x \in Subs : wire[x] \in Seq(Nat)
    BY <1>0, <2>1 DEF TypeOK
  <2>3. Installed'
    <3>1. \A k \in Msgs : \A x \in Notifiers(k) : x # s /\ x \in Subs
      BY <1>0, <2>1 DEF OrderInv, Installed, TypeOK, Notifiers
    <3>2. QED
      BY <1>1, <1>3, <2>2, <3>1 DEF OrderInv, Installed, msgVars
  <2>4. Numbered'
    BY <1>0, <1>1, <1>2, <2>1 DEF OrderInv, Numbered, TypeOK
  <2>5. Ascending'
    <3>1. ASSUME NEW x \in Subs
          PROVE  /\ \A i, j \in DOMAIN wire'[x] : i < j => wire'[x][i] < wire'[x][j]
                 /\ \A i \in DOMAIN wire'[x] : wire'[x][i] <= count'[x]
      <4>1. /\ \A i, j \in DOMAIN wire[x] : i < j => wire[x][i] < wire[x][j]
            /\ \A i \in DOMAIN wire[x] : wire[x][i] <= count[x]
        BY DEF OrderInv, Ascending
      <4>2. CASE wire'[x] = wire[x]
        BY <1>2, <2>2, <4>1, <4>2
      <4>3. CASE x = s /\ wire'[s] = Append(wire[s], count[s] + 1)
        BY <1>2, <2>2, <4>1, <4>3
      <4>4. QED
        BY <2>2, <4>2, <4>3
    <3>2. QED
      BY <3>1 DEF Ascending
  <2>6. Complete'
    <3>1. ASSUME conn = "up"
          PROVE  \/ wire'[s] = [i \in 1..count[s] + 1 |-> i]
                 \/ wire'[s] = [i \in 1..(count[s] + 1) + 1 |-> i - 1]
      <4>1. count[s] \in Nat /\ wire'[s] = Append(wire[s], count[s] + 1)
        BY <1>2, <2>2, <3>1
      <4>2. CASE wire[s] = [i \in 1..count[s] |-> i]
        BY <4>1, <4>2, AppendCount
      <4>3. CASE wire[s] = [i \in 1..count[s] + 1 |-> i - 1]
        BY <4>1, <4>3, AppendCount
      <4>4. QED
        BY <2>1, <3>1, <4>2, <4>3 DEF OrderInv, Complete
    <3>2. ASSUME NEW x \in Subs, conn' = "up", activated'[x]
          PROVE  \/ wire'[x] = [i \in 1..count'[x] |-> i]
                 \/ wire'[x] = [i \in 1..count'[x] + 1 |-> i - 1]
      <4>1. CASE x = s
        BY <1>1, <1>2, <3>1, <3>2, <4>1
      <4>2. CASE x # s
        BY <1>1, <1>2, <2>2, <3>2, <4>2 DEF OrderInv, Complete
      <4>3. QED
        BY <4>1, <4>2
    <3>3. QED
      BY <3>2 DEF Complete
  <2>7. QED
    BY <2>3, <2>4, <2>5, <2>6 DEF OrderInv
<1>6. QED
  BY <1>4, <1>5

\* OrderInv holds of every reachable state, given ServerSubsInv.
THEOREM OrderInvariant == Spec => []OrderInv
<1>1. Init => OrderInv
  <2> SUFFICES ASSUME Init PROVE OrderInv
    OBVIOUS
  <2>1. \A m \in Msgs : Notifiers(m) = {}
    BY NoNotifiers
  <2>2. Installed
    <3>1. \A m \in Msgs : notifiers[m] = <<>> /\ granted[m] = {}
      BY DEF Init
    <3>2. \A m \in Msgs : \A i, j \in DOMAIN notifiers[m] : notifiers[m][i] = notifiers[m][j] => i = j
      BY <3>1
    <3>3. QED
      BY <2>1, <3>1, <3>2 DEF Installed
  <2>3. \A s \in Subs : buffer[s] = <<>> /\ wire[s] = <<>> /\ count[s] = 0 /\ ~activated[s]
    BY DEF Init
  <2>4. Numbered /\ Ascending /\ Complete
    BY <2>3 DEF Numbered, Ascending, Complete
  <2>5. QED
    BY <2>2, <2>4 DEF OrderInv
<1>2. ServerSubsInv /\ OrderInv /\ [Next]_vars => OrderInv'
  <2> SUFFICES ASSUME ServerSubsInv, OrderInv, [Next]_vars PROVE OrderInv'
    OBVIOUS
  <2>1. CASE Stall \/ Drop \/ CloseBegin \/ CloseStep \/ UNCHANGED vars
    <3>1. UNCHANGED <<msgVars, activated, buffer, count, wire>> /\ (conn' = "up" => conn = "up")
      BY <2>1 DEF Stall, Drop, CloseBegin, CloseStep, CallsDone, CancelServerSubscriptions,
                  CloseCodec, vars, notifierVars, pubVars
    <3>2. QED
      BY <3>1, OrderOther
  <2>2. ASSUME NEW m \in Msgs, CreateSubscription(m) PROVE OrderInv'
    BY <2>2, OrderOther DEF CreateSubscription, pubVars
  <2>3. ASSUME NEW m \in Msgs, HandleMsg(m) \/ CallProc(m) PROVE OrderInv'
    BY <2>3, OrderCall, OrderAnswer, OrderActivate DEF CallProc
  <2>4. ASSUME NEW s \in Subs, NotifyBuffered(s) \/ NotifySent(s) PROVE OrderInv'
    BY <2>4, OrderNotify
  <2>5. ASSUME NEW s \in Subs, PublisherQuit(s) PROVE OrderInv'
    BY <2>5, OrderOther DEF PublisherQuit, notifierVars
  <2>6. QED
    BY <2>1, <2>2, <2>3, <2>4, <2>5 DEF Next
<1>3. QED
  BY <1>1, <1>2, ServerSubsInvariant, PTL DEF Spec

\* A 0 on the wire can only be its first element.
LEMMA ZeroFirst == TypeOK /\ Ascending => IdLeads
<1> SUFFICES ASSUME TypeOK, Ascending, NEW s \in Subs, NEW i \in DOMAIN wire[s], wire[s][i] = 0
             PROVE  i = 1
  BY DEF IdLeads
<1>1. wire[s] \in Seq(Nat)
  BY DEF TypeOK
<1>2. 1 \in DOMAIN wire[s] /\ wire[s][1] \in Nat /\ i \in Nat \ {0}
  BY <1>1
<1>3. 1 < i => wire[s][1] < wire[s][i]
  BY <1>2 DEF Ascending
<1>4. QED
  BY <1>2, <1>3

\* The answer with a subscription's ID goes out before any of its notifications and
\* once, whenever its publisher starts.
THEOREM IdFirst == Spec => []IdLeads
<1>1. ServerSubsInv /\ OrderInv => IdLeads
  BY ZeroFirst DEF ServerSubsInv, OrderInv
<1>2. QED
  BY <1>1, ServerSubsInvariant, OrderInvariant, PTL

\* Buffered and direct notifications reach the wire in the order Notify was called,
\* none of them lost or doubled while every write succeeds.
THEOREM NotificationOrder == Spec => []NotificationsInOrder
<1>1. ASSUME TypeOK, OrderInv PROVE NotificationsInOrder
  <2> SUFFICES ASSUME NEW s \in Subs
               PROVE  /\ \A i, j \in DOMAIN Notifications(s) :
                            i < j => Notifications(s)[i] < Notifications(s)[j]
                      /\ conn = "up" /\ activated[s] =>
                            Notifications(s) = [i \in 1..count[s] |-> i]
    BY DEF NotificationsInOrder
  <2> DEFINE w == wire[s]
             c == count[s]
  <2>0. w \in Seq(Nat) /\ c \in Nat
    BY <1>1 DEF TypeOK
  <2>1. \A i, j \in DOMAIN w : i < j => w[i] < w[j]
    BY <1>1 DEF OrderInv, Ascending
  <2>2. CASE Answered(s)
    <3>1. Notifications(s) = Tail(w) /\ w # <<>>
      BY <2>2 DEF Notifications, Answered
    <3>2. \A i \in DOMAIN Tail(w) : i \in Nat /\ i + 1 \in DOMAIN w /\ Tail(w)[i] = w[i + 1]
      BY <2>0, <3>1
    <3>3. \A i, j \in DOMAIN Tail(w) : i < j => Tail(w)[i] < Tail(w)[j]
      BY <2>1, <3>2
    <3>4. ASSUME conn = "up", activated[s] PROVE Tail(w) = [i \in 1..c |-> i]
      <4>1. w # [i \in 1..c |-> i]
        BY <2>0, <2>2 DEF Answered
      <4>2. w = [i \in 1..c + 1 |-> i - 1]
        BY <1>1, <3>4, <4>1 DEF OrderInv, Complete
      <4>3. Len(w) = c + 1
        BY <2>0, <4>2
      <4>4. Tail(w) \in Seq(Nat) /\ Len(Tail(w)) = c /\ \A i \in 1..c : Tail(w)[i] = i
        BY <2>0, <3>1, <4>2, <4>3
      <4>5. QED
        BY <2>0, <4>4
    <3>5. QED
      BY <3>1, <3>3, <3>4
  <2>3. CASE ~Answered(s)
    <3>1. Notifications(s) = w
      BY <2>3 DEF Notifications
    <3>2. ASSUME conn = "up", activated[s] PROVE w = [i \in 1..c |-> i]
      <4>1. w # [i \in 1..c + 1 |-> i - 1]
        <5>1. SUFFICES ASSUME w = [i \in 1..c + 1 |-> i - 1] PROVE FALSE
          OBVIOUS
        <5>2. 1 \in DOMAIN w /\ w[1] = 0
          BY <2>0, <5>1
        <5>3. QED
          BY <2>3, <5>2 DEF Answered
      <4>2. QED
        BY <1>1, <3>2, <4>1 DEF OrderInv, Complete
    <3>3. QED
      BY <2>1, <3>1, <3>2
  <2>4. QED
    BY <2>2, <2>3
<1>2. ServerSubsInv /\ OrderInv => NotificationsInOrder
  BY <1>1 DEF ServerSubsInv
<1>3. QED
  BY <1>2, ServerSubsInvariant, OrderInvariant, PTL
=============================================================================
