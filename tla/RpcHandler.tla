----------------------------- MODULE RpcHandler -----------------------------
(***************************************************************************)
(* The serving half of a handler (simple_rpc/rpc/handler.go) with the       *)
(* Notifiers of its subscriptions (subscription.go): one call goroutine per *)
(* incoming message, which runs the calls of the message in order, writes   *)
(* one answer and activates the notifiers; the goroutines that publish to a *)
(* subscription; and handler.close, run by dispatch.                        *)
(*                                                                         *)
(* A call names its kind, whether it has an ID (without one it is a JSON-RPC *)
(* notification and gets no answer) and its subscription.  What goes over   *)
(* the connection is kept per subscription: wire[s] holds 0 for the answer  *)
(* that carries its ID and n for its n-th notification.                     *)
(***************************************************************************)
EXTENDS Naturals, Sequences

CONSTANTS
    Msgs,       \* incoming messages, each served by a goroutine of its own
    Calls,      \* Calls[m]: the calls of m in order; <<>> is the empty batch
    Subs,       \* subscription IDs; the client may know them before we do
    NoSub,      \* the sub of a call that concerns none
    MaxNotif    \* bound: notifications published to a subscription

Kinds == {"method", "waits", "subscribe", "unsubscribe"}
Call == [kind : Kinds, id : BOOLEAN, sub : Subs \cup {NoSub}]

ASSUME CallsAssumption ==
    /\ NoSub \notin Subs
    /\ Calls \in [Msgs -> Seq(Call)]
    /\ \A m \in Msgs : \A i \in DOMAIN Calls[m] :
          Calls[m][i].kind \in {"subscribe", "unsubscribe"} <=> Calls[m][i].sub # NoSub

\* idgen hands out every subscription ID once.
ASSUME IdgenAssumption ==
    \A m, k \in Msgs : \A i \in DOMAIN Calls[m], j \in DOMAIN Calls[k] :
        /\ Calls[m][i].kind = "subscribe" /\ Calls[k][j].kind = "subscribe"
        /\ Calls[m][i].sub = Calls[k][j].sub
        => m = k /\ i = j

ASSUME NotifAssumption == MaxNotif \in Nat

VARIABLES
    conn,         \* "up": every write succeeds; "flaky": a write may time out; "down"
    hpc,          \* handler.close: "open", "wait" (callWG), "cancelSubs", "codec", "closed"
    mpc,          \* where the goroutine of each message is
    idx,          \* the call it is at
    notifiers,    \* cp.notifiers, by the subscriptions they are for
    granted,      \* subscriptions whose ID is in the answer
    created,      \* n.sub # nil
    callReturned, \* n.callReturned
    activated,    \* n.activated
    buffer,       \* n.buffer
    count,        \* notifications passed to Notify
    pub,          \* the publishing goroutine of each subscription
    serverSubs,   \* h.serverSubs
    suberr,       \* sub.err: "open", "closed"
    wire          \* what the peer was sent about each subscription

msgVars == <<mpc, idx, notifiers, granted>>
notifierVars == <<created, callReturned, activated, buffer>>
pubVars == <<count, pub>>
subVars == <<serverSubs, suberr>>
vars == <<conn, hpc, msgVars, notifierVars, pubVars, subVars, wire>>

TypeOK ==
    /\ conn \in {"up", "flaky", "down"}
    /\ hpc \in {"open", "wait", "cancelSubs", "codec", "closed"}
    /\ mpc \in [Msgs -> {"idle", "run", "callback", "answer", "activate", "done"}]
    /\ idx \in [Msgs -> Nat \ {0}]
    /\ notifiers \in [Msgs -> Seq(Subs)]
    /\ granted \in [Msgs -> SUBSET Subs]
    /\ created \in [Subs -> BOOLEAN]
    /\ callReturned \in [Subs -> BOOLEAN]
    /\ activated \in [Subs -> BOOLEAN]
    /\ buffer \in [Subs -> Seq(Nat)]
    /\ count \in [Subs -> Nat]
    /\ pub \in [Subs -> {"none", "run", "ended"}]
    /\ serverSubs \in SUBSET Subs
    /\ suberr \in [Subs -> {"open", "closed"}]
    /\ wire \in [Subs -> Seq(Nat)]

\* newHandler on a fresh connection.
Init ==
    /\ conn = "up" /\ hpc = "open"
    /\ mpc = [m \in Msgs |-> "idle"] /\ idx = [m \in Msgs |-> 1]
    /\ notifiers = [m \in Msgs |-> <<>>] /\ granted = [m \in Msgs |-> {}]
    /\ created = [s \in Subs |-> FALSE] /\ callReturned = [s \in Subs |-> FALSE]
    /\ activated = [s \in Subs |-> FALSE] /\ buffer = [s \in Subs |-> <<>>]
    /\ count = [s \in Subs |-> 0] /\ pub = [s \in Subs |-> "none"]
    /\ serverSubs = {} /\ suberr = [s \in Subs |-> "open"]
    /\ wire = [s \in Subs |-> <<>>]

-----------------------------------------------------------------------------
(* The connection.  writeJSON gives a write ten seconds unless its context   *)
(* has a deadline; a slow peer lets some writes through and others not.      *)

Stall ==
    /\ conn = "up"
    /\ conn' = "flaky"
    /\ UNCHANGED <<hpc, msgVars, notifierVars, pubVars, subVars, wire>>

Drop ==
    /\ conn # "down"
    /\ conn' = "down"
    /\ UNCHANGED <<hpc, msgVars, notifierVars, pubVars, subVars, wire>>

\* the results a write may have
WriteResults == CASE conn = "up" -> {TRUE} [] conn = "flaky" -> BOOLEAN [] OTHER -> {FALSE}

-----------------------------------------------------------------------------
(* The goroutine of a message.                                              *)

Cur(m) == Calls[m][idx[m]]

\* handleMsg, handleBatch: startCallProc.  dispatch, which runs handler.close,
\* is also the goroutine that starts these.
HandleMsg(m) ==
    /\ hpc = "open" /\ mpc[m] = "idle"
    /\ mpc' = [mpc EXCEPT ![m] = "run"]
    /\ UNCHANGED <<conn, hpc, idx, notifiers, granted, notifierVars, pubVars, subVars, wire>>

\* handleCallMsg, handleCall and handleSubscribe refuse a call: invalid request,
\* unknown method, bad arguments, no subscriptions on this transport.
Refuse(m) ==
    /\ mpc[m] = "run" /\ idx[m] <= Len(Calls[m])
    /\ idx' = [idx EXCEPT ![m] = @ + 1]
    /\ UNCHANGED <<conn, hpc, mpc, notifiers, granted, notifierVars, pubVars, subVars, wire>>

\* runMethod calls the callback; handleSubscribe installs a notifier first.
RunMethod(m) ==
    /\ mpc[m] = "run" /\ idx[m] <= Len(Calls[m]) /\ Cur(m).kind # "unsubscribe"
    /\ mpc' = [mpc EXCEPT ![m] = "callback"]
    /\ notifiers' = IF Cur(m).kind = "subscribe"
                    THEN [notifiers EXCEPT ![m] = Append(@, Cur(m).sub)] ELSE notifiers
    /\ UNCHANGED <<conn, hpc, idx, granted, notifierVars, pubVars, subVars, wire>>

\* The callback calls CreateSubscription and starts a goroutine that publishes.
CreateSubscription(m) ==
    /\ mpc[m] = "callback" /\ Cur(m).kind = "subscribe" /\ ~created[Cur(m).sub]
    /\ created' = [created EXCEPT ![Cur(m).sub] = TRUE]
    /\ pub' = [pub EXCEPT ![Cur(m).sub] = "run"]
    /\ UNCHANGED <<conn, hpc, msgVars, callReturned, activated, buffer, count, subVars, wire>>

\* The callback returns, with the subscription or with an error.  A method that
\* waits for its context returns when rootCtx is cancelled.
CallbackReturn(m) ==
    /\ mpc[m] = "callback"
    /\ Cur(m).kind = "waits" => hpc \in {"cancelSubs", "codec", "closed"}
    /\ mpc' = [mpc EXCEPT ![m] = "run"]
    /\ idx' = [idx EXCEPT ![m] = @ + 1]
    /\ \E ok \in BOOLEAN :
          granted' = IF ok /\ Cur(m).id /\ Cur(m).kind = "subscribe" /\ created[Cur(m).sub]
                     THEN [granted EXCEPT ![m] = @ \cup {Cur(m).sub}] ELSE granted
    /\ UNCHANGED <<conn, hpc, notifiers, notifierVars, pubVars, subVars, wire>>

\* Mutant of Unsubscribe: the subscription stays in serverSubs.
UnsubscribeKeeps(m) ==
    /\ mpc[m] = "run" /\ idx[m] <= Len(Calls[m]) /\ Cur(m).kind = "unsubscribe"
    /\ idx' = [idx EXCEPT ![m] = @ + 1]
    /\ suberr' = IF Cur(m).sub \in serverSubs
                 THEN [suberr EXCEPT ![Cur(m).sub] = "closed"] ELSE suberr
    /\ UNCHANGED <<conn, hpc, mpc, notifiers, granted, notifierVars, pubVars, serverSubs, wire>>

\* unsubscribe: closes sub.err if the subscription is there.
Unsubscribe(m) ==
    /\ mpc[m] = "run" /\ idx[m] <= Len(Calls[m]) /\ Cur(m).kind = "unsubscribe"
    /\ idx' = [idx EXCEPT ![m] = @ + 1]
    /\ IF Cur(m).sub \in serverSubs
       THEN /\ suberr' = [suberr EXCEPT ![Cur(m).sub] = "closed"]
            /\ serverSubs' = serverSubs \ {Cur(m).sub}
       ELSE UNCHANGED subVars
    /\ UNCHANGED <<conn, hpc, mpc, notifiers, granted, notifierVars, pubVars, wire>>

Notifiers(m) == {notifiers[m][i] : i \in DOMAIN notifiers[m]}

\* Mutants of AddSubscriptions: a notifier without a subscription is registered
\* too; nothing is registered.
AddSubscriptionsNil(m) ==
    /\ mpc[m] = "run" /\ idx[m] > Len(Calls[m])
    /\ mpc' = [mpc EXCEPT ![m] = "answer"]
    /\ callReturned' = [s \in Subs |-> callReturned[s] \/ s \in Notifiers(m)]
    /\ serverSubs' = serverSubs \cup {IF created[s] THEN s ELSE NoSub : s \in Notifiers(m)}
    /\ UNCHANGED <<conn, hpc, idx, notifiers, granted, created, activated, buffer,
                   pubVars, suberr, wire>>

AddSubscriptionsNone(m) ==
    /\ mpc[m] = "run" /\ idx[m] > Len(Calls[m])
    /\ mpc' = [mpc EXCEPT ![m] = "answer"]
    /\ callReturned' = [s \in Subs |-> callReturned[s] \/ s \in Notifiers(m)]
    /\ UNCHANGED <<conn, hpc, idx, notifiers, granted, created, activated, buffer,
                   pubVars, subVars, wire>>

\* addSubscriptions, after the last call: takeSubscription of every notifier.
AddSubscriptions(m) ==
    /\ mpc[m] = "run" /\ idx[m] > Len(Calls[m])
    /\ mpc' = [mpc EXCEPT ![m] = "answer"]
    /\ callReturned' = [s \in Subs |-> callReturned[s] \/ s \in Notifiers(m)]
    /\ serverSubs' = serverSubs \cup {s \in Notifiers(m) : created[s]}
    /\ UNCHANGED <<conn, hpc, idx, notifiers, granted, created, activated, buffer,
                   pubVars, suberr, wire>>

\* writeJSON of the answers; its error is ignored.
WriteAnswer(m) ==
    /\ mpc[m] = "answer"
    /\ mpc' = [mpc EXCEPT ![m] = "activate"]
    /\ \E ok \in WriteResults :
          wire' = [s \in Subs |-> IF ok /\ s \in granted[m] THEN Append(wire[s], 0)
                                                            ELSE wire[s]]
    /\ UNCHANGED <<conn, hpc, idx, notifiers, granted, notifierVars, pubVars, subVars>>

\* Mutant of Activate: what was buffered is not sent.
ActivateDrops(m) ==
    /\ mpc[m] = "activate" /\ notifiers[m] # <<>>
    /\ activated' = [activated EXCEPT ![Head(notifiers[m])] = TRUE]
    /\ notifiers' = [notifiers EXCEPT ![m] = Tail(@)]
    /\ UNCHANGED <<conn, hpc, mpc, idx, granted, created, callReturned, buffer,
                   pubVars, subVars, wire>>

\* activate of the next notifier, under n.mu: the first k buffered notifications
\* are sent; if that is not all of them the next write failed.
Activate(m) ==
    /\ mpc[m] = "activate" /\ notifiers[m] # <<>>
    /\ LET s == Head(notifiers[m])
           n == Len(buffer[s])
       IN \E k \in 0..n :
             /\ k > 0 => TRUE \in WriteResults
             /\ k < n => FALSE \in WriteResults
             /\ wire' = [wire EXCEPT ![s] = @ \o SubSeq(buffer[s], 1, k)]
             /\ activated' = [activated EXCEPT ![s] = (k = n)]
    /\ notifiers' = [notifiers EXCEPT ![m] = Tail(@)]
    /\ UNCHANGED <<conn, hpc, mpc, idx, granted, created, callReturned, buffer,
                   pubVars, subVars>>

\* callWG.Done.
EndCall(m) ==
    /\ mpc[m] = "activate" /\ notifiers[m] = <<>>
    /\ mpc' = [mpc EXCEPT ![m] = "done"]
    /\ UNCHANGED <<conn, hpc, idx, notifiers, granted, notifierVars, pubVars, subVars, wire>>

CallProc(m) ==
    \/ Refuse(m) \/ RunMethod(m) \/ CallbackReturn(m) \/ Unsubscribe(m)
    \/ AddSubscriptions(m) \/ WriteAnswer(m) \/ Activate(m) \/ EndCall(m)

-----------------------------------------------------------------------------
(* Publishers.                                                              *)

\* Notify before activation: the notification is buffered.
NotifyBuffered(s) ==
    /\ pub[s] = "run" /\ count[s] < MaxNotif /\ ~activated[s]
    /\ count' = [count EXCEPT ![s] = @ + 1]
    /\ buffer' = [buffer EXCEPT ![s] = Append(@, count[s] + 1)]
    /\ UNCHANGED <<conn, hpc, msgVars, created, callReturned, activated, pub, subVars, wire>>

\* Mutant of NotifySent: Notify does not look at n.activated.
NotifySentEarly(s) ==
    /\ pub[s] = "run" /\ count[s] < MaxNotif
    /\ count' = [count EXCEPT ![s] = @ + 1]
    /\ \E ok \in WriteResults :
          /\ wire' = IF ok THEN [wire EXCEPT ![s] = Append(@, count[s] + 1)] ELSE wire
          /\ pub' = IF ok THEN pub ELSE [pub EXCEPT ![s] = "ended"]
    /\ UNCHANGED <<conn, hpc, msgVars, notifierVars, subVars>>

\* Notify after activation: it is sent; a publisher that gets an error ends.
NotifySent(s) ==
    /\ pub[s] = "run" /\ count[s] < MaxNotif /\ activated[s]
    /\ count' = [count EXCEPT ![s] = @ + 1]
    /\ \E ok \in WriteResults :
          /\ wire' = IF ok THEN [wire EXCEPT ![s] = Append(@, count[s] + 1)] ELSE wire
          /\ pub' = IF ok THEN pub ELSE [pub EXCEPT ![s] = "ended"]
    /\ UNCHANGED <<conn, hpc, msgVars, notifierVars, subVars>>

\* <-sub.Err().
PublisherQuit(s) ==
    /\ pub[s] = "run" /\ suberr[s] = "closed"
    /\ pub' = [pub EXCEPT ![s] = "ended"]
    /\ UNCHANGED <<conn, hpc, msgVars, notifierVars, count, subVars, wire>>

-----------------------------------------------------------------------------
(* handler.close and the codec.close that follows it, run by dispatch when   *)
(* the connection fails or the client is closed.                             *)

CloseBegin ==
    /\ hpc = "open"
    /\ hpc' = "wait"
    /\ UNCHANGED <<conn, msgVars, notifierVars, pubVars, subVars, wire>>

\* Mutant of CallsDone: call goroutines are not waited for.
CallsNotAwaited ==
    /\ hpc = "wait"
    /\ hpc' = "cancelSubs"
    /\ UNCHANGED <<conn, msgVars, notifierVars, pubVars, subVars, wire>>

\* callWG.Wait() returns; cancelRoot().
CallsDone ==
    /\ hpc = "wait" /\ \A m \in Msgs : mpc[m] \in {"idle", "done"}
    /\ hpc' = "cancelSubs"
    /\ UNCHANGED <<conn, msgVars, notifierVars, pubVars, subVars, wire>>

\* Mutant of CancelServerSubscriptions: the subscriptions are only forgotten.
CancelServerSubscriptionsSilent ==
    /\ hpc = "cancelSubs"
    /\ serverSubs' = {}
    /\ hpc' = "codec"
    /\ UNCHANGED <<conn, msgVars, notifierVars, pubVars, suberr, wire>>

\* cancelServerSubscriptions: err is sent on every sub.err, which is then closed.
CancelServerSubscriptions ==
    /\ hpc = "cancelSubs"
    /\ suberr' = [s \in Subs |-> IF s \in serverSubs THEN "closed" ELSE suberr[s]]
    /\ serverSubs' = {}
    /\ hpc' = "codec"
    /\ UNCHANGED <<conn, msgVars, notifierVars, pubVars, wire>>

CloseCodec ==
    /\ hpc = "codec"
    /\ conn' = "down"
    /\ hpc' = "closed"
    /\ UNCHANGED <<msgVars, notifierVars, pubVars, subVars, wire>>

CloseStep == CallsDone \/ CancelServerSubscriptions \/ CloseCodec

-----------------------------------------------------------------------------
Next ==
    \/ Stall \/ Drop \/ CloseBegin \/ CloseStep
    \/ \E m \in Msgs : HandleMsg(m) \/ CreateSubscription(m) \/ CallProc(m)
    \/ \E s \in Subs : NotifyBuffered(s) \/ NotifySent(s) \/ PublisherQuit(s)

Spec == Init /\ [][Next]_vars

(* Call goroutines run and callbacks return, except the ones that wait for   *)
(* their context; dispatch runs; a publisher looks at sub.Err().  The peer   *)
(* need not send anything, nobody need publish, nothing need fail.           *)
FairSpec ==
    /\ Spec
    /\ \A m \in Msgs : WF_vars(CallProc(m))
    /\ \A s \in Subs : WF_vars(PublisherQuit(s))
    /\ WF_vars(CloseStep)

-----------------------------------------------------------------------------
(* Properties.                                                              *)

Answered(s) == \E i \in DOMAIN wire[s] : wire[s][i] = 0
\* what follows the answer (IdLeads)
Notifications(s) == IF Answered(s) THEN Tail(wire[s]) ELSE wire[s]

\* Notifier buffers until the answer is written: the client that is sent a
\* subscription's ID is sent it before any of its notifications, however early
\* the publisher starts, and once.
IdLeads == \A s \in Subs : \A i \in DOMAIN wire[s] : wire[s][i] = 0 => i = 1

\* The buffer and the direct sends of Notify keep the publisher's order, and
\* while no write has failed nothing is lost or sent twice, whenever the
\* activation falls.
NotificationsInOrder ==
    \A s \in Subs :
        LET sent == Notifications(s) IN
        /\ \A i, j \in DOMAIN sent : i < j => sent[i] < sent[j]
        /\ conn = "up" /\ activated[s] => sent = [i \in 1..count[s] |-> i]

\* A client that was sent a subscription's ID can end it: the subscription was in
\* serverSubs before the answer went out and leaves it only with its err channel
\* closed.
Unsubscribable == \A s \in Subs : Answered(s) => s \in serverSubs \/ suberr[s] = "closed"

\* sub.err is closed once: neither unsubscribe nor cancelServerSubscriptions can
\* find a subscription whose channel is closed already (that close, or the send
\* before it, would panic).
ErrClosedOnce == \A s \in serverSubs : suberr[s] = "open"

\* handler.close ends every subscription a callback has created, a callback
\* that was still running when it began included: nothing is added after
\* cancelServerSubscriptions, so no publisher outlives the connection unnoticed.
NoOrphanPublisher ==
    hpc \in {"codec", "closed"} => \A s \in Subs : created[s] => suberr[s] = "closed"

\* A method that waits for its context is running.
Waiting(m) == mpc[m] = "callback" /\ Cur(m).kind = "waits"

\* handler.close ends, and with it every publisher, unless a method that waits for
\* its context keeps callWG from being done for ever.
CloseEndsAll ==
    hpc = "wait" ~>
        \/ hpc = "closed" /\ \A s \in Subs : pub[s] # "run"
        \/ [](hpc = "wait" /\ \E m \in Msgs : Waiting(m))

\* server.go:118 "closes all codecs which will cancel pending requests": once
\* handler.close has begun every call that is running ends.
CloseCancelsCalls ==
    \A m \in Msgs : hpc = "wait" /\ mpc[m] = "callback" ~> mpc[m] = "done"

-----------------------------------------------------------------------------
(* The invariant behind Unsubscribable, ErrClosedOnce and NoOrphanPublisher.  *)

Running(m) == mpc[m] \in {"run", "callback"}
Late(m) == mpc[m] \in {"answer", "activate", "done"}

\* m is the message whose call creates subscription s; there is only one
Owner(m, s) == \E i \in DOMAIN Calls[m] : Calls[m][i].kind = "subscribe" /\ Calls[m][i].sub = s

\* a message installs notifiers for its own subscriptions only, and
\* addSubscriptions takes all of them at once
Owned ==
    /\ \A m \in Msgs : \A s \in Notifiers(m) : Owner(m, s) /\ (Late(m) => callReturned[s])
    /\ \A s \in Subs : callReturned[s] => \E m \in Msgs : Owner(m, s) /\ Late(m)
    /\ \A m \in Msgs : mpc[m] = "callback" =>
          /\ idx[m] \in DOMAIN Calls[m]
          /\ Cur(m).kind = "subscribe" => Cur(m).sub \in Notifiers(m)

\* an ID in an answer belongs to a subscription that exists and is taken by the
\* time the answer is written
Granted ==
    \A m \in Msgs : \A s \in granted[m] :
        created[s] /\ (IF Late(m) THEN callReturned[s] ELSE s \in Notifiers(m))

\* before it is taken a subscription is in the hands of its call goroutine, nobody
\* else has heard of it; afterwards it is registered until its channel is closed
Registered ==
    \A s \in Subs :
        /\ ~callReturned[s] => s \notin serverSubs /\ suberr[s] = "open" /\ ~activated[s]
        /\ created[s] /\ ~callReturned[s] => \E m \in Msgs : s \in Notifiers(m) /\ Running(m)
        /\ created[s] /\ callReturned[s] => s \in serverSubs \/ suberr[s] = "closed"
        /\ pub[s] # "none" \/ buffer[s] # <<>> => created[s]
        /\ wire[s] # <<>> => created[s] /\ callReturned[s]

\* cancelServerSubscriptions runs when all call goroutines are done
Quiet ==
    /\ hpc \in {"cancelSubs", "codec", "closed"} => \A m \in Msgs : mpc[m] \in {"idle", "done"}
    /\ hpc \in {"codec", "closed"} => serverSubs = {}

ServerSubsInv == TypeOK /\ Owned /\ Granted /\ Registered /\ Quiet /\ ErrClosedOnce

-----------------------------------------------------------------------------
(* The invariant behind IdLeads and NotificationsInOrder.                     *)

\* Every notifier comes from a call of its own that has been run, and its
\* subscription has not been activated; the answer with its ID has not been
\* written before all calls have been run.
Installed ==
    /\ \A m \in Msgs : \A s \in Notifiers(m) :
          /\ \E i \in DOMAIN Calls[m] :
                /\ Calls[m][i].kind = "subscribe" /\ Calls[m][i].sub = s
                /\ i <= idx[m] /\ (mpc[m] = "run" => i < idx[m])
          /\ mpc[m] # "idle" /\ ~activated[s]
          /\ wire[s] = <<>> \/ (wire[s] = <<0>> /\ mpc[m] = "activate")
    /\ \A m \in Msgs : \A i, j \in DOMAIN notifiers[m] : notifiers[m][i] = notifiers[m][j] => i = j
    /\ \A m \in Msgs : mpc[m] \notin {"activate", "done"} => granted[m] \subseteq Notifiers(m)

\* notifications are numbered by count, and an unactivated notifier buffers all of them
Numbered ==
    \A s \in Subs :
        /\ Len(buffer[s]) <= count[s]
        /\ ~activated[s] => Len(buffer[s]) = count[s]
        /\ \A i \in DOMAIN buffer[s] : buffer[s][i] = i

\* the wire carries increasing numbers, the answer's 0 first if at all
Ascending ==
    \A s \in Subs :
        /\ \A i, j \in DOMAIN wire[s] : i < j => wire[s][i] < wire[s][j]
        /\ \A i \in DOMAIN wire[s] : wire[s][i] <= count[s]

\* while no write has failed everything is there
Complete ==
    \A s \in Subs : conn = "up" /\ activated[s] =>
        \/ wire[s] = [i \in 1..count[s] |-> i]
        \/ wire[s] = [i \in 1..count[s] + 1 |-> i - 1]

OrderInv == Installed /\ Numbered /\ Ascending /\ Complete
=============================================================================
