---------------------- MODULE ClientSubscriptionProofs ----------------------
(***************************************************************************)
(* A ClientSubscription implements its notification feed and its sub.err is  *)
(* safe and truthful, for any number of goroutines that call Unsubscribe,    *)
(* any number of notifications and any buffer size.                          *)
(***************************************************************************)
EXTENDS ClientSubscription, TLAPS

\* Where each goroutine is in quitWithError.
QuitType == qpc \in [Procs -> {"idle", "once", "in", "call", "await", "send", "out", "ret"}]
\* Who is inside quitOnce is the goroutine that ends the subscription.
EnderInv == \A p \in Procs : Inside(p) => ender = p
\* What keeps sub.err safe.
QuitInv == QuitType /\ OnceInv /\ EnderInv

\* A subscription starts with nobody in quitWithError.
LEMMA QuitInit == Init => QuitInv
  BY DEF Init, QuitInv, QuitType, OnceInv, EnderInv, Inside, Procs

\* Every step of dispatch, forward and the users keeps QuitInv.
LEMMA QuitStep == QuitInv /\ [Next]_vars => QuitInv'
<1> SUFFICES ASSUME QuitInv, [Next]_vars PROVE QuitInv'
  OBVIOUS
<1> USE UsersAssumption DEF QuitInv, QuitType, OnceInv, EnderInv, Inside, Procs
<1>1. CASE Notification \/ DeliverQuit \/ ForwardIn \/ ForwardOut
  BY <1>1 DEF Notification, DeliverQuit, ForwardIn, ForwardOut
<1>2. CASE ForwardOverflow
  BY <1>2 DEF ForwardOverflow, LeaveForward
<1>3. CASE ForwardDecodeError
  BY <1>3 DEF ForwardDecodeError, LeaveForward
<1>4. CASE ForwardQuit
  BY <1>4 DEF ForwardQuit, LeaveForward
<1>5. ASSUME NEW u \in Users, Unsubscribe(u) PROVE QuitInv'
  BY <1>5 DEF Unsubscribe
<1>6. ASSUME NEW err \in {"quit", "lost"}, Cancel(err) PROVE QuitInv'
  BY <1>6 DEF Cancel
<1>7. ASSUME NEW p \in Procs, EnterOnce(p) PROVE QuitInv'
  BY <1>7 DEF EnterOnce
<1>8. ASSUME NEW p \in Procs, SkipOnce(p) PROVE QuitInv'
  BY <1>8 DEF SkipOnce
<1>9. ASSUME NEW p \in Procs, CloseQuit(p) PROVE QuitInv'
  BY <1>9 DEF CloseQuit
<1>10. ASSUME NEW p \in Procs, RequestUnsubscribe(p) \/ CallReturns(p) PROVE QuitInv'
  BY <1>10 DEF RequestUnsubscribe, CallReturns
<1>11. ASSUME NEW p \in Procs, SendErr(p) PROVE QuitInv'
  BY <1>11 DEF SendErr
<1>12. ASSUME NEW p \in Procs, LeaveQuit(p) PROVE QuitInv'
  BY <1>12 DEF LeaveQuit
<1>13. CASE UNCHANGED vars
  BY <1>13 DEF vars
<1>14. QED
  BY <1>1, <1>2, <1>3, <1>4, <1>5, <1>6, <1>7, <1>8, <1>9, <1>10, <1>11, <1>12, <1>13
  DEF Next, QuitWithError

\* Whoever ends the subscription, and however many try, sub.err is sent to at
\* most once and never after it was closed.
THEOREM ErrChannelCorrect == Spec => []ErrChannelSafe
<1>1. Init => QuitInv
  BY QuitInit
<1>2. QuitInv /\ [Next]_vars => QuitInv'
  BY QuitStep
<1>3. QuitInv => ErrChannelSafe
  BY DEF QuitInv, QuitType, OnceInv, Inside, ErrChannelSafe
<1>4. QED
  BY <1>1, <1>2, <1>3, PTL DEF Spec

-----------------------------------------------------------------------------
(* Type correctness.                                                       *)

\* what dispatch delivers has a number
TypeInv == TypeOK /\ (dpc = "deliver" => sent > 0)

\* A subscription starts with an empty buffer.
LEMMA TypeInit == Init => TypeInv
<1> SUFFICES ASSUME Init PROVE TypeInv
  OBVIOUS
<1>1. buffer \in Seq(1..MaxNotif) /\ Len(buffer) <= MaxBuffer /\ received \in Seq(1..MaxNotif)
  BY BufferAssumption DEF Init
<1>2. qpc \in [Procs -> {"idle", "once", "in", "call", "await", "send", "out", "ret"}]
  BY DEF Init
<1>3. arg \in [Procs -> [unsub : BOOLEAN, err : Errors]]
  BY DEF Init, Arg, Errors
<1>4. sent \in 0..MaxNotif /\ dpc # "deliver"
  BY BufferAssumption DEF Init
<1>5. QED
  BY <1>1, <1>2, <1>3, <1>4 DEF Init, TypeInv, TypeOK

\* Leaving forward is type correct.
LEMMA LeaveForwardType ==
  ASSUME TypeOK, NEW b \in BOOLEAN, NEW e \in Errors, LeaveForward(b, e)
  PROVE  /\ forwarding' \in BOOLEAN
         /\ buffer' \in Seq(1..MaxNotif) /\ Len(buffer') <= MaxBuffer
         /\ qpc' \in [Procs -> {"idle", "once", "in", "call", "await", "send", "out", "ret"}]
         /\ arg' \in [Procs -> [unsub : BOOLEAN, err : Errors]]
<1>1. forwarding' \in BOOLEAN
  BY DEF LeaveForward
<1>2. buffer' \in Seq(1..MaxNotif) /\ Len(buffer') <= MaxBuffer
  BY BufferAssumption DEF LeaveForward
<1>3. qpc' \in [Procs -> {"idle", "once", "in", "call", "await", "send", "out", "ret"}]
  BY DEF TypeOK, LeaveForward
<1>4. Arg(b, e) \in [unsub : BOOLEAN, err : Errors]
  BY DEF Arg
<1>5. arg' \in [Procs -> [unsub : BOOLEAN, err : Errors]]
  BY <1>4 DEF TypeOK, LeaveForward
<1>6. QED
  BY <1>1, <1>2, <1>3, <1>5

\* Every step is type correct.
LEMMA TypeStep == TypeInv /\ [Next]_vars => TypeInv'
<1> SUFFICES ASSUME TypeInv, [Next]_vars PROVE TypeInv'
  OBVIOUS
<1> USE BufferAssumption DEF TypeInv
<1>1. CASE Notification \/ DeliverQuit
  BY <1>1 DEF TypeOK, Notification, DeliverQuit
<1>2. CASE ForwardIn
  <2>1. sent \in 1..MaxNotif
    BY <1>2 DEF TypeOK, ForwardIn
  <2>2. buffer' \in Seq(1..MaxNotif) /\ Len(buffer') <= MaxBuffer
    BY <1>2, <2>1 DEF TypeOK, ForwardIn
  <2>3. QED
    BY <1>2, <2>2 DEF TypeOK, ForwardIn
<1>3. CASE ForwardOverflow
  BY <1>3, LeaveForwardType DEF TypeOK, ForwardOverflow, Errors
<1>4. CASE ForwardDecodeError
  BY <1>4, LeaveForwardType DEF TypeOK, ForwardDecodeError, Errors
<1>5. CASE ForwardOut
  BY <1>5 DEF TypeOK, ForwardOut
<1>6. CASE ForwardQuit
  BY <1>6, LeaveForwardType DEF TypeOK, ForwardQuit, Errors
<1>7. ASSUME NEW u \in Users, Unsubscribe(u) PROVE TypeInv'
  BY <1>7 DEF TypeOK, Unsubscribe, Arg, Errors, Procs
<1>8. ASSUME NEW err \in {"quit", "lost"}, Cancel(err) PROVE TypeInv'
  BY <1>8 DEF TypeOK, Cancel, Arg, Errors, Procs
<1>9. ASSUME NEW p \in Procs, EnterOnce(p) \/ SkipOnce(p) PROVE TypeInv'
  BY <1>9 DEF TypeOK, EnterOnce, SkipOnce
<1>10. ASSUME NEW p \in Procs, CloseQuit(p) \/ RequestUnsubscribe(p) \/ CallReturns(p) PROVE TypeInv'
  BY <1>10 DEF TypeOK, CloseQuit, RequestUnsubscribe, CallReturns
<1>11. ASSUME NEW p \in Procs, SendErr(p) PROVE TypeInv'
  BY <1>11 DEF TypeOK, SendErr, Errors
<1>12. ASSUME NEW p \in Procs, LeaveQuit(p) PROVE TypeInv'
  BY <1>12 DEF TypeOK, LeaveQuit
<1>13. CASE UNCHANGED vars
  BY <1>13 DEF TypeOK, vars
<1>14. QED
  BY <1>1, <1>2, <1>3, <1>4, <1>5, <1>6, <1>7, <1>8, <1>9, <1>10, <1>11, <1>12, <1>13
  DEF Next, QuitWithError

\* The goroutines of a subscription keep its fields in their ranges; the buffer
\* never holds more than maxClientSubscriptionBuffer values.
THEOREM SubscriptionTypeCorrect == Spec => []TypeOK
<1>1. TypeInv => TypeOK
  BY DEF TypeInv
<1>2. QED
  BY <1>1, TypeInit, TypeStep, PTL DEF Spec

-----------------------------------------------------------------------------
(* Whose reason sub.err carries.                                           *)

\* The arguments with which each goroutine may be in quitWithError. Those of
\* dispatch and forward are set when they get there and never again.
Reasons ==
    /\ \A u \in Users : arg[u].err = "nil"
    /\ arg["dispatch"].err \in {"nil", "quit", "lost"}
    /\ dpc \in {"quitting", "done"} <=> qpc["dispatch"] # "idle"
    /\ dpc \in {"select", "deliver"} => arg["dispatch"].err = "nil"
    /\ arg["forward"].err \in {"nil", "overflow", "decode"}
    /\ arg["forward"].err # "nil" => arg["forward"].unsub = TRUE
    /\ forwarding => qpc["forward"] = "idle" /\ arg["forward"].err = "nil"

\* What keeps the reported reason true.
WhyInv == TypeInv /\ QuitInv /\ Reasons /\ ErrTellsWhy

\* At first nobody has a reason to end the subscription.
LEMMA WhyInit == Init => WhyInv
<1> SUFFICES ASSUME Init PROVE WhyInv
  OBVIOUS
<1>1. TypeInv /\ QuitInv
  BY TypeInit, QuitInit
<1>2. Reasons
  BY DEF Init, Reasons, Arg, Procs
<1>3. ErrTellsWhy
  BY DEF Init, ErrTellsWhy
<1>4. QED
  BY <1>1, <1>2, <1>3 DEF WhyInv

\* A goroutine that leaves forward does so once, with its own reason.
LEMMA LeaveForwardWhy ==
  ASSUME WhyInv, NEW b \in BOOLEAN, NEW e \in {"nil", "overflow", "decode"},
         e # "nil" => b = TRUE, forwarding, LeaveForward(b, e), UNCHANGED <<errBuf, ender>>,
         dpc' = dpc \/ (dpc = "deliver" /\ dpc' = "select")
  PROVE  Reasons' /\ ErrTellsWhy'
<1>1. /\ arg' = [arg EXCEPT !["forward"] = [unsub |-> b, err |-> e]]
      /\ qpc' = [qpc EXCEPT !["forward"] = "once"]
      /\ forwarding' = FALSE
  BY DEF LeaveForward, Arg
<1>2. /\ arg'["forward"] = [unsub |-> b, err |-> e]
      /\ \A p \in Procs \ {"forward"} : arg'[p] = arg[p] /\ qpc'[p] = qpc[p]
  BY <1>1 DEF WhyInv, TypeInv, TypeOK, Procs
<1>3. "dispatch" \in Procs \ {"forward"} /\ Users \subseteq Procs \ {"forward"}
  BY UsersAssumption DEF Procs
<1>4. Reasons'
  BY <1>1, <1>2, <1>3 DEF WhyInv, Reasons
<1>5. errBuf \notin {"overflow", "decode"}
  BY DEF WhyInv, Reasons, ErrTellsWhy, Arg
<1>6. ErrTellsWhy'
  BY <1>2, <1>3, <1>5 DEF WhyInv, ErrTellsWhy, ClientClosing, ConnLost
<1>7. QED
  BY <1>4, <1>6

\* Every step keeps the reasons apart: what is sent on sub.err is the reason of the
\* goroutine that is inside sub.quitOnce.
LEMMA WhyStep == WhyInv /\ [Next]_vars => WhyInv'
<1> SUFFICES ASSUME WhyInv, [Next]_vars PROVE Reasons' /\ ErrTellsWhy'
  BY TypeStep, QuitStep DEF WhyInv
<1> USE UsersAssumption
<1>0. TypeOK
  BY DEF WhyInv, TypeInv
<1>1. CASE Notification \/ DeliverQuit \/ ForwardIn \/ ForwardOut
  <2>1. /\ UNCHANGED <<qpc, arg, forwarding, errBuf, ender>>
        /\ dpc' = dpc \/ (dpc \in {"select", "deliver"} /\ dpc' \in {"select", "deliver"})
    BY <1>1 DEF Notification, DeliverQuit, ForwardIn, ForwardOut
  <2>2. Reasons'
    BY <2>1 DEF WhyInv, Reasons
  <2>3. ErrTellsWhy'
    BY <2>1 DEF WhyInv, ErrTellsWhy, ClientClosing, ConnLost
  <2>4. QED
    BY <2>2, <2>3
<1>2. CASE ForwardOverflow
  BY <1>2, LeaveForwardWhy DEF ForwardOverflow
<1>3. CASE ForwardDecodeError
  BY <1>3, LeaveForwardWhy DEF ForwardDecodeError
<1>4. CASE ForwardQuit
  BY <1>4, LeaveForwardWhy DEF ForwardQuit
<1>5. ASSUME NEW u \in Users, Unsubscribe(u) PROVE Reasons' /\ ErrTellsWhy'
  BY <1>0, <1>5 DEF WhyInv, Reasons, ErrTellsWhy, ClientClosing, ConnLost, Unsubscribe, Arg,
                    TypeOK, Procs
<1>6. ASSUME NEW err \in {"quit", "lost"}, Cancel(err) PROVE Reasons' /\ ErrTellsWhy'
  BY <1>0, <1>6 DEF WhyInv, Reasons, ErrTellsWhy, ClientClosing, ConnLost, Cancel, Arg,
                    TypeOK, Procs
<1>7. ASSUME NEW p \in Procs,
             EnterOnce(p) \/ SkipOnce(p) \/ CloseQuit(p) \/ RequestUnsubscribe(p) \/ CallReturns(p)
      PROVE Reasons' /\ ErrTellsWhy'
  <2>1. /\ UNCHANGED <<dpc, arg, forwarding, errBuf>>
        /\ qpc[p] # "idle"
        /\ \E x \in {"in", "out", "call", "await", "send"} : qpc' = [qpc EXCEPT ![p] = x]
    BY <1>7 DEF EnterOnce, SkipOnce, CloseQuit, RequestUnsubscribe, CallReturns
  <2>2. Reasons'
    BY <1>0, <2>1 DEF WhyInv, Reasons, TypeOK, Procs
  <2>3. errBuf = "none" \/ ender' = ender
    BY <1>7 DEF EnterOnce, SkipOnce, CloseQuit, RequestUnsubscribe, CallReturns, WhyInv, QuitInv, OnceInv
  <2>4. ErrTellsWhy'
    BY <2>1, <2>3 DEF WhyInv, ErrTellsWhy, ClientClosing, ConnLost
  <2>5. QED
    BY <2>2, <2>4
<1>8. ASSUME NEW p \in Procs, SendErr(p) PROVE Reasons' /\ ErrTellsWhy'
  <2>1. Reasons'
    BY <1>0, <1>8 DEF WhyInv, Reasons, SendErr, TypeOK, Procs
  <2>2. ender' = p /\ ender = p
    BY <1>8 DEF WhyInv, QuitInv, EnderInv, Inside, SendErr
  <2>3. ErrTellsWhy'
    BY <1>0, <1>8, <2>2 DEF WhyInv, Reasons, ErrTellsWhy, ClientClosing, ConnLost, SendErr, TypeOK, Procs, Arg
  <2>4. QED
    BY <2>1, <2>3
<1>9. ASSUME NEW p \in Procs, LeaveQuit(p) PROVE Reasons' /\ ErrTellsWhy'
  BY <1>0, <1>9 DEF WhyInv, Reasons, ErrTellsWhy, ClientClosing, ConnLost, LeaveQuit, TypeOK, Procs
<1>10. CASE UNCHANGED vars
  BY <1>10 DEF WhyInv, Reasons, ErrTellsWhy, ClientClosing, ConnLost, vars
<1>11. QED
  BY <1>1, <1>2, <1>3, <1>4, <1>5, <1>6, <1>7, <1>8, <1>9, <1>10 DEF Next, QuitWithError

\* What the user reads from sub.err is the reason of the goroutine that ended the
\* subscription, whoever else tried to end it at the same time.
THEOREM ErrTruthful == Spec => []ErrTellsWhy
<1>1. WhyInv => ErrTellsWhy
  BY DEF WhyInv
<1>2. QED
  BY <1>1, WhyInit, WhyStep, PTL DEF Spec

-----------------------------------------------------------------------------
(* The subscription implements NotificationFeed.                           *)

\* sub.quit is closed before the server is called and before anything is reported
QuitFirst ==
    /\ \A p \in Procs : qpc[p] \in {"call", "await", "send"} => quit
    /\ once = "done" => quit

\* the number of the last notification the user has received
Last == IF received = <<>> THEN 0 ELSE received[Len(received)]

\* What is in the buffer was sent after what the user has, in order, and before
\* what dispatch is delivering.
Ordered ==
    /\ Last <= sent
    /\ dpc = "deliver" => Last < sent
    /\ \A i, j \in DOMAIN buffer : i < j => buffer[i] < buffer[j]
    /\ \A i \in DOMAIN buffer : /\ Last < buffer[i]
                                /\ buffer[i] <= sent
                                /\ dpc = "deliver" => buffer[i] < sent

\* Until the end nothing is missing between the user and dispatch.  (After
\* close(sub.quit) dispatch may drop what it delivers while forward goes on.)
Gapless ==
    forwarding /\ ~quit =>
        /\ \A i \in DOMAIN buffer : buffer[i] = Last + i
        /\ sent = Last + Len(buffer) + (IF dpc = "deliver" THEN 1 ELSE 0)

\* What the refinement rests on.
FeedInv == TypeInv /\ QuitInv /\ QuitFirst /\ Ordered /\ Gapless

\* Last is a number, and so is everything in the buffer.
LEMMA LastType == TypeInv => Last \in Nat /\ \A i \in DOMAIN buffer : buffer[i] \in Nat
  BY BufferAssumption DEF TypeInv, TypeOK, Last

\* A new subscription has an empty buffer and nothing on its way.
LEMMA FeedInit == Init => FeedInv
<1> SUFFICES ASSUME Init PROVE FeedInv
  OBVIOUS
<1>1. TypeInv /\ QuitInv
  BY TypeInit, QuitInit
<1>2. QuitFirst
  BY DEF Init, QuitFirst
<1>3. Ordered /\ Gapless
  BY DEF Init, Ordered, Gapless, Last
<1>4. QED
  BY <1>1, <1>2, <1>3 DEF FeedInv

\* close(sub.quit) comes first on every way through quitWithError.
LEMMA QuitFirstStep == FeedInv /\ [Next]_vars => QuitFirst'
<1> SUFFICES ASSUME FeedInv, [Next]_vars PROVE QuitFirst'
  OBVIOUS
<1> USE DEF FeedInv, QuitFirst, QuitInv, QuitType
<1>1. CASE Notification \/ DeliverQuit \/ ForwardIn \/ ForwardOut
  BY <1>1 DEF Notification, DeliverQuit, ForwardIn, ForwardOut
<1>2. CASE ForwardOverflow \/ ForwardDecodeError \/ ForwardQuit
  BY <1>2 DEF ForwardOverflow, ForwardDecodeError, ForwardQuit, LeaveForward
<1>3. ASSUME NEW u \in Users, Unsubscribe(u) PROVE QuitFirst'
  BY <1>3 DEF Unsubscribe
<1>4. ASSUME NEW err \in {"quit", "lost"}, Cancel(err) PROVE QuitFirst'
  BY <1>4 DEF Cancel
<1>5. ASSUME NEW p \in Procs, EnterOnce(p) \/ SkipOnce(p) \/ CloseQuit(p) PROVE QuitFirst'
  BY <1>5 DEF EnterOnce, SkipOnce, CloseQuit
<1>6. ASSUME NEW p \in Procs, RequestUnsubscribe(p) \/ CallReturns(p) \/ SendErr(p) \/ LeaveQuit(p)
      PROVE QuitFirst'
  BY <1>6 DEF RequestUnsubscribe, CallReturns, SendErr, LeaveQuit
<1>7. CASE UNCHANGED vars
  BY <1>7 DEF vars
<1>8. QED
  BY <1>1, <1>2, <1>3, <1>4, <1>5, <1>6, <1>7 DEF Next, QuitWithError

\* The steps that move no notification leave the order alone.
LEMMA OrderKept ==
  ASSUME FeedInv, UNCHANGED <<sent, received>>, UNCHANGED buffer \/ buffer' = <<>>,
         dpc' = dpc \/ dpc' # "deliver",
         (forwarding /\ ~quit)' => forwarding /\ ~quit /\ UNCHANGED buffer,
         (forwarding /\ ~quit)' => (dpc' = "deliver" <=> dpc = "deliver")
  PROVE  Ordered' /\ Gapless'
<1>1. Last' = Last
  BY DEF Last
<1>2. Ordered'
  BY <1>1 DEF FeedInv, Ordered
<1>3. Gapless'
  BY <1>1 DEF FeedInv, Gapless
<1>4. QED
  BY <1>2, <1>3

\* Every step of dispatch, forward and the users keeps the notifications in order
\* and, until the end, without a gap.
LEMMA FeedStep == FeedInv /\ [Next]_vars => FeedInv'
<1> SUFFICES ASSUME FeedInv, [Next]_vars PROVE Ordered' /\ Gapless'
  BY TypeStep, QuitStep, QuitFirstStep DEF FeedInv
<1>0. /\ Last \in Nat /\ sent \in Nat /\ \A i \in DOMAIN buffer : buffer[i] \in Nat
      /\ buffer \in Seq(1..MaxNotif) /\ received \in Seq(1..MaxNotif)
  BY LastType, BufferAssumption DEF FeedInv, TypeInv, TypeOK
<1>1. CASE Notification
  <2>1. Last' = Last /\ sent' = sent + 1
    BY <1>1 DEF Notification, Last
  <2>2. Ordered'
    BY <1>0, <1>1, <2>1 DEF Notification, FeedInv, Ordered
  <2>3. Gapless'
    BY <1>0, <1>1, <2>1 DEF Notification, FeedInv, Gapless
  <2>4. QED
    BY <2>2, <2>3
<1>2. CASE DeliverQuit
  BY <1>2, OrderKept DEF DeliverQuit
<1>3. CASE ForwardIn
  <2>1. /\ Last' = Last /\ sent' = sent /\ dpc = "deliver" /\ dpc' = "select"
        /\ Len(buffer') = Len(buffer) + 1
        /\ \A i \in 1..Len(buffer) : buffer'[i] = buffer[i]
        /\ buffer'[Len(buffer) + 1] = sent
        /\ DOMAIN buffer' = 1..Len(buffer) + 1 /\ DOMAIN buffer = 1..Len(buffer)
        /\ Len(buffer) \in Nat
    BY <1>0, <1>3 DEF ForwardIn, Last
  <2>2. Ordered'
    <3>1. /\ \A i, j \in 1..Len(buffer) : i < j => buffer[i] < buffer[j]
          /\ \A i \in 1..Len(buffer) : Last < buffer[i] /\ buffer[i] < sent
          /\ Last < sent
      BY <2>1 DEF FeedInv, Ordered
    <3>2. \A i \in 1..Len(buffer) + 1 : i = Len(buffer) + 1 \/ i \in 1..Len(buffer)
      BY <2>1
    <3>3. \A i \in 1..Len(buffer) + 1 : Last < buffer'[i] /\ buffer'[i] <= sent
      BY <1>0, <2>1, <3>1, <3>2
    <3>4. \A i, j \in 1..Len(buffer) + 1 : i < j => i \in 1..Len(buffer)
      BY <2>1
    <3>5. \A i, j \in 1..Len(buffer) + 1 : i < j => buffer'[i] < buffer'[j]
      BY <2>1, <3>1, <3>2, <3>4
    <3>6. QED
      BY <1>0, <2>1, <3>1, <3>3, <3>5 DEF Ordered
  <2>3. ASSUME (forwarding /\ ~quit)' PROVE Gapless'
    <3>1. /\ \A i \in 1..Len(buffer) : buffer[i] = Last + i
          /\ sent = Last + Len(buffer) + 1
      BY <1>3, <2>1, <2>3 DEF ForwardIn, FeedInv, Gapless
    <3>2. \A i \in 1..Len(buffer) + 1 : i = Len(buffer) + 1 \/ i \in 1..Len(buffer)
      BY <2>1
    <3>3. \A i \in 1..Len(buffer) + 1 : buffer'[i] = Last + i
      BY <1>0, <2>1, <3>1, <3>2
    <3>4. sent = Last + Len(buffer')
      BY <1>0, <2>1, <3>1
    <3>5. QED
      BY <1>0, <2>1, <3>3, <3>4 DEF Gapless
  <2>4. QED
    BY <2>2, <2>3 DEF Gapless
<1>4. CASE ForwardOverflow \/ ForwardDecodeError \/ ForwardQuit
  BY <1>4, OrderKept DEF ForwardOverflow, ForwardDecodeError, ForwardQuit, LeaveForward
<1>5. CASE ForwardOut
  <2>1. /\ Last' = buffer[1] /\ sent' = sent /\ dpc' = dpc
        /\ Len(buffer') = Len(buffer) - 1
        /\ \A i \in 1..Len(buffer) - 1 : buffer'[i] = buffer[i + 1]
        /\ DOMAIN buffer' = 1..Len(buffer) - 1 /\ DOMAIN buffer = 1..Len(buffer)
        /\ Len(buffer) \in Nat \ {0}
    BY <1>0, <1>5 DEF ForwardOut, Last
  <2>2. /\ \A i, j \in 1..Len(buffer) : i < j => buffer[i] < buffer[j]
        /\ \A i \in 1..Len(buffer) : buffer[i] <= sent /\ (dpc = "deliver" => buffer[i] < sent)
    BY <2>1 DEF FeedInv, Ordered
  <2>3. /\ \A i, j \in 1..Len(buffer) - 1 : i < j => buffer'[i] < buffer'[j]
        /\ \A i \in 1..Len(buffer) - 1 : buffer[1] < buffer'[i] /\ buffer'[i] <= sent
                                        /\ (dpc = "deliver" => buffer'[i] < sent)
        /\ buffer[1] <= sent /\ (dpc = "deliver" => buffer[1] < sent)
    BY <2>1, <2>2
  <2>4. Ordered'
    BY <2>1, <2>3 DEF Ordered
  <2>5. ASSUME (forwarding /\ ~quit)' PROVE Gapless'
    <3>1. /\ \A i \in 1..Len(buffer) : buffer[i] = Last + i
          /\ sent = Last + Len(buffer) + (IF dpc = "deliver" THEN 1 ELSE 0)
      BY <1>5, <2>1, <2>5 DEF ForwardOut, FeedInv, Gapless
    <3>2. Last' = Last + 1
      BY <2>1, <3>1
    <3>3. \A i \in 1..Len(buffer) - 1 : buffer'[i] = Last' + i
      BY <1>0, <2>1, <3>1, <3>2
    <3>4. sent' = Last' + Len(buffer') + (IF dpc' = "deliver" THEN 1 ELSE 0)
      BY <1>0, <2>1, <3>1, <3>2
    <3>5. QED
      BY <2>1, <3>3, <3>4 DEF Gapless
  <2>6. QED
    BY <2>4, <2>5 DEF Gapless
<1>6. ASSUME NEW u \in Users, Unsubscribe(u) PROVE Ordered' /\ Gapless'
  BY <1>6, OrderKept DEF Unsubscribe
<1>7. ASSUME NEW err \in {"quit", "lost"}, Cancel(err) PROVE Ordered' /\ Gapless'
  BY <1>7, OrderKept DEF Cancel
<1>8. ASSUME NEW p \in Procs, QuitWithError(p) \/ CallReturns(p) PROVE Ordered' /\ Gapless'
  <2>1. CASE EnterOnce(p) \/ SkipOnce(p) \/ CloseQuit(p) \/ RequestUnsubscribe(p) \/ CallReturns(p) \/ SendErr(p)
    BY <2>1, OrderKept DEF EnterOnce, SkipOnce, CloseQuit, RequestUnsubscribe, CallReturns, SendErr
  <2>2. CASE LeaveQuit(p)
    <3>1. p = "dispatch" => quit
      BY <2>2 DEF LeaveQuit, FeedInv, QuitInv, OnceInv, QuitFirst
    <3>2. QED
      BY <2>2, <3>1, OrderKept DEF LeaveQuit
  <2>3. QED
    BY <1>8, <2>1, <2>2 DEF QuitWithError
<1>9. CASE UNCHANGED vars
  BY <1>9, OrderKept DEF vars
<1>10. QED
  BY <1>1, <1>2, <1>3, <1>4, <1>5, <1>6, <1>7, <1>8, <1>9 DEF Next

\* Every step of dispatch, forward and the users is a step of the feed or none.
LEMMA FeedNext == FeedInv /\ [Next]_vars => [Feed!Next]_(Feed!vars)
<1> SUFFICES ASSUME FeedInv, [Next]_vars PROVE Feed!Next \/ UNCHANGED Feed!vars
  OBVIOUS
<1>0. /\ Last \in Nat /\ sent \in Nat /\ Feed!Latest = Last
      /\ \A i \in DOMAIN buffer : buffer[i] \in Nat
      /\ buffer \in Seq(1..MaxNotif) /\ Len(buffer) <= MaxBuffer
  BY LastType, BufferAssumption DEF FeedInv, TypeInv, TypeOK, Feed!Latest, Last
<1> USE DEF Feed!vars
<1>1. CASE Notification
  <2>1. ~(quit \/ ~forwarding) => sent - Last <= MaxBuffer
    BY <1>0, <1>1, BufferAssumption DEF Notification, FeedInv, Gapless
  <2>2. Feed!Publish
    BY <1>0, <1>1, <2>1 DEF Notification, Feed!Publish
  <2>3. QED
    BY <2>2 DEF Feed!Next
<1>2. CASE DeliverQuit \/ ForwardIn
  BY <1>2 DEF DeliverQuit, ForwardIn
<1>3. CASE ForwardOverflow \/ ForwardDecodeError \/ ForwardQuit
  <2>1. Feed!Finish
    BY <1>3 DEF ForwardOverflow, ForwardDecodeError, ForwardQuit, LeaveForward, Feed!Finish
  <2>2. QED
    BY <2>1 DEF Feed!Next
<1>4. CASE ForwardOut
  <2>1. /\ Head(buffer) = buffer[1] /\ 1 \in DOMAIN buffer /\ buffer[1] \in Nat
        /\ received' = Append(received, Head(buffer))
        /\ UNCHANGED <<sent, quit, forwarding, errBuf, errClosed>> /\ forwarding
    BY <1>0, <1>4 DEF ForwardOut
  <2>2. Last < Head(buffer) /\ Head(buffer) <= sent
    BY <2>1 DEF FeedInv, Ordered
  <2>3. ~quit => Head(buffer) = Last + 1
    BY <2>1 DEF FeedInv, Gapless
  <2>4. Feed!See(Head(buffer))
    BY <1>0, <2>1, <2>2, <2>3 DEF Feed!See
  <2>5. Head(buffer) \in 1..sent
    BY <1>0, <2>1, <2>2
  <2>6. QED
    BY <2>4, <2>5 DEF Feed!Next
<1>5. ASSUME NEW u \in Users, Unsubscribe(u) PROVE UNCHANGED Feed!vars
  BY <1>5 DEF Unsubscribe
<1>6. ASSUME NEW err \in {"quit", "lost"}, Cancel(err) PROVE UNCHANGED Feed!vars
  BY <1>6 DEF Cancel
<1>7. ASSUME NEW p \in Procs, EnterOnce(p) \/ SkipOnce(p) \/ RequestUnsubscribe(p) \/ CallReturns(p)
      PROVE UNCHANGED Feed!vars
  BY <1>7 DEF EnterOnce, SkipOnce, RequestUnsubscribe, CallReturns
<1>8. ASSUME NEW p \in Procs, CloseQuit(p) PROVE Feed!Next
  <2>1. Feed!Finish
    BY <1>8 DEF CloseQuit, Feed!Finish
  <2>2. QED
    BY <2>1 DEF Feed!Next
<1>9. ASSUME NEW p \in Procs, SendErr(p) PROVE Feed!Next \/ UNCHANGED Feed!vars
  <2>1. CASE arg[p].err = "nil"
    BY <1>9, <2>1 DEF SendErr
  <2>2. CASE arg[p].err # "nil"
    <3>1. quit /\ errBuf = "none" /\ ~errClosed
      BY <1>9, <2>2 DEF SendErr, FeedInv, QuitFirst, QuitInv, QuitType, OnceInv, Inside
    <3>2. errBuf' \in {"nil", "overflow", "decode", "lost"}
      BY <1>9, <2>2 DEF SendErr, FeedInv, TypeInv, TypeOK, Errors
    <3>3. Feed!Tell(errBuf')
      BY <1>9, <3>1 DEF SendErr, Feed!Tell
    <3>4. QED
      BY <3>2, <3>3 DEF Feed!Next
  <2>3. QED
    BY <2>1, <2>2
<1>10. ASSUME NEW p \in Procs, LeaveQuit(p) PROVE Feed!Next \/ UNCHANGED Feed!vars
  <2>1. quit
    BY <1>10 DEF LeaveQuit, FeedInv, QuitInv, QuitType, OnceInv, QuitFirst
  <2>2. CASE p \in Users
    <3>1. Feed!Shut
      BY <1>10, <2>1, <2>2 DEF LeaveQuit, Feed!Shut
    <3>2. QED
      BY <3>1 DEF Feed!Next
  <2>3. CASE p \notin Users
    <3>1. errClosed' = errClosed
      BY <1>10, <2>3 DEF LeaveQuit, FeedInv, TypeInv, TypeOK
    <3>2. QED
      BY <1>10, <3>1 DEF LeaveQuit
  <2>4. QED
    BY <2>2, <2>3
<1>11. CASE UNCHANGED vars
  BY <1>11 DEF vars
<1>12. QED
  BY <1>1, <1>2, <1>3, <1>4, <1>5, <1>6, <1>7, <1>8, <1>9, <1>10, <1>11 DEF Next, QuitWithError

\* A subscription with any buffer size, however many goroutines unsubscribe and
\* whenever the client closes or the connection is lost, keeps the promises of
\* the notification feed.
THEOREM FeedImplemented == Spec => ImplementsFeed
<1>1. Init => Feed!Init
  BY DEF Init, Feed!Init
<1>2. QED
  BY <1>1, FeedInit, FeedStep, FeedNext, PTL DEF Spec, ImplementsFeed, Feed!Spec
=============================================================================
