------------------------- MODULE ClientSubscription -------------------------
(***************************************************************************)
(* One ClientSubscription (simple_rpc/rpc/subscription.go) after the server *)
(* has accepted it: dispatch delivers notifications to it and may cancel    *)
(* it, the forward goroutine queues them for the user's channel, the user   *)
(* receives and calls Unsubscribe, from several goroutines perhaps.  All of *)
(* them end the subscription through quitWithError, under quitOnce.         *)
(*                                                                         *)
(* Notifications are numbered in the order the server sent them.  The call  *)
(* made by requestUnsubscribe is two steps: dispatch accepts the request    *)
(* (or the client is closing), and the call returns, which nobody promises; *)
(* RpcClient models what happens in between.                                *)
(***************************************************************************)
EXTENDS Naturals, Sequences

CONSTANTS
    Users,      \* goroutines that call Unsubscribe
    MaxNotif,   \* bound: notifications the server sends
    MaxBuffer   \* maxClientSubscriptionBuffer

ASSUME BufferAssumption == MaxNotif \in Nat /\ MaxBuffer \in Nat \ {0}

\* the library's two goroutines are not among the user's
ASSUME UsersAssumption == "dispatch" \notin Users /\ "forward" \notin Users

Procs == Users \cup {"dispatch", "forward"}

VARIABLES
    dpc,        \* dispatch: "select", "deliver", "quitting" (in quitWithError), "done"
    sent,       \* notifications dispatch has taken from the connection
    forwarding, \* forward is in its loop
    buffer,     \* forward's list
    received,   \* what the user's channel has carried
    quit,       \* sub.quit is closed
    once,       \* quitOnce: "free", "held", "done"
    qpc,        \* where each goroutine is in quitWithError
    arg,        \* its arguments: unsubscribeServer and err
    errBuf,     \* the value in sub.err: "none", "nil", "overflow", "decode", "lost"
    errClosed,  \* sub.err is closed
    ender       \* history: the goroutine that runs quitOnce's function

vars == <<dpc, sent, forwarding, buffer, received, quit, once, qpc, arg, errBuf, errClosed,
          ender>>

Errors == {"nil", "quit", "overflow", "decode", "lost"}
Arg(unsub, err) == [unsub |-> unsub, err |-> err]

TypeOK ==
    /\ dpc \in {"select", "deliver", "quitting", "done"}
    /\ sent \in 0..MaxNotif
    /\ forwarding \in BOOLEAN
    /\ buffer \in Seq(1..MaxNotif) /\ Len(buffer) <= MaxBuffer
    /\ received \in Seq(1..MaxNotif)
    /\ quit \in BOOLEAN
    /\ once \in {"free", "held", "done"}
    /\ qpc \in [Procs -> {"idle", "once", "in", "call", "await", "send", "out", "ret"}]
    /\ arg \in [Procs -> [unsub : BOOLEAN, err : Errors]]
    /\ errBuf \in {"none", "nil", "overflow", "decode", "lost"}
    /\ errClosed \in BOOLEAN
    /\ ender \in Procs \cup {"nobody"}

\* handleResponse has registered the subscription and spawned start.
Init ==
    /\ dpc = "select" /\ sent = 0
    /\ forwarding = TRUE /\ buffer = <<>> /\ received = <<>>
    /\ quit = FALSE /\ once = "free"
    /\ qpc = [p \in Procs |-> "idle"]
    /\ arg = [p \in Procs |-> Arg(FALSE, "nil")]
    /\ errBuf = "none" /\ errClosed = FALSE /\ ender = "nobody"

-----------------------------------------------------------------------------
(* deliver and forward.                                                    *)

\* handleSubscriptionResult calls deliver.
Notification ==
    /\ dpc = "select" /\ sent < MaxNotif
    /\ sent' = sent + 1
    /\ dpc' = "deliver"
    /\ UNCHANGED <<forwarding, buffer, received, quit, once, qpc, arg, errBuf, errClosed, ender>>

\* deliver: <-sub.quit.
DeliverQuit ==
    /\ dpc = "deliver" /\ quit
    /\ dpc' = "select"
    /\ UNCHANGED <<sent, forwarding, buffer, received, quit, once, qpc, arg, errBuf, errClosed,
                   ender>>

\* forward returns; start passes its results to quitWithError.
LeaveForward(unsub, err) ==
    /\ forwarding' = FALSE
    /\ buffer' = <<>>
    /\ qpc' = [qpc EXCEPT !["forward"] = "once"]
    /\ arg' = [arg EXCEPT !["forward"] = Arg(unsub, err)]

\* Mutant of ForwardIn: the length of the buffer is not looked at.
ForwardInUnbounded ==
    /\ dpc = "deliver" /\ forwarding
    /\ buffer' = Append(buffer, sent)
    /\ dpc' = "select"
    /\ UNCHANGED <<sent, forwarding, received, quit, once, qpc, arg, errBuf, errClosed, ender>>

\* deliver: sub.in <- result meets forward, which has room in its buffer.
ForwardIn ==
    /\ dpc = "deliver" /\ forwarding /\ Len(buffer) # MaxBuffer
    /\ buffer' = Append(buffer, sent)
    /\ dpc' = "select"
    /\ UNCHANGED <<sent, forwarding, received, quit, once, qpc, arg, errBuf, errClosed, ender>>

\* the same with a full buffer: ErrSubscriptionQueueOverflow.
ForwardOverflow ==
    /\ dpc = "deliver" /\ forwarding /\ Len(buffer) = MaxBuffer
    /\ LeaveForward(TRUE, "overflow")
    /\ dpc' = "select"
    /\ UNCHANGED <<sent, received, quit, once, errBuf, errClosed, ender>>

\* the same with a value that does not unmarshal.
ForwardDecodeError ==
    /\ dpc = "deliver" /\ forwarding
    /\ LeaveForward(TRUE, "decode")
    /\ dpc' = "select"
    /\ UNCHANGED <<sent, received, quit, once, errBuf, errClosed, ender>>

\* Mutant of ForwardOut: the newest value is sent, the oldest removed.
ForwardOutLast ==
    /\ forwarding /\ buffer # <<>>
    /\ received' = Append(received, buffer[Len(buffer)])
    /\ buffer' = Tail(buffer)
    /\ UNCHANGED <<dpc, sent, forwarding, quit, once, qpc, arg, errBuf, errClosed, ender>>

\* forward: sub.channel <- meets a receiving user.
ForwardOut ==
    /\ forwarding /\ buffer # <<>>
    /\ received' = Append(received, Head(buffer))
    /\ buffer' = Tail(buffer)
    /\ UNCHANGED <<dpc, sent, forwarding, quit, once, qpc, arg, errBuf, errClosed, ender>>

\* forward: <-sub.quit.
ForwardQuit ==
    /\ forwarding /\ quit
    /\ LeaveForward(FALSE, "nil")
    /\ UNCHANGED <<dpc, sent, received, quit, once, errBuf, errClosed, ender>>

-----------------------------------------------------------------------------
(* quitWithError and its callers.                                          *)

\* Unsubscribe: quitWithError(true, nil).
Unsubscribe(u) ==
    /\ qpc[u] = "idle"
    /\ qpc' = [qpc EXCEPT ![u] = "once"]
    /\ arg' = [arg EXCEPT ![u] = Arg(TRUE, "nil")]
    /\ UNCHANGED <<dpc, sent, forwarding, buffer, received, quit, once, errBuf, errClosed, ender>>

\* cancelAllRequests: quitWithError(false, err), on Close or on a lost connection.
Cancel(err) ==
    /\ dpc = "select" /\ qpc["dispatch"] = "idle"
    /\ dpc' = "quitting"
    /\ qpc' = [qpc EXCEPT !["dispatch"] = "once"]
    /\ arg' = [arg EXCEPT !["dispatch"] = Arg(FALSE, err)]
    /\ UNCHANGED <<sent, forwarding, buffer, received, quit, once, errBuf, errClosed, ender>>

\* Mutant of EnterOnce: no quitOnce, everyone runs the function.
EnterAgain(p) ==
    /\ qpc[p] = "once"
    /\ once' = "held" /\ ender' = p
    /\ qpc' = [qpc EXCEPT ![p] = "in"]
    /\ UNCHANGED <<dpc, sent, forwarding, buffer, received, quit, arg, errBuf, errClosed>>

\* quitOnce.Do: the first runs the function, the others wait for its end.
EnterOnce(p) ==
    /\ qpc[p] = "once" /\ once = "free"
    /\ once' = "held" /\ ender' = p
    /\ qpc' = [qpc EXCEPT ![p] = "in"]
    /\ UNCHANGED <<dpc, sent, forwarding, buffer, received, quit, arg, errBuf, errClosed>>

\* Mutant of SkipOnce: a goroutine that comes second reports its error all the same.
SkipOnceReports(p) ==
    /\ qpc[p] = "once" /\ once = "done"
    /\ errBuf' = IF errBuf = "none" /\ ~errClosed /\ arg[p].err = "lost" THEN "lost" ELSE errBuf
    /\ qpc' = [qpc EXCEPT ![p] = "out"]
    /\ UNCHANGED <<dpc, sent, forwarding, buffer, received, quit, once, arg, errClosed, ender>>

SkipOnce(p) ==
    /\ qpc[p] = "once" /\ once = "done"
    /\ qpc' = [qpc EXCEPT ![p] = "out"]
    /\ UNCHANGED <<dpc, sent, forwarding, buffer, received, quit, once, arg, errBuf, errClosed,
                   ender>>

\* Mutant of CloseQuit: the server is called first, sub.quit is left open.
CloseQuitLate(p) ==
    /\ qpc[p] = "in"
    /\ quit' = (quit \/ ~arg[p].unsub)
    /\ qpc' = [qpc EXCEPT ![p] = IF arg[p].unsub THEN "call" ELSE "send"]
    /\ UNCHANGED <<dpc, sent, forwarding, buffer, received, once, arg, errBuf, errClosed, ender>>

\* close(sub.quit) comes first, because dispatch may be blocked in deliver.
CloseQuit(p) ==
    /\ qpc[p] = "in"
    /\ quit' = TRUE
    /\ qpc' = [qpc EXCEPT ![p] = IF arg[p].unsub THEN "call" ELSE "send"]
    /\ UNCHANGED <<dpc, sent, forwarding, buffer, received, once, arg, errBuf, errClosed, ender>>

\* c.closing is closed before Close cancels the subscriptions; a lost
\* connection cancels them without it.
ClientClosing == dpc \in {"quitting", "done"} /\ arg["dispatch"].err = "quit"
ConnLost == dpc \in {"quitting", "done"} /\ arg["dispatch"].err = "lost"

\* Mutant of RequestUnsubscribe: the call does not notice that the client closes.
RequestUnsubscribeDeaf(p) ==
    /\ qpc[p] = "call" /\ dpc = "select"
    /\ qpc' = [qpc EXCEPT ![p] = "await"]
    /\ UNCHANGED <<dpc, sent, forwarding, buffer, received, quit, once, arg, errBuf, errClosed,
                   ender>>

\* requestUnsubscribe calls the server: dispatch takes the request from reqInit,
\* or c.closing is closed and the call is over.
RequestUnsubscribe(p) ==
    /\ qpc[p] = "call"
    /\ \/ dpc = "select" /\ qpc' = [qpc EXCEPT ![p] = "await"]
       \/ ClientClosing /\ qpc' = [qpc EXCEPT ![p] = "send"]
    /\ UNCHANGED <<dpc, sent, forwarding, buffer, received, quit, once, arg, errBuf, errClosed,
                   ender>>

\* The call returns: the server has answered, the write has failed, or op.resp was
\* closed.  Its context is context.Background(), so it may also wait for ever.
CallReturns(p) ==
    /\ qpc[p] = "await"
    /\ qpc' = [qpc EXCEPT ![p] = "send"]
    /\ UNCHANGED <<dpc, sent, forwarding, buffer, received, quit, once, arg, errBuf, errClosed,
                   ender>>

\* sub.err <- err, ErrClientQuit becoming nil; then quitOnce.Do ends.
SendErr(p) ==
    /\ qpc[p] = "send"
    /\ arg[p].err # "nil" => errBuf = "none"
    /\ errBuf' = CASE arg[p].err = "nil" -> errBuf
                   [] arg[p].err = "quit" -> "nil"
                   [] OTHER -> arg[p].err
    /\ once' = "done"
    /\ qpc' = [qpc EXCEPT ![p] = "out"]
    /\ UNCHANGED <<dpc, sent, forwarding, buffer, received, quit, arg, errClosed, ender>>

\* Mutant of LeaveQuit: Unsubscribe does not close sub.err.
LeaveQuitOpen(p) ==
    /\ qpc[p] = "out"
    /\ qpc' = [qpc EXCEPT ![p] = "ret"]
    /\ dpc' = IF p = "dispatch" THEN "done" ELSE dpc
    /\ UNCHANGED <<sent, forwarding, buffer, received, quit, once, arg, errBuf, errClosed, ender>>

\* quitWithError returns; an Unsubscribe closes sub.err under errOnce.
LeaveQuit(p) ==
    /\ qpc[p] = "out"
    /\ qpc' = [qpc EXCEPT ![p] = "ret"]
    /\ errClosed' = (errClosed \/ p \in Users)
    /\ dpc' = IF p = "dispatch" THEN "done" ELSE dpc
    /\ UNCHANGED <<sent, forwarding, buffer, received, quit, once, arg, errBuf, ender>>

QuitWithError(p) ==
    \/ EnterOnce(p) \/ SkipOnce(p) \/ CloseQuit(p)
    \/ RequestUnsubscribe(p) \/ SendErr(p) \/ LeaveQuit(p)

-----------------------------------------------------------------------------
Next ==
    \/ Notification \/ DeliverQuit \/ ForwardIn \/ ForwardOverflow
    \/ ForwardDecodeError \/ ForwardOut \/ ForwardQuit
    \/ \E u \in Users : Unsubscribe(u)
    \/ \E err \in {"quit", "lost"} : Cancel(err)
    \/ \E p \in Procs : QuitWithError(p) \/ CallReturns(p)

Spec == Init /\ [][Next]_vars

(* The goroutines of the library run; the server need not notify or answer, *)
(* the user need not receive or unsubscribe, the client need not close.     *)
FairSpec ==
    /\ Spec
    /\ WF_vars(DeliverQuit \/ ForwardIn \/ ForwardOverflow)
    /\ WF_vars(ForwardQuit)
    /\ \A p \in Procs : WF_vars(QuitWithError(p))

-----------------------------------------------------------------------------
(* Properties.                                                             *)

Feed == INSTANCE NotificationFeed WITH
    Lag <- MaxBuffer, Reasons <- {"nil", "overflow", "decode", "lost"}, Nothing <- "none",
    published <- sent, seen <- received, over <- (quit \/ ~forwarding),
    told <- errBuf, shut <- errClosed

\* A subscription implements the feed: deliver, forward and the user's channel
\* keep the server's order and lose nothing before the end, a user who falls
\* more than the buffer behind ends it, and sub.err says why at most once,
\* never before the end and never after it was closed.
ImplementsFeed == Feed!Spec

\* sub.err gets at most one value and none after it was closed: a goroutine about
\* to send finds the one-slot channel empty and open (a send on a closed channel
\* panics, a send on a full one would block dispatch).
ErrChannelSafe ==
    \A p \in Procs : qpc[p] = "send" /\ arg[p].err # "nil" =>
        errBuf = "none" /\ ~errClosed

\* Subscription.Err: "The received error is nil if Close has been called on the
\* underlying client and no other error has occurred": the value is the reason of
\* the goroutine that ran quitOnce's function, never that of one that came second.
ErrTellsWhy ==
    /\ errBuf = "nil" => ClientClosing /\ ender = "dispatch"
    /\ errBuf = "lost" => ConnLost /\ ender = "dispatch"
    /\ errBuf \in {"overflow", "decode"} => arg["forward"] = Arg(TRUE, errBuf) /\ ender = "forward"

\* dispatch is never stuck on one subscription's notification, the whole
\* connection depends on it.
DeliverReturns == dpc = "deliver" ~> dpc # "deliver"

\* The unsubscribe call is waiting for the server, or for a dispatch that lost the
\* connection and is itself waiting for quitOnce.
Awaiting == \E p \in Procs : qpc[p] = "await" \/ (qpc[p] = "call" /\ ConnLost)

\* Unsubscribe returns, even when several goroutines call it and while dispatch is
\* delivering or losing the connection, unless the call to the server that it makes
\* (or that forward made before it) is never answered.
UnsubscribeReturns ==
    \A u \in Users : qpc[u] = "once" ~> (qpc[u] = "ret" \/ []Awaiting)

\* When the subscription ends the user hears of it on sub.err, by a value or by
\* its being closed, with the same exception: quitWithError reports the error only
\* after the call to the server.
EndIsReported == quit ~> (errBuf # "none" \/ errClosed \/ []Awaiting)

-----------------------------------------------------------------------------
\* What quitOnce guarantees: one goroutine at a time is inside, nothing has been
\* put in sub.err before it is done, and only then is sub.err closed.
Inside(p) == qpc[p] \in {"in", "call", "await", "send"}
OnceInv ==
    /\ \A p \in Procs : Inside(p) => once = "held"
    /\ \A p, q \in Procs : Inside(p) /\ Inside(q) => p = q
    /\ \A p \in Procs : qpc[p] \in {"out", "ret"} => once = "done"
    /\ errBuf # "none" \/ errClosed => once = "done"
    /\ forwarding => qpc["forward"] = "idle"
=============================================================================
