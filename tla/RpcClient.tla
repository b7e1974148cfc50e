------------------------------ MODULE RpcClient ------------------------------
(***************************************************************************)
(* The connection engine of package simple_rpc/rpc: the dispatch goroutine *)
(* of a Client, the goroutines that call it, one read loop per connection  *)
(* and the channels between them (client.go), with the client half of the  *)
(* handler that dispatch owns (handler.go: respWait, clientSubs, close).   *)
(*                                                                         *)
(* A requestOp is an element of Ops and runs on the goroutine of its       *)
(* caller.  An unbuffered channel is a rendezvous: one action that moves   *)
(* the sender and dispatch together.  Payloads are left out; a message is  *)
(* the set of request IDs it answers and of reverse calls it carries.      *)
(***************************************************************************)
EXTENDS Naturals, FiniteSets

CONSTANTS
    Ops,          \* the requestOps of the behaviour
    NoOp,         \* the nil *requestOp
    ID,           \* request IDs
    Ids,          \* Ids[o]: op.ids; empty for Notify, several for BatchCall
    Subs,         \* ops made by Subscribe (op.sub is set)
    Unsubs,       \* ops made by requestUnsubscribe, under the quitOnce of a sub
    Target,       \* Target[u]: the subscription an unsubscribe op belongs to
    Reverse,      \* ops made by a call goroutine of the handler ('reverse calls')
    Cancellable,  \* ops whose context can expire
    Closers,      \* goroutines that call Close
    MaxConns,     \* bound: connections a behaviour dials
    CanReconnect, \* reconnectFunc # nil
    LateFail      \* a Write may fail after the peer has got the whole message

Conns == 1..MaxConns
NoConn == 0
\* Mutant of Cap: BatchCallContext makes op.resp with one slot.
CapOne(o) == IF Ids[o] = {} THEN 0 ELSE 1

Cap(o) == Cardinality(Ids[o])

ASSUME OpsAssumption ==
    /\ NoOp \notin Ops
    /\ Ids \in [Ops -> SUBSET ID]
    /\ \A o \in Ops : IsFiniteSet(Ids[o])
    /\ ID \cap Ops = {}

\* nextID hands out every ID once (atomic.AddUint32, until it wraps).
ASSUME IdsAssumption ==
    \A o, p \in Ops : o # p => Ids[o] \cap Ids[p] = {}

ASSUME KindsAssumption ==
    /\ Subs \subseteq Ops /\ Unsubs \subseteq Ops /\ Reverse \subseteq Ops
    /\ Cancellable \subseteq Ops
    /\ Subs \cap Unsubs = {} /\ Subs \cap Reverse = {} /\ Unsubs \cap Reverse = {}
    /\ Target \in [Unsubs -> Subs]
    /\ \A s \in Subs : Cap(s) = 1

ASSUME BoundsAssumption ==
    MaxConns \in Nat \ {0} /\ CanReconnect \in BOOLEAN /\ LateFail \in BOOLEAN

VARIABLES
    dpc,        \* where dispatch is
    why,        \* why dispatch is closing its handler; "exit" is never left
    lastOp,     \* the op being sent; reqInitLock is nil while it is set
    reading,    \* dispatch's flag: a read loop is running
    cur,        \* the connection of dispatch's clientConn
    respWait,   \* IDs registered with the current handler
    clientSubs, \* subscriptions registered with the current handler
    todo,       \* rest of the message dispatch is handling
    conn,       \* state of each connection
    rd,         \* the read loop of each connection
    inbox,      \* message a read loop offers on readOp
    srv,        \* what the peer may send next on each connection
    writeConn,  \* Client.writeConn
    dialed,     \* connections dialled so far, the last one being the newest
    reqSent,    \* the reqSent channel, capacity 1
    pc,         \* where the caller of each op is
    retry,      \* the retry argument of write
    buf,        \* responses waiting in op.resp
    got,        \* responses taken out of op.resp
    closed,     \* op.resp is closed
    operr,      \* op.err # nil
    subState,   \* quitOnce of each subscription
    cpc         \* where each closer is

dispatchVars == <<dpc, why, lastOp, reading, cur, respWait, clientSubs, todo>>
connVars == <<conn, rd, inbox, srv>>
sendVars == <<writeConn, dialed, reqSent>>
chanVars == <<buf, got, closed, operr>>
callerVars == <<pc, retry, subState, cpc>>
vars == <<dispatchVars, connVars, sendVars, chanVars, callerVars>>

Closing == why = "exit"      \* c.closing is closed
DidClose == dpc = "done"     \* c.didClose is closed

TypeOK ==
    /\ dpc \in {"select", "handle", "cancel", "cancelSubs", "drain", "done"}
    /\ why \in {"none", "readErr", "reconnected", "exit"}
    /\ lastOp \in Ops \cup {NoOp}
    /\ reading \in BOOLEAN
    /\ cur \in Conns
    /\ respWait \in SUBSET ID
    /\ clientSubs \in SUBSET Subs
    /\ todo \in SUBSET (ID \cup Reverse)
    /\ conn \in [Conns -> {"none", "up", "broken", "closed"}]
    /\ rd \in [Conns -> {"none", "read", "msg", "err", "done"}]
    /\ inbox \in [Conns -> SUBSET (ID \cup Reverse)]
    /\ srv \in [Conns -> SUBSET (ID \cup Reverse)]
    /\ writeConn \in Conns \cup {NoConn}
    /\ dialed \in Conns
    /\ reqSent \in {"empty", "ok", "err"}
    /\ pc \in [Ops -> {"idle", "asked", "init", "write", "handover", "sentOK",
                       "sentErr", "wait", "timeout", "ret"}]
    /\ retry \in [Ops -> BOOLEAN]
    /\ buf \in [Ops -> Nat]
    /\ got \in [Ops -> Nat]
    /\ closed \in [Ops -> BOOLEAN]
    /\ operr \in [Ops -> BOOLEAN]
    /\ subState \in [Subs -> {"new", "active", "quitting", "ended"}]
    /\ cpc \in [Closers -> {"idle", "closing", "wait", "ret"}]

\* initClient: the first connection is up and dispatch has spawned its read loop.
Init ==
    /\ dpc = "select" /\ why = "none" /\ lastOp = NoOp /\ reading = TRUE
    /\ cur = 1 /\ respWait = {} /\ clientSubs = {} /\ todo = {}
    /\ conn = [c \in Conns |-> IF c = 1 THEN "up" ELSE "none"]
    /\ rd = [c \in Conns |-> IF c = 1 THEN "read" ELSE "none"]
    /\ inbox = [c \in Conns |-> {}]
    /\ srv = [c \in Conns |-> {}]
    /\ writeConn = 1 /\ dialed = 1 /\ reqSent = "empty"
    /\ pc = [o \in Ops |-> "idle"]
    /\ retry = [o \in Ops |-> FALSE]
    /\ buf = [o \in Ops |-> 0] /\ got = [o \in Ops |-> 0]
    /\ closed = [o \in Ops |-> FALSE] /\ operr = [o \in Ops |-> FALSE]
    /\ subState = [s \in Subs |-> "new"]
    /\ cpc = [k \in Closers |-> "idle"]

-----------------------------------------------------------------------------
(* Callers: Call, BatchCall, Notify, Subscribe, Unsubscribe.               *)

\* The caller's function returns.  The op of an Unsubscribe runs inside the
\* quitOnce.Do of its subscription, which ends here.
Return(o) ==
    /\ pc' = [pc EXCEPT ![o] = "ret"]
    /\ subState' = IF o \in Unsubs THEN [subState EXCEPT ![Target[o]] = "ended"]
                                   ELSE subState
    /\ UNCHANGED <<retry, cpc>>

\* CallContext, BatchCallContext, Notify and Subscribe up to the select of send.
Start(o) ==
    /\ pc[o] = "idle" /\ o \notin Unsubs \cup Reverse
    /\ pc' = [pc EXCEPT ![o] = "init"]
    /\ UNCHANGED <<dispatchVars, connVars, sendVars, chanVars, retry, subState, cpc>>

\* quitWithError(true, _), called by Unsubscribe or when forward gives up: it
\* wins quitOnce, closes sub.quit and calls the server with a context that
\* never ends.
Unsubscribe(u) ==
    /\ u \in Unsubs /\ pc[u] = "idle" /\ subState[Target[u]] = "active"
    /\ pc' = [pc EXCEPT ![u] = "init"]
    /\ subState' = [subState EXCEPT ![Target[u]] = "quitting"]
    /\ UNCHANGED <<dispatchVars, connVars, sendVars, chanVars, retry, cpc>>

\* send: <-ctx.Done() or <-c.closing while waiting for the send lock.
SendAborted(o) ==
    /\ pc[o] = "init" /\ (o \in Cancellable \/ Closing)
    /\ Return(o)
    /\ UNCHANGED <<dispatchVars, connVars, sendVars, chanVars>>

\* write: writeJSON succeeds.  A broken connection may still take the bytes.
WriteOK(o) ==
    /\ pc[o] = "write" /\ writeConn # NoConn
    /\ conn[writeConn] \in {"up", "broken"}
    /\ srv' = IF conn[writeConn] = "up"
              THEN [srv EXCEPT ![writeConn] = @ \cup Ids[o]] ELSE srv
    /\ pc' = [pc EXCEPT ![o] = "sentOK"]
    /\ UNCHANGED <<dispatchVars, conn, rd, inbox, sendVars, chanVars, retry, subState, cpc>>

\* write: writeJSON fails, on a dead connection or at the deadline every write
\* has (the caller's or the default one); writeConn is given up and the write is
\* tried once more.
WriteFail(o) ==
    /\ pc[o] = "write" /\ writeConn # NoConn
    /\ \E arrived \in IF LateFail /\ conn[writeConn] # "closed" THEN {{}, Ids[o]} ELSE {{}} :
          srv' = [srv EXCEPT ![writeConn] = @ \cup arrived]
    /\ writeConn' = NoConn
    /\ retry' = [retry EXCEPT ![o] = TRUE]
    /\ pc' = IF retry[o] THEN [pc EXCEPT ![o] = "sentErr"] ELSE pc
    /\ UNCHANGED <<dispatchVars, conn, rd, inbox, dialed, reqSent, chanVars, subState, cpc>>

\* reconnect: there is no reconnectFunc, or it fails.
DialFail(o) ==
    /\ pc[o] = "write" /\ writeConn = NoConn
    /\ pc' = [pc EXCEPT ![o] = "sentErr"]
    /\ UNCHANGED <<dispatchVars, connVars, sendVars, chanVars, retry, subState, cpc>>

\* reconnect: reconnectFunc returns a new connection.
DialOK(o) ==
    /\ pc[o] = "write" /\ writeConn = NoConn
    /\ CanReconnect /\ dialed < MaxConns
    /\ dialed' = dialed + 1
    /\ conn' = [conn EXCEPT ![dialed + 1] = "up"]
    /\ pc' = [pc EXCEPT ![o] = "handover"]
    /\ UNCHANGED <<dispatchVars, rd, inbox, srv, writeConn, reqSent, chanVars, retry, subState, cpc>>

\* reconnect: <-c.didClose wins, the new connection is closed again.
HandoverQuit(o) ==
    /\ pc[o] = "handover" /\ DidClose
    /\ conn' = [conn EXCEPT ![dialed] = "closed"]
    /\ pc' = [pc EXCEPT ![o] = "sentErr"]
    /\ UNCHANGED <<dispatchVars, rd, inbox, srv, sendVars, chanVars, retry, subState, cpc>>

\* send: c.reqSent <- err.  A failed op and a Notify return, the others wait.
Sent(o) ==
    /\ pc[o] \in {"sentOK", "sentErr"} /\ reqSent = "empty"
    /\ reqSent' = IF pc[o] = "sentOK" THEN "ok" ELSE "err"
    /\ IF pc[o] = "sentOK" /\ Ids[o] # {}
       THEN /\ pc' = [pc EXCEPT ![o] = "wait"]
            /\ UNCHANGED <<retry, subState, cpc>>
       ELSE Return(o)
    /\ UNCHANGED <<dispatchVars, connVars, writeConn, dialed, chanVars>>

\* wait: a response arrives and op.err is read, unsynchronised with the dispatch
\* goroutine that may have set it.  The loop of BatchCallContext takes len(ids)
\* responses and ends early when it sees an error.
Receive(o) ==
    /\ pc[o] = "wait" /\ buf[o] > 0
    /\ buf' = [buf EXCEPT ![o] = @ - 1]
    /\ got' = [got EXCEPT ![o] = @ + 1]
    /\ \E errSeen \in {FALSE, operr[o]} :
          IF got[o] + 1 = Cap(o) \/ errSeen THEN Return(o) ELSE UNCHANGED callerVars
    /\ UNCHANGED <<dispatchVars, connVars, sendVars, closed, operr>>

\* wait: op.resp is closed and empty; op.err tells why.
ReceiveClosed(o) ==
    /\ pc[o] = "wait" /\ buf[o] = 0 /\ closed[o]
    /\ Return(o)
    /\ UNCHANGED <<dispatchVars, connVars, sendVars, chanVars>>

\* wait: <-ctx.Done(); the caller now offers the op on reqTimeout.
Expire(o) ==
    /\ pc[o] = "wait" /\ o \in Cancellable
    /\ pc' = [pc EXCEPT ![o] = "timeout"]
    /\ UNCHANGED <<dispatchVars, connVars, sendVars, chanVars, retry, subState, cpc>>

\* Mutant of TimeoutQuit: the select of wait lacks c.closing.
TimeoutQuitMissing(o) == FALSE /\ pc[o] = "timeout"

\* wait: c.closing lets an expired caller go.
TimeoutQuit(o) ==
    /\ pc[o] = "timeout" /\ Closing
    /\ Return(o)
    /\ UNCHANGED <<dispatchVars, connVars, sendVars, chanVars>>

-----------------------------------------------------------------------------
(* Close.                                                                  *)

CloseCall(k) ==
    /\ cpc[k] = "idle"
    /\ cpc' = [cpc EXCEPT ![k] = "closing"]
    /\ UNCHANGED <<dispatchVars, connVars, sendVars, chanVars, pc, retry, subState>>

CloseReturn(k) ==
    /\ cpc[k] \in {"closing", "wait"} /\ DidClose
    /\ cpc' = [cpc EXCEPT ![k] = "ret"]
    /\ UNCHANGED <<dispatchVars, connVars, sendVars, chanVars, pc, retry, subState>>

-----------------------------------------------------------------------------
(* Connections, their peers and the read loops.                            *)

\* The peer goes away, the network fails or the stream stops being JSON.
Break(c) ==
    /\ conn[c] = "up"
    /\ conn' = [conn EXCEPT ![c] = "broken"]
    /\ UNCHANGED <<dispatchVars, rd, inbox, srv, sendVars, chanVars, callerVars>>

\* The peer calls a method of this side; the method will make op o.
PeerCall(c, o) ==
    /\ o \in Reverse /\ pc[o] = "idle" /\ conn[c] = "up"
    /\ srv' = [srv EXCEPT ![c] = @ \cup {o}]
    /\ pc' = [pc EXCEPT ![o] = "asked"]
    /\ UNCHANGED <<dispatchVars, conn, rd, inbox, sendVars, chanVars, retry, subState, cpc>>

\* read: readBatch returns a message.  The decoder may hold messages that came
\* before the connection went down.
ReadMsg(c, m) ==
    /\ rd[c] = "read" /\ m # {} /\ m \subseteq srv[c]
    /\ Cardinality(m \cap Reverse) <= 1
    /\ srv' = [srv EXCEPT ![c] = @ \ m]
    /\ inbox' = [inbox EXCEPT ![c] = m]
    /\ rd' = [rd EXCEPT ![c] = "msg"]
    /\ UNCHANGED <<dispatchVars, conn, sendVars, chanVars, callerVars>>

\* read: readBatch fails; the loop offers the error on readErr.
ReadFail(c) ==
    /\ rd[c] = "read" /\ conn[c] # "up"
    /\ rd' = [rd EXCEPT ![c] = "err"]
    /\ UNCHANGED <<dispatchVars, conn, inbox, srv, sendVars, chanVars, callerVars>>

-----------------------------------------------------------------------------
(* dispatch: the cases of its select.                                      *)

\* Mutant of ReqInit: reqInitLock is not set to nil while a request is sent.
ReqInitUnlocked(o) ==
    /\ dpc = "select" /\ pc[o] = "init"
    /\ lastOp' = o
    /\ respWait' = respWait \cup Ids[o]
    /\ pc' = [pc EXCEPT ![o] = "write"]
    /\ UNCHANGED <<dpc, why, reading, cur, clientSubs, todo, connVars, sendVars,
                   chanVars, retry, subState, cpc>>

\* case op := <-reqInitLock: addRequestOp.
ReqInit(o) ==
    /\ dpc = "select" /\ lastOp = NoOp /\ pc[o] = "init"
    /\ lastOp' = o
    /\ respWait' = respWait \cup Ids[o]
    /\ pc' = [pc EXCEPT ![o] = "write"]
    /\ UNCHANGED <<dpc, why, reading, cur, clientSubs, todo, connVars, sendVars,
                   chanVars, retry, subState, cpc>>

\* Mutant of ReqSent: the op is removed whether or not its send failed.
ReqSentRemoves ==
    /\ dpc = "select" /\ reqSent # "empty"
    /\ respWait' = respWait \ Ids[lastOp]
    /\ lastOp' = NoOp
    /\ reqSent' = "empty"
    /\ UNCHANGED <<dpc, why, reading, cur, clientSubs, todo, connVars, writeConn,
                   dialed, chanVars, callerVars>>

\* case err := <-c.reqSent: removeRequestOp on failure, then the next request.
ReqSent ==
    /\ dpc = "select" /\ reqSent # "empty"
    /\ respWait' = IF reqSent = "err" THEN respWait \ Ids[lastOp] ELSE respWait
    /\ lastOp' = NoOp
    /\ reqSent' = "empty"
    /\ UNCHANGED <<dpc, why, reading, cur, clientSubs, todo, connVars, writeConn,
                   dialed, chanVars, callerVars>>

\* case op := <-c.reqTimeout: removeRequestOp.
ReqTimeout(o) ==
    /\ dpc = "select" /\ pc[o] = "timeout"
    /\ respWait' = respWait \ Ids[o]
    /\ Return(o)
    /\ UNCHANGED <<dpc, why, lastOp, reading, cur, clientSubs, todo, connVars,
                   sendVars, chanVars>>

\* case op := <-c.readOp.
ReadOp(c) ==
    /\ dpc = "select" /\ rd[c] = "msg"
    /\ todo' = inbox[c]
    /\ inbox' = [inbox EXCEPT ![c] = {}]
    /\ rd' = [rd EXCEPT ![c] = "read"]
    /\ dpc' = "handle"
    /\ UNCHANGED <<why, lastOp, reading, cur, respWait, clientSubs, conn, srv,
                   sendVars, chanVars, callerVars>>

\* handleResponse, no op waits for the ID.
HandleUnsolicited(i) ==
    /\ dpc = "handle" /\ i \in todo \cap ID /\ i \notin respWait
    /\ todo' = todo \ {i}
    /\ UNCHANGED <<dpc, why, lastOp, reading, cur, respWait, clientSubs, connVars,
                   sendVars, chanVars, callerVars>>

\* handleResponse of a plain op: op.resp <- msg blocks when the channel is full.
HandleResponse(o, i) ==
    /\ dpc = "handle" /\ o \notin Subs /\ i \in todo \cap Ids[o] /\ i \in respWait
    /\ buf[o] < Cap(o)
    /\ todo' = todo \ {i}
    /\ respWait' = respWait \ {i}
    /\ buf' = [buf EXCEPT ![o] = @ + 1]
    /\ UNCHANGED <<dpc, why, lastOp, reading, cur, clientSubs, connVars, sendVars,
                   got, closed, operr, callerVars>>

\* handleResponse of a Subscribe op: op.resp is closed; a valid subscription ID
\* starts the subscription, an error goes to op.err.
HandleSubscribed(s, i) ==
    /\ dpc = "handle" /\ s \in Subs /\ i \in todo \cap Ids[s] /\ i \in respWait
    /\ todo' = todo \ {i}
    /\ respWait' = respWait \ {i}
    /\ closed' = [closed EXCEPT ![s] = TRUE]
    /\ \/ /\ operr' = [operr EXCEPT ![s] = TRUE]
          /\ UNCHANGED <<clientSubs, subState>>
       \/ /\ operr' = [operr EXCEPT ![s] = FALSE]
          /\ clientSubs' = clientSubs \cup {s}
          /\ subState' = [subState EXCEPT ![s] = "active"]
    /\ UNCHANGED <<dpc, why, lastOp, reading, cur, connVars, sendVars, buf, got,
                   pc, retry, cpc>>

\* startCallProc for the calls of the message; dispatch selects again.
EndHandle ==
    /\ dpc = "handle" /\ todo \cap ID = {}
    /\ pc' = [o \in Ops |-> IF o \in todo /\ pc[o] = "asked" THEN "init" ELSE pc[o]]
    /\ todo' = {}
    /\ dpc' = "select"
    /\ UNCHANGED <<why, lastOp, reading, cur, respWait, clientSubs, connVars,
                   sendVars, chanVars, retry, subState, cpc>>

\* case err := <-c.readErr: conn.close(err, lastOp).
ReadErr(c) ==
    /\ dpc = "select" /\ rd[c] = "err"
    /\ rd' = [rd EXCEPT ![c] = "done"]
    /\ why' = "readErr"
    /\ dpc' = "cancel"
    /\ UNCHANGED <<lastOp, reading, cur, respWait, clientSubs, todo, conn, inbox,
                   srv, sendVars, chanVars, callerVars>>

\* Mutant of Attach: lastOp is not registered with the new handler.
AttachForgetsOp(r) ==
    /\ cur' = cur + 1
    /\ rd' = [r EXCEPT ![cur + 1] = "read"]
    /\ reading' = TRUE
    /\ respWait' = {}
    /\ clientSubs' = {}
    /\ dpc' = "select"
    /\ why' = "none"

\* go c.read(newcodec), a new handler, addRequestOp(lastOp).  Connections are
\* handed over in the order they are dialled, so newcodec is cur + 1; r is rd
\* with the end of the old read loop accounted for.
Attach(r) ==
    /\ cur' = cur + 1
    /\ rd' = [r EXCEPT ![cur + 1] = "read"]
    /\ reading' = TRUE
    /\ respWait' = Ids[lastOp]
    /\ clientSubs' = {}
    /\ dpc' = "select"
    /\ why' = "none"

\* Mutants of Reconnected: the old read loop is left running; the caller is not
\* released and hands its connection over again.
ReconnectedKeepsReader(o) ==
    /\ dpc = "select" /\ pc[o] = "handover"
    /\ pc' = [pc EXCEPT ![o] = "write"]
    /\ writeConn' = dialed
    /\ Attach(rd)
    /\ UNCHANGED <<lastOp, todo, conn, inbox, srv, dialed, reqSent, chanVars,
                   retry, subState, cpc>>

ReconnectedAgain(o) ==
    /\ dpc = "select" /\ pc[o] = "handover"
    /\ pc' = pc
    /\ writeConn' = dialed
    /\ Attach(rd)
    /\ UNCHANGED <<lastOp, todo, conn, inbox, srv, dialed, reqSent, chanVars,
                   retry, subState, cpc>>

\* case newcodec := <-c.reconnected; an old read loop is closed down first.
Reconnected(o) ==
    /\ dpc = "select" /\ pc[o] = "handover"
    /\ pc' = [pc EXCEPT ![o] = "write"]
    /\ writeConn' = dialed
    /\ IF reading
       THEN /\ why' = "reconnected"
            /\ dpc' = "cancel"
            /\ UNCHANGED <<cur, rd, reading, respWait, clientSubs>>
       ELSE Attach(rd)
    /\ UNCHANGED <<lastOp, todo, conn, inbox, srv, dialed, reqSent, chanVars,
                   retry, subState, cpc>>

\* case <-c.close: dispatch returns and its deferred function closes c.closing.
CloseReq(k) ==
    /\ dpc = "select" /\ cpc[k] = "closing"
    /\ cpc' = [cpc EXCEPT ![k] = "wait"]
    /\ why' = "exit"
    /\ dpc' = IF reading THEN "cancel" ELSE "done"
    /\ UNCHANGED <<lastOp, reading, cur, respWait, clientSubs, todo, connVars,
                   sendVars, chanVars, pc, retry, subState>>

-----------------------------------------------------------------------------
(* dispatch: clientConn.close and drainRead.                               *)

\* cancelAllRequests, first loop: every op but the in-flight one is closed with
\* err; the in-flight one is forgotten.  The exit path spares nobody.
Spared == IF why = "exit" THEN NoOp ELSE lastOp

\* Mutant of CancelRequests: the ops stay in respWait.
CancelRequestsKeeps ==
    LET hit == {o \in Ops \ {Spared} : Ids[o] \cap respWait # {}} IN
    /\ dpc = "cancel"
    /\ closed' = [o \in Ops |-> closed[o] \/ o \in hit]
    /\ operr' = [o \in Ops |-> operr[o] \/ o \in hit]
    /\ dpc' = "cancelSubs"
    /\ UNCHANGED <<why, lastOp, reading, cur, respWait, clientSubs, todo, connVars,
                   sendVars, buf, got, callerVars>>

CancelRequests ==
    LET hit == {o \in Ops \ {Spared} : Ids[o] \cap respWait # {}} IN
    /\ dpc = "cancel"
    /\ respWait' = {}
    /\ closed' = [o \in Ops |-> closed[o] \/ o \in hit]
    /\ operr' = [o \in Ops |-> operr[o] \/ o \in hit]
    /\ dpc' = "cancelSubs"
    /\ UNCHANGED <<why, lastOp, reading, cur, clientSubs, todo, connVars, sendVars,
                   buf, got, callerVars>>

\* cancelAllRequests, second loop: quitWithError(false, err) of one subscription
\* waits while another goroutine is inside its quitOnce.
CancelSub(s) ==
    /\ dpc = "cancelSubs" /\ s \in clientSubs /\ subState[s] # "quitting"
    /\ clientSubs' = clientSubs \ {s}
    /\ subState' = [subState EXCEPT ![s] = "ended"]
    /\ UNCHANGED <<dpc, why, lastOp, reading, cur, respWait, todo, connVars,
                   sendVars, chanVars, pc, retry, cpc>>

\* callWG: goroutines running a method the peer called.
CallProcs == {o \in Reverse : pc[o] \notin {"idle", "asked", "ret"}}

\* Mutant of CloseCodec: the connection is not closed.
CloseCodecLeaksConn ==
    /\ dpc = "cancelSubs" /\ clientSubs = {} /\ CallProcs = {}
    /\ IF why = "readErr"
       THEN /\ reading' = FALSE
            /\ why' = "none"
            /\ dpc' = "select"
       ELSE /\ dpc' = "drain"
            /\ UNCHANGED <<reading, why>>
    /\ UNCHANGED <<lastOp, cur, respWait, clientSubs, todo, connVars,
                   sendVars, chanVars, callerVars>>

\* handler.close: callWG.Wait(), cancelRoot(); then codec.close().
CloseCodec ==
    /\ dpc = "cancelSubs" /\ clientSubs = {} /\ CallProcs = {}
    /\ conn' = [conn EXCEPT ![cur] = "closed"]
    /\ IF why = "readErr"
       THEN /\ reading' = FALSE
            /\ why' = "none"
            /\ dpc' = "select"
       ELSE /\ dpc' = "drain"
            /\ UNCHANGED <<reading, why>>
    /\ UNCHANGED <<lastOp, cur, respWait, clientSubs, todo, rd, inbox, srv,
                   sendVars, chanVars, callerVars>>

\* drainRead drops a message.
DrainOp(c) ==
    /\ dpc = "drain" /\ rd[c] = "msg"
    /\ rd' = [rd EXCEPT ![c] = "read"]
    /\ inbox' = [inbox EXCEPT ![c] = {}]
    /\ UNCHANGED <<dispatchVars, conn, srv, sendVars, chanVars, callerVars>>

\* drainRead gets the read loop's error: the loop has ended.
DrainErr(c) ==
    /\ dpc = "drain" /\ rd[c] = "err"
    /\ IF why = "exit"
       THEN /\ rd' = [rd EXCEPT ![c] = "done"]
            /\ dpc' = "done"
            /\ UNCHANGED <<why, reading, cur, respWait, clientSubs>>
       ELSE Attach([rd EXCEPT ![c] = "done"])
    /\ UNCHANGED <<lastOp, todo, conn, inbox, srv, sendVars, chanVars, callerVars>>

-----------------------------------------------------------------------------
\* what the goroutine of a caller does by itself once the call has begun
Proceed(o) ==
    \/ SendAborted(o) \/ WriteOK(o) \/ WriteFail(o) \/ DialFail(o) \/ DialOK(o)
    \/ HandoverQuit(o) \/ Sent(o) \/ Receive(o) \/ ReceiveClosed(o) \/ Expire(o) \/ TimeoutQuit(o)

Caller(o) == Start(o) \/ Unsubscribe(o) \/ Proceed(o)

Closer(k) == CloseCall(k) \/ CloseReturn(k)

Connection(c) ==
    \/ Break(c)
    \/ \E o \in Ops : PeerCall(c, o)
    \/ \E m \in SUBSET srv[c] : ReadMsg(c, m)
    \/ ReadFail(c)

Select ==
    \/ \E o \in Ops : ReqInit(o) \/ ReqTimeout(o) \/ Reconnected(o)
    \/ ReqSent
    \/ \E c \in Conns : ReadOp(c) \/ ReadErr(c)
    \/ \E k \in Closers : CloseReq(k)

Handle ==
    \/ \E i \in todo : HandleUnsolicited(i)
    \/ \E o \in Ops, i \in todo : HandleResponse(o, i) \/ HandleSubscribed(o, i)
    \/ EndHandle

Shutdown ==
    \/ CancelRequests
    \/ \E s \in Subs : CancelSub(s)
    \/ CloseCodec
    \/ \E c \in Conns : DrainOp(c) \/ DrainErr(c)

Next ==
    \/ \E o \in Ops : Caller(o)
    \/ \E k \in Closers : Closer(k)
    \/ \E c \in Conns : Connection(c)
    \/ Select \/ Handle \/ Shutdown

Spec == Init /\ [][Next]_vars

(* Goroutines that can run do run, and the select of dispatch passes over no *)
(* case for ever.  The peer need not answer, the network need not fail and   *)
(* nobody need call or close anything; a context that can expire does, since *)
(* it carries a deadline.                                                    *)
Fairness ==
    /\ \A o \in Ops : /\ WF_vars(Proceed(o))
                      /\ WF_vars(ReqInit(o)) /\ WF_vars(ReqTimeout(o)) /\ WF_vars(Reconnected(o))
    /\ \A k \in Closers : WF_vars(CloseReturn(k)) /\ WF_vars(CloseReq(k))
    /\ \A c \in Conns : WF_vars(ReadFail(c)) /\ WF_vars(ReadOp(c)) /\ WF_vars(ReadErr(c))
    /\ WF_vars(ReqSent) /\ WF_vars(Handle) /\ WF_vars(Shutdown)

FairSpec == Spec /\ Fairness

-----------------------------------------------------------------------------
(* Properties.                                                             *)

\* The caller holds the send lock (between reqInit and reqSent).
Sending(o) == pc[o] \in {"write", "handover", "sentOK", "sentErr"}
LiveReader(c) == rd[c] \in {"read", "msg", "err"}
Pending(o) == respWait \cap Ids[o]

\* The send lock of reqInit/reqSent works: the caller that writes on writeConn or
\* dials is the one dispatch remembers as lastOp (so a reconnect never
\* re-registers nil or a foreign op), and its send on the one-slot reqSent
\* channel never blocks, not even after dispatch has quit.
SendLock == \A o \in Ops : Sending(o) => lastOp = o /\ reqSent = "empty"

\* readOp and readErr are shared by all connections: only the read loop of
\* dispatch's current connection may be alive, otherwise a message or an error
\* of a dead connection reaches the handler of the new one; and when dispatch
\* believes a read loop is running there is one, or drainRead would hang.
SingleReader ==
    /\ \A c \in Conns : LiveReader(c) => c = cur /\ reading
    /\ dpc = "select" /\ reading => LiveReader(cur)

\* op.resp is closed at most once and never sent on afterwards: an op whose
\* channel is closed is not registered any more (handler.go:181 "Remove the op so
\* that later calls will not close op.resp again").
ClosedNotPending == \A o \in Ops : closed[o] => Pending(o) = {}

\* op.resp <- msg in handleResponse runs on the dispatch goroutine: op.resp has
\* room for every response still expected, so dispatch never waits for a caller.
RespHasRoom ==
    \A o \in Ops \ Subs : dpc = "handle" /\ todo \cap Pending(o) # {} => buf[o] < Cap(o)

\* While its caller is still there, the op in flight on a live connection is
\* registered for every response it has not been given, across reconnects too:
\* this is what addRequestOp(lastOp) on the new handler is for.
InflightRegistered ==
    dpc = "select" /\ reading /\ lastOp # NoOp =>
        \/ pc[lastOp] = "ret" \/ closed[lastOp]
        \/ Cardinality(Pending(lastOp)) + buf[lastOp] + got[lastOp] = Cap(lastOp)

\* An op loses a registered ID only together with an answer, an error on op.resp,
\* its own timeout or its own failed send; the one exception is the op in flight
\* when the handler is closed.
NoSilentDeregistration ==
    [][\A o \in Ops : Pending(o) \ respWait' # {} =>
          \/ buf'[o] = buf[o] + 1 \/ closed'[o]
          \/ pc[o] = "timeout"
          \/ lastOp = o /\ (reqSent = "err" \/ dpc = "cancel")]_vars

\* client.go:294 "dispatch has accepted the request and will close the channel
\* when it quits": once dispatch is gone no caller waits on a channel that is
\* open and empty.
QuitClosesEveryOp ==
    DidClose => \A o \in Ops : pc[o] = "wait" => closed[o] \/ buf[o] > 0

\* Close returns (client.go:242 "Close closes the client, aborting any in-flight
\* requests").
CloseReturns == \A k \in Closers : cpc[k] = "closing" ~> cpc[k] = "ret"

\* dispatch is closing its handler and waits for a goroutine that is inside the
\* quitOnce of a subscription, or for a call goroutine of the handler (callWG).
\* Either may be waiting for dispatch.
Stuck ==
    /\ dpc = "cancelSubs"
    /\ (\E s \in clientSubs : subState[s] = "quitting") \/ CallProcs # {}

\* Close returns unless dispatch is stuck for ever on one of those two: nothing
\* else on its way, the requests it aborts, a busy send lock, a read loop that has
\* to be drained, a caller that reconnects meanwhile, can hold it up.
CloseReturnsUnlessStuck ==
    \A k \in Closers : cpc[k] = "closing" ~> (cpc[k] = "ret" \/ []Stuck)

\* A call with a deadline returns, whatever the peer and the network do, with the
\* same exception (client.go:273 "If the context is canceled before the call has
\* successfully returned, CallContext returns immediately").
DeadlineReturns == \A o \in Cancellable : pc[o] = "init" ~> (pc[o] = "ret" \/ []Stuck)

-----------------------------------------------------------------------------
(* The inductive invariant behind SendLock, SingleReader and TypeOK.        *)

\* where dispatch is and why it is there go together
Phases ==
    /\ dpc \in {"select", "handle"} => why = "none"
    /\ dpc \in {"cancel", "cancelSubs"} => why # "none"
    /\ dpc = "drain" => why \in {"reconnected", "exit"}
    /\ dpc = "done" => why = "exit"

\* the lock is held while a result is on its way and during a reconnect, by an
\* op that has passed reqInit
LockHeld ==
    /\ reqSent # "empty" \/ why = "reconnected" => lastOp # NoOp
    /\ lastOp # NoOp => pc[lastOp] \notin {"idle", "asked", "init"}

\* which read loops are alive in each phase
Readers ==
    /\ \A c \in Conns : LiveReader(c) => c = cur /\ reading
    /\ why = "readErr" => \A c \in Conns : ~LiveReader(c)
    /\ reading /\ why # "readErr" /\ dpc # "done" => LiveReader(cur)
    /\ dpc \in {"cancel", "cancelSubs", "drain"} => reading

\* connections are handed over in the order they are dialled
AheadOfCur == IF why = "reconnected" THEN 1 ELSE 0
HandoverOrder ==
    dpc # "done" =>
        /\ \A o \in Ops : pc[o] = "handover" => dialed = cur + AheadOfCur + 1
        /\ (\A o \in Ops : pc[o] # "handover") => dialed = cur + AheadOfCur

ControlInv ==
    TypeOK /\ Phases /\ SendLock /\ LockHeld /\ Readers /\ HandoverOrder

(* The invariant behind ClosedNotPending, RespHasRoom and                   *)
(* InflightRegistered, which need that a failed Write reaches nobody.       *)

Unaccounted(o) == Cardinality(Pending(o)) + buf[o] + got[o]

\* before reqInit nothing is known of an op
Fresh == \A o \in Ops : pc[o] \in {"idle", "asked", "init"} =>
            ~closed[o] /\ Pending(o) = {} /\ buf[o] = 0 /\ got[o] = 0

\* an op is not answered before it is written, and only Close cancels it
Unsent == \A o \in Ops : pc[o] \in {"write", "handover"} =>
            (closed[o] => Closing) /\ buf[o] = 0 /\ got[o] = 0

\* every response on its way answers a request that was written
Solicited ==
    \A o \in Ops : \A i \in Ids[o] :
        (i \in todo \/ \E c \in Conns : i \in inbox[c] \/ i \in srv[c]) =>
            pc[o] \in {"sentOK", "wait", "timeout", "ret"}

\* the op a reconnect carries over has had no answer yet
CarriedOver ==
    why = "reconnected" => ~closed[lastOp] /\ buf[lastOp] = 0 /\ got[lastOp] = 0

\* the counting argument behind RespHasRoom
Room == \A o \in Ops : Unaccounted(o) <= Cap(o)

\* InflightRegistered, kept while dispatch handles a message
InflightCounted ==
    dpc \in {"select", "handle"} /\ reading /\ lastOp # NoOp =>
        pc[lastOp] = "ret" \/ closed[lastOp] \/ Unaccounted(lastOp) = Cap(lastOp)

ChannelInv ==
    /\ Fresh /\ Unsent /\ Solicited /\ CarriedOver
    /\ ClosedNotPending /\ Room /\ InflightCounted

(* The invariant behind NoSilentDeregistration: a handler that is replaced has *)
(* nothing registered that the new one does not get.                           *)

\* writeConn is dispatch's connection, or the one being handed over
WriteConnKnown == writeConn \in {NoConn, cur + AheadOfCur}

\* without a read loop only the op being sent can be registered, and its writes
\* all fail until it has handed a new connection over
Detached ==
    /\ dpc \in {"cancelSubs", "drain"} => respWait = {}
    /\ ~reading /\ dpc # "done" =>
          /\ conn[cur] = "closed"
          /\ \A i \in respWait : lastOp # NoOp /\ i \in Ids[lastOp]
          /\ respWait # {} => pc[lastOp] \in {"write", "handover", "sentErr"} \/ reqSent = "err"

HandoverInv == WriteConnKnown /\ Detached
=============================================================================
