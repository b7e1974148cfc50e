-------------------------- MODULE RpcClientProofs --------------------------
(***************************************************************************)
(* Proofs about RpcClient for every set of ops, closers and every number of *)
(* connections.  ControlInv (who holds the send lock, which read loop is    *)
(* alive, which connection is current) is inductive by itself; ChannelInv   *)
(* (what is registered, buffered and closed for each op) is inductive       *)
(* relative to it when a failed Write has not reached the peer.             *)
(***************************************************************************)
EXTENDS RpcClient, TLAPS, FiniteSetTheorems

\* op.resp and op.ids: the cardinality facts the counting argument needs.
LEMMA Counting ==
    /\ \A o \in Ops : Cap(o) \in Nat
    /\ \A o \in Ops : \A P \in SUBSET Ids[o] :
          Cardinality(P) \in Nat /\ Cardinality(P) <= Cap(o)
    /\ \A o \in Ops : \A P \in SUBSET Ids[o] : \A i \in P :
          Cardinality(P \ {i}) = Cardinality(P) - 1
    /\ Cardinality({}) = 0
    /\ \A s \in Subs : \A i \in Ids[s] : Ids[s] = {i}
<1>1. \A o \in Ops : Cap(o) \in Nat
  BY OpsAssumption, FS_CardinalityType DEF Cap
<1>2. ASSUME NEW o \in Ops, NEW P \in SUBSET Ids[o]
      PROVE  IsFiniteSet(P) /\ Cardinality(P) \in Nat /\ Cardinality(P) <= Cap(o)
  BY OpsAssumption, FS_Subset, FS_CardinalityType DEF Cap
<1>3. ASSUME NEW o \in Ops, NEW P \in SUBSET Ids[o], NEW i \in P
      PROVE  Cardinality(P \ {i}) = Cardinality(P) - 1
  BY <1>2, FS_RemoveElement
<1>4. ASSUME NEW s \in Subs, NEW i \in Ids[s] PROVE Ids[s] = {i}
  BY OpsAssumption, KindsAssumption, FS_Singleton DEF Cap
<1>5. QED
  BY <1>1, <1>2, <1>3, <1>4, FS_EmptySet

\* Fewer registered IDs never count more.
LEMMA PendingShrinks ==
    ASSUME NEW o \in Ops, NEW P \in SUBSET Ids[o], NEW Q \in SUBSET P
    PROVE  Cardinality(Q) <= Cardinality(P)
<1>1. IsFiniteSet(P)
  BY OpsAssumption, FS_Subset
<1>2. QED
  BY <1>1, FS_Subset

\* The registered IDs of an op are counted by a natural number.
LEMMA PendingType ==
    \A o \in Ops : Cardinality(Pending(o)) \in Nat /\ Cardinality(Pending(o)') \in Nat
  BY Counting DEF Pending

\* Responses pending, buffered and taken are counted in natural numbers.
LEMMA UnaccountedType ==
    TypeOK /\ TypeOK' =>
        \A o \in Ops : Unaccounted(o) \in Nat /\ (Unaccounted(o))' \in Nat
  BY PendingType DEF TypeOK, Unaccounted

-----------------------------------------------------------------------------
\* initClient establishes ControlInv.
LEMMA ControlInit == Init => ControlInv
  BY OpsAssumption, BoundsAssumption
     DEF Init, ControlInv, TypeOK, Phases, SendLock, LockHeld, Readers, HandoverOrder,
         AheadOfCur, Sending, LiveReader, Conns, NoConn

\* Every step of a caller, a closer, a read loop or dispatch keeps ControlInv.
LEMMA ControlStep == ControlInv /\ [Next]_vars => ControlInv'
<1> SUFFICES ASSUME ControlInv, [Next]_vars PROVE ControlInv'
  OBVIOUS
<1> USE OpsAssumption, KindsAssumption, BoundsAssumption
    DEF ControlInv, TypeOK, Phases, SendLock, LockHeld, Readers, HandoverOrder,
        AheadOfCur, Sending, LiveReader, Conns, NoConn, Closing, DidClose,
        dispatchVars, connVars, sendVars, chanVars, callerVars
<1>1. ASSUME NEW o \in Ops, Start(o) PROVE ControlInv'
  BY <1>1 DEF Start
<1>2. ASSUME NEW o \in Ops, Unsubscribe(o) PROVE ControlInv'
  BY <1>2 DEF Unsubscribe
<1>3. ASSUME NEW o \in Ops, SendAborted(o) PROVE ControlInv'
  BY <1>3 DEF SendAborted, Return
<1>4. ASSUME NEW o \in Ops, WriteOK(o) PROVE ControlInv'
  BY <1>4 DEF WriteOK
<1>5. ASSUME NEW o \in Ops, WriteFail(o) PROVE ControlInv'
  BY <1>5 DEF WriteFail
<1>6. ASSUME NEW o \in Ops, DialFail(o) PROVE ControlInv'
  BY <1>6 DEF DialFail
<1>7. ASSUME NEW o \in Ops, DialOK(o) PROVE ControlInv'
  BY <1>7 DEF DialOK
<1>8. ASSUME NEW o \in Ops, HandoverQuit(o) PROVE ControlInv'
  BY <1>8 DEF HandoverQuit
<1>9. ASSUME NEW o \in Ops, Sent(o) PROVE ControlInv'
  <2>1. /\ UNCHANGED <<dispatchVars, connVars, writeConn, dialed, chanVars, retry, cpc>>
        /\ reqSent = "empty" /\ reqSent' \in {"ok", "err"} /\ Sending(o) /\ pc[o] # "handover"
    BY <1>9 DEF Sent, Return
  <2>2. PICK q \in {"wait", "ret"} : pc' = [pc EXCEPT ![o] = q]
    BY <1>9 DEF Sent, Return
  <2>3. subState' \in [Subs -> {"new", "active", "quitting", "ended"}]
    <3>1. \/ subState' = subState
          \/ o \in Unsubs /\ subState' = [subState EXCEPT ![Target[o]] = "ended"]
      BY <1>9 DEF Sent, Return
    <3>2. QED
      BY <3>1
  <2>4. TypeOK' BY <2>1, <2>2, <2>3
  <2>5. SendLock' /\ LockHeld' BY <2>1, <2>2
  <2>6. Phases' /\ Readers' BY <2>1
  <2>7. HandoverOrder' BY <2>1, <2>2
  <2>8. QED BY <2>4, <2>5, <2>6, <2>7
<1>10. ASSUME NEW o \in Ops, Receive(o) PROVE ControlInv'
  <2>1. /\ UNCHANGED <<dispatchVars, connVars, sendVars, closed, operr, retry, cpc>>
        /\ pc[o] = "wait" /\ buf' \in [Ops -> Nat] /\ got' \in [Ops -> Nat]
    BY <1>10 DEF Receive, Return
  <2>2. PICK q \in {"wait", "ret"} : pc' = [pc EXCEPT ![o] = q]
    BY <1>10 DEF Receive, Return
  <2>3. subState' \in [Subs -> {"new", "active", "quitting", "ended"}]
    BY <1>10 DEF Receive, Return
  <2>4. TypeOK' BY <2>1, <2>2, <2>3
  <2>5. SendLock' /\ LockHeld' BY <2>1, <2>2
  <2>6. Phases' /\ Readers' BY <2>1
  <2>7. HandoverOrder' BY <2>1, <2>2
  <2>8. QED BY <2>4, <2>5, <2>6, <2>7
<1>11. ASSUME NEW o \in Ops, ReceiveClosed(o) PROVE ControlInv'
  BY <1>11 DEF ReceiveClosed, Return
<1>12. ASSUME NEW o \in Ops, Expire(o) PROVE ControlInv'
  BY <1>12 DEF Expire
<1>13. ASSUME NEW o \in Ops, TimeoutQuit(o) PROVE ControlInv'
  BY <1>13 DEF TimeoutQuit, Return
<1>14. ASSUME NEW k \in Closers, CloseCall(k) PROVE ControlInv'
  BY <1>14 DEF CloseCall
<1>15. ASSUME NEW k \in Closers, CloseReturn(k) PROVE ControlInv'
  BY <1>15 DEF CloseReturn
<1>16. ASSUME NEW c \in Conns, Break(c) PROVE ControlInv'
  BY <1>16 DEF Break
<1>17. ASSUME NEW c \in Conns, NEW o \in Ops, PeerCall(c, o) PROVE ControlInv'
  BY <1>17 DEF PeerCall
<1>18. ASSUME NEW c \in Conns, NEW m \in SUBSET srv[c], ReadMsg(c, m) PROVE ControlInv'
  BY <1>18 DEF ReadMsg
<1>19. ASSUME NEW c \in Conns, ReadFail(c) PROVE ControlInv'
  BY <1>19 DEF ReadFail
<1>20. ASSUME NEW o \in Ops, ReqInit(o) PROVE ControlInv'
  BY <1>20 DEF ReqInit
<1>21. ASSUME NEW o \in Ops, ReqTimeout(o) PROVE ControlInv'
  BY <1>21 DEF ReqTimeout, Return
<1>22. ASSUME NEW o \in Ops, Reconnected(o) PROVE ControlInv'
  <2>1. UNCHANGED <<lastOp, todo, conn, inbox, srv, dialed, reqSent, chanVars, retry, subState, cpc>>
    BY <1>22 DEF Reconnected
  <2>2. dpc = "select" /\ why = "none" /\ lastOp = o /\ dialed = cur + 1 /\ reqSent = "empty"
    BY <1>22 DEF Reconnected
  <2>3. pc' = [pc EXCEPT ![o] = "write"] /\ writeConn' = dialed /\ \A p \in Ops : pc'[p] # "handover"
    BY <1>22, <2>2 DEF Reconnected
  <2>4. CASE reading
    <3>1. why' = "reconnected" /\ dpc' = "cancel" /\ UNCHANGED <<cur, rd, reading, respWait, clientSubs>>
      BY <1>22, <2>4 DEF Reconnected
    <3>2. TypeOK' BY <2>1, <2>3, <3>1
    <3>3. Phases' /\ SendLock' /\ LockHeld' BY <2>1, <2>2, <2>3, <3>1
    <3>4. Readers' BY <2>2, <2>4, <3>1
    <3>5. HandoverOrder' BY <2>1, <2>2, <2>3, <3>1
    <3>6. QED BY <3>2, <3>3, <3>4, <3>5
  <2>5. CASE ~reading
    <3>1. /\ cur' = cur + 1 /\ rd' = [rd EXCEPT ![cur + 1] = "read"] /\ reading' = TRUE
          /\ respWait' = Ids[lastOp] /\ clientSubs' = {} /\ dpc' = "select" /\ why' = "none"
      BY <1>22, <2>5 DEF Reconnected, Attach
    <3>2. cur' \in Conns BY <2>2, <3>1
    <3>3. TypeOK' BY <2>1, <2>2, <2>3, <3>1, <3>2
    <3>4. Phases' /\ SendLock' /\ LockHeld' BY <2>1, <2>2, <2>3, <3>1
    <3>5. Readers' BY <2>2, <2>5, <3>1, <3>2
    <3>6. HandoverOrder' BY <2>1, <2>2, <2>3, <3>1
    <3>7. QED BY <3>3, <3>4, <3>5, <3>6
  <2>6. QED BY <2>4, <2>5
<1>23. ASSUME ReqSent PROVE ControlInv'
  BY <1>23 DEF ReqSent
<1>24. ASSUME NEW c \in Conns, ReadOp(c) PROVE ControlInv'
  BY <1>24 DEF ReadOp
<1>25. ASSUME NEW c \in Conns, ReadErr(c) PROVE ControlInv'
  BY <1>25 DEF ReadErr
<1>26. ASSUME NEW k \in Closers, CloseReq(k) PROVE ControlInv'
  BY <1>26 DEF CloseReq
<1>27. ASSUME NEW i \in todo, HandleUnsolicited(i) PROVE ControlInv'
  BY <1>27 DEF HandleUnsolicited
<1>28. ASSUME NEW o \in Ops, NEW i \in todo, HandleResponse(o, i) PROVE ControlInv'
  BY <1>28 DEF HandleResponse
<1>29. ASSUME NEW o \in Ops, NEW i \in todo, HandleSubscribed(o, i) PROVE ControlInv'
  <2>1. UNCHANGED <<dpc, why, lastOp, reading, cur, connVars, sendVars, buf, got, pc, retry, cpc>>
    BY <1>29 DEF HandleSubscribed
  <2>2. todo' \in SUBSET (ID \cup Reverse) /\ respWait' \in SUBSET ID
    BY <1>29 DEF HandleSubscribed
  <2>3. closed' \in [Ops -> BOOLEAN] /\ operr' \in [Ops -> BOOLEAN]
    BY <1>29 DEF HandleSubscribed
  <2>4. clientSubs' \in SUBSET Subs
    BY <1>29 DEF HandleSubscribed
  <2>5. subState' \in [Subs -> {"new", "active", "quitting", "ended"}]
    BY <1>29 DEF HandleSubscribed
  <2>6. TypeOK' BY <2>1, <2>2, <2>3, <2>4, <2>5
  <2>7. Phases' /\ SendLock' /\ LockHeld' BY <2>1
  <2>8. Readers' /\ HandoverOrder' BY <2>1
  <2>9. QED BY <2>6, <2>7, <2>8
<1>30. ASSUME EndHandle PROVE ControlInv'
  BY <1>30 DEF EndHandle
<1>31. ASSUME CancelRequests PROVE ControlInv'
  BY <1>31 DEF CancelRequests, Spared
<1>32. ASSUME NEW s \in Subs, CancelSub(s) PROVE ControlInv'
  BY <1>32 DEF CancelSub
<1>33. ASSUME CloseCodec PROVE ControlInv'
  BY <1>33 DEF CloseCodec
<1>34. ASSUME NEW c \in Conns, DrainOp(c) PROVE ControlInv'
  BY <1>34 DEF DrainOp
<1>35. ASSUME NEW c \in Conns, DrainErr(c) PROVE ControlInv'
  <2>1. UNCHANGED <<lastOp, todo, conn, inbox, srv, sendVars, chanVars, callerVars>>
    BY <1>35 DEF DrainErr
  <2>2. dpc = "drain" /\ rd[c] = "err" /\ c = cur /\ reading
    BY <1>35 DEF DrainErr
  <2>3. CASE why = "exit"
    <3>1. rd' = [rd EXCEPT ![c] = "done"] /\ dpc' = "done" /\ UNCHANGED <<why, reading, cur, respWait, clientSubs>>
      BY <1>35, <2>3 DEF DrainErr
    <3>2. QED BY <2>1, <2>2, <2>3, <3>1
  <2>4. CASE why = "reconnected"
    <3>1. /\ cur' = cur + 1 /\ rd' = [rd EXCEPT ![c] = "done", ![cur + 1] = "read"] /\ reading' = TRUE
          /\ respWait' = Ids[lastOp] /\ clientSubs' = {} /\ dpc' = "select" /\ why' = "none"
      BY <1>35, <2>4 DEF DrainErr, Attach
    <3>2. lastOp \in Ops /\ cur' \in Conns
      BY <2>2, <2>4, <3>1
    <3>3. TypeOK' BY <2>1, <3>1, <3>2
    <3>4. Phases' /\ SendLock' /\ LockHeld' BY <2>1, <3>1, <3>2
    <3>5. Readers' BY <2>2, <3>1, <3>2
    <3>6. HandoverOrder' BY <2>1, <2>2, <2>4, <3>1
    <3>7. QED BY <3>3, <3>4, <3>5, <3>6
  <2>5. QED BY <2>2, <2>3, <2>4
<1>36. CASE UNCHANGED vars
  BY <1>36
     DEF vars
<1>37. QED
  BY <1>1, <1>2, <1>3, <1>4, <1>5, <1>6, <1>7, <1>8, <1>9, <1>10, <1>11, <1>12,
     <1>13, <1>14, <1>15, <1>16, <1>17, <1>18, <1>19, <1>20, <1>21, <1>22, <1>23, <1>24,
     <1>25, <1>26, <1>27, <1>28, <1>29, <1>30, <1>31, <1>32, <1>33, <1>34, <1>35, <1>36
  DEF Next, Caller, Proceed, Closer, Connection, Select, Handle, Shutdown

\* initClient establishes ChannelInv.
LEMMA ChannelInit == Init => ChannelInv
  BY Counting, OpsAssumption, BoundsAssumption
     DEF Init, ChannelInv, Fresh, Unsent, Solicited, CarriedOver, ClosedNotPending,
         Room, InflightCounted, Unaccounted, Pending, Conns

\* A step that registers just the unanswered in-flight op on a new handler
\* (addRequestOp(lastOp) in dispatch) keeps ChannelInv.
LEMMA Reattached ==
    ASSUME TypeOK, TypeOK', ChannelInv, SendLock, NEW o \in Ops,
           lastOp = o, lastOp' = o, why' = "none", respWait' = Ids[o],
           ~closed[o], buf[o] = 0, got[o] = 0, pc[o] \notin {"idle", "asked", "init"},
           pc' = pc \/ (pc[o] = "handover" /\ pc' = [pc EXCEPT ![o] = "write"]),
           UNCHANGED <<chanVars, todo, inbox, srv>>
    PROVE  ChannelInv'
<1>0. \A p \in Ops : Unaccounted(p) \in Nat /\ (Unaccounted(p))' \in Nat
  BY UnaccountedType
<1> USE DEF ChannelInv, chanVars, TypeOK
<1>1. pc'[o] \notin {"idle", "asked", "init"} /\ \A p \in Ops \ {o} : pc'[p] = pc[p]
  OBVIOUS
<1>2. Pending(o)' = Ids[o] /\ \A p \in Ops \ {o} : Pending(p)' = {}
  BY IdsAssumption, OpsAssumption DEF Pending
<1>3. Unaccounted(o)' = Cap(o)
  BY <1>2, Counting DEF Unaccounted, Cap
<1>4. \A p \in Ops \ {o} : Unaccounted(p)' <= Unaccounted(p)
  <2> TAKE p \in Ops \ {o}
  <2>1. Cardinality(Pending(p)') = 0 /\ Cardinality(Pending(p)) \in Nat
    BY <1>2, PendingType, Counting
  <2>2. QED BY <2>1 DEF Unaccounted
<1>5. Fresh'
  BY <1>1, <1>2 DEF Fresh
<1>6. Unsent'
  BY <1>1 DEF Unsent, Closing, SendLock, Sending
<1>7. Solicited'
  BY DEF Solicited
<1>8. CarriedOver'
  BY DEF CarriedOver
<1>9. ClosedNotPending'
  BY <1>2 DEF ClosedNotPending
<1>10. Room'
  BY <1>0, <1>3, <1>4, Counting DEF Room
<1>11. InflightCounted'
  BY <1>3 DEF InflightCounted
<1>12. QED
  BY <1>5, <1>6, <1>7, <1>8, <1>9, <1>10, <1>11

\* Every step keeps ChannelInv when a failed Write has not reached the peer.
LEMMA ChannelStep ==
    ~LateFail /\ ControlInv /\ ChannelInv /\ [Next]_vars => ChannelInv'
<1> SUFFICES ASSUME ~LateFail, ControlInv, ChannelInv, [Next]_vars
             PROVE  ChannelInv'
  OBVIOUS
<1>0. TypeOK /\ TypeOK'
  BY ControlStep DEF ControlInv
<1>a. \A p \in Ops : Unaccounted(p) \in Nat /\ (Unaccounted(p))' \in Nat
  BY <1>0, UnaccountedType
<1>b. \A p \in Ops : Cap(p) \in Nat
  BY Counting
<1>c. Cardinality({}) = 0
  BY Counting
<1> USE OpsAssumption, IdsAssumption, KindsAssumption, BoundsAssumption
    DEF ControlInv, TypeOK, Phases, SendLock, LockHeld, Sending, ChannelInv,
        Conns, NoConn, Closing, DidClose,
        dispatchVars, connVars, sendVars, chanVars, callerVars
<1>1. ASSUME NEW o \in Ops, Start(o) PROVE ChannelInv'
  BY <1>1
     DEF Start, Fresh, Unsent, Solicited, CarriedOver,
         ClosedNotPending, Room, InflightCounted, Unaccounted, Pending
<1>2. ASSUME NEW o \in Ops, Unsubscribe(o) PROVE ChannelInv'
  BY <1>2
     DEF Unsubscribe, Fresh, Unsent, Solicited, CarriedOver,
         ClosedNotPending, Room, InflightCounted, Unaccounted, Pending
<1>3. ASSUME NEW o \in Ops, SendAborted(o) PROVE ChannelInv'
  BY <1>3
     DEF SendAborted, Return, Fresh, Unsent, Solicited, CarriedOver,
         ClosedNotPending, Room, InflightCounted, Unaccounted, Pending
<1>4. ASSUME NEW o \in Ops, WriteOK(o) PROVE ChannelInv'
  BY <1>4
     DEF WriteOK, Fresh, Unsent, Solicited, CarriedOver,
         ClosedNotPending, Room, InflightCounted, Unaccounted, Pending
<1>5. ASSUME NEW o \in Ops, WriteFail(o) PROVE ChannelInv'
  BY <1>5
     DEF WriteFail, Fresh, Unsent, Solicited, CarriedOver,
         ClosedNotPending, Room, InflightCounted, Unaccounted, Pending
<1>6. ASSUME NEW o \in Ops, DialFail(o) PROVE ChannelInv'
  BY <1>6
     DEF DialFail, Fresh, Unsent, Solicited, CarriedOver,
         ClosedNotPending, Room, InflightCounted, Unaccounted, Pending
<1>7. ASSUME NEW o \in Ops, DialOK(o) PROVE ChannelInv'
  <2>1. /\ UNCHANGED <<dispatchVars, inbox, srv, chanVars>>
        /\ pc[o] = "write" /\ pc' = [pc EXCEPT ![o] = "handover"]
    BY <1>7 DEF DialOK
  <2>2. \A p \in Ops : Pending(p)' = Pending(p) /\ Unaccounted(p)' = Unaccounted(p)
    BY <2>1 DEF Pending, Unaccounted
  <2>3. Fresh' /\ Unsent' /\ Solicited'
    BY <2>1, <2>2 DEF Fresh, Unsent, Solicited
  <2>4. CarriedOver' /\ ClosedNotPending' /\ Room' /\ InflightCounted'
    BY <2>1, <2>2 DEF CarriedOver, ClosedNotPending, Room, InflightCounted
  <2>5. QED BY <2>3, <2>4
<1>8. ASSUME NEW o \in Ops, HandoverQuit(o) PROVE ChannelInv'
  BY <1>8
     DEF HandoverQuit, Fresh, Unsent, Solicited, CarriedOver,
         ClosedNotPending, Room, InflightCounted, Unaccounted, Pending
<1>9. ASSUME NEW o \in Ops, Sent(o) PROVE ChannelInv'
  <2>1. \A p \in Ops : pc'[p] # pc[p] => p = o /\ pc[p] \in {"sentOK", "sentErr"} /\ pc'[p] \in {"wait", "ret"}
    <3>1. CASE pc[o] = "sentOK" /\ Ids[o] # {}
      BY <1>9, <3>1 DEF Sent
    <3>2. CASE ~(pc[o] = "sentOK" /\ Ids[o] # {})
      BY <1>9, <3>2 DEF Sent, Return
    <3>3. QED BY <3>1, <3>2
  <2>2. pc[o] = "sentErr" => pc'[o] = "ret"
    BY <1>9 DEF Sent, Return
  <2>3. UNCHANGED <<dispatchVars, connVars, chanVars>>
    BY <1>9 DEF Sent
  <2>4. \A p \in Ops : Unaccounted(p)' = Unaccounted(p) /\ Pending(p)' = Pending(p)
    BY <2>3 DEF Unaccounted, Pending
  <2>5. Fresh' /\ Unsent' /\ ClosedNotPending'
    <3>1. \A p \in Ops : pc'[p] \in {"idle", "asked", "init", "write", "handover"} =>
              pc'[p] = pc[p]
      BY <2>1
    <3>2. Fresh' BY <2>3, <2>4, <3>1 DEF Fresh
    <3>3. Unsent' BY <2>3, <3>1 DEF Unsent
    <3>4. ClosedNotPending' BY <2>3, <2>4 DEF ClosedNotPending
    <3>5. QED BY <3>2, <3>3, <3>4
  <2>6. Solicited'
    BY <2>1, <2>2, <2>3 DEF Solicited
  <2>7. CarriedOver' /\ Room'
    BY <2>3, <2>4 DEF CarriedOver, Room
  <2>8. InflightCounted'
    BY <2>1, <2>3, <2>4 DEF InflightCounted
  <2>9. QED BY <2>5, <2>6, <2>7, <2>8
<1>10. ASSUME NEW o \in Ops, Receive(o) PROVE ChannelInv'
  <2>1. UNCHANGED <<dispatchVars, connVars, closed>> /\ pc[o] = "wait" /\ buf[o] > 0
    BY <1>10 DEF Receive
  <2>2. \A p \in Ops : pc'[p] # pc[p] => p = o /\ pc'[p] = "ret"
    <3>1. Return(o) \/ UNCHANGED callerVars
      BY <1>10 DEF Receive
    <3>2. QED BY <3>1 DEF Return
  <2>3. /\ buf'[o] = buf[o] - 1 /\ got'[o] = got[o] + 1
        /\ \A p \in Ops \ {o} : buf'[p] = buf[p] /\ got'[p] = got[p]
    BY <1>10 DEF Receive
  <2>4. \A p \in Ops : Pending(p)' = Pending(p)
    BY <2>1 DEF Pending
  <2>5. \A p \in Ops : Unaccounted(p)' = Unaccounted(p)
    <3> TAKE p \in Ops
    <3>1. CASE p # o
      BY <2>3, <2>4, <3>1 DEF Unaccounted
    <3>2. CASE p = o
      <4>1. buf[o] \in Nat /\ got[o] \in Nat /\ Cardinality(Pending(o)) \in Nat
        BY PendingType
      <4>2. \A n, a, b \in Nat : n + (a - 1) + (b + 1) = n + a + b
        OBVIOUS
      <4>3. QED BY <2>3, <2>4, <3>2, <4>1, <4>2 DEF Unaccounted
    <3>3. QED BY <3>1, <3>2
  <2>6. Fresh' /\ Unsent'
    <3>1. \A p \in Ops : pc'[p] \in {"idle", "asked", "init", "write", "handover"} =>
              p # o /\ pc'[p] = pc[p]
      BY <2>1, <2>2
    <3>2. Fresh' BY <2>1, <2>3, <2>4, <3>1 DEF Fresh
    <3>3. Unsent' BY <2>1, <2>3, <3>1 DEF Unsent
    <3>4. QED BY <3>2, <3>3
  <2>7. Solicited'
    BY <2>1, <2>2 DEF Solicited
  <2>8. ClosedNotPending' /\ Room'
    BY <2>1, <2>4, <2>5 DEF ClosedNotPending, Room
  <2>9. CarriedOver'
    BY <2>1, <2>3 DEF CarriedOver
  <2>10. InflightCounted'
    BY <2>1, <2>2, <2>5 DEF InflightCounted
  <2>11. QED BY <2>6, <2>7, <2>8, <2>9, <2>10
<1>11. ASSUME NEW o \in Ops, ReceiveClosed(o) PROVE ChannelInv'
  BY <1>11
     DEF ReceiveClosed, Return, Fresh, Unsent, Solicited, CarriedOver,
         ClosedNotPending, Room, InflightCounted, Unaccounted, Pending
<1>12. ASSUME NEW o \in Ops, Expire(o) PROVE ChannelInv'
  BY <1>12
     DEF Expire, Fresh, Unsent, Solicited, CarriedOver,
         ClosedNotPending, Room, InflightCounted, Unaccounted, Pending
<1>13. ASSUME NEW o \in Ops, TimeoutQuit(o) PROVE ChannelInv'
  BY <1>13
     DEF TimeoutQuit, Return, Fresh, Unsent, Solicited, CarriedOver,
         ClosedNotPending, Room, InflightCounted, Unaccounted, Pending
<1>14. ASSUME NEW k \in Closers, CloseCall(k) PROVE ChannelInv'
  BY <1>14
     DEF CloseCall, Fresh, Unsent, Solicited, CarriedOver,
         ClosedNotPending, Room, InflightCounted, Unaccounted, Pending
<1>15. ASSUME NEW k \in Closers, CloseReturn(k) PROVE ChannelInv'
  BY <1>15
     DEF CloseReturn, Fresh, Unsent, Solicited, CarriedOver,
         ClosedNotPending, Room, InflightCounted, Unaccounted, Pending
<1>16. ASSUME NEW c \in Conns, Break(c) PROVE ChannelInv'
  BY <1>16
     DEF Break, Fresh, Unsent, Solicited, CarriedOver,
         ClosedNotPending, Room, InflightCounted, Unaccounted, Pending
<1>17. ASSUME NEW c \in Conns, NEW o \in Ops, PeerCall(c, o) PROVE ChannelInv'
  BY <1>17
     DEF PeerCall, Fresh, Unsent, Solicited, CarriedOver,
         ClosedNotPending, Room, InflightCounted, Unaccounted, Pending
<1>18. ASSUME NEW c \in Conns, NEW m \in SUBSET srv[c], ReadMsg(c, m) PROVE ChannelInv'
  BY <1>18
     DEF ReadMsg, Fresh, Unsent, Solicited, CarriedOver,
         ClosedNotPending, Room, InflightCounted, Unaccounted, Pending
<1>19. ASSUME NEW c \in Conns, ReadFail(c) PROVE ChannelInv'
  BY <1>19
     DEF ReadFail, Fresh, Unsent, Solicited, CarriedOver,
         ClosedNotPending, Room, InflightCounted, Unaccounted, Pending
<1>20. ASSUME NEW o \in Ops, ReqInit(o) PROVE ChannelInv'
  <2>1. /\ pc[o] = "init" /\ dpc = "select" /\ pc' = [pc EXCEPT ![o] = "write"] /\ lastOp' = o
        /\ UNCHANGED <<chanVars, connVars, dpc, why, todo, reading>>
    BY <1>20 DEF ReqInit
  <2>2. Pending(o)' = Ids[o] /\ \A p \in Ops \ {o} : Pending(p)' = Pending(p)
    BY <1>20 DEF ReqInit, Pending
  <2>3. ~closed[o] /\ buf[o] = 0 /\ got[o] = 0
    BY <2>1 DEF Fresh
  <2>4. Unaccounted(o)' = Cap(o)
    BY <2>1, <2>2, <2>3, Counting DEF Unaccounted, Cap
  <2>5. \A p \in Ops \ {o} : Unaccounted(p)' = Unaccounted(p)
    BY <2>1, <2>2 DEF Unaccounted
  <2>6. Fresh' /\ Unsent' /\ Solicited'
    BY <2>1, <2>2, <2>3 DEF Fresh, Unsent, Solicited
  <2>7. CarriedOver'
    BY <2>1 DEF CarriedOver
  <2>8. ClosedNotPending'
    BY <2>1, <2>2, <2>3 DEF ClosedNotPending
  <2>9. Room'
    <3> SUFFICES ASSUME NEW p \in Ops PROVE Unaccounted(p)' <= Cap(p)
      BY DEF Room
    <3>1. CASE p = o BY <2>4, <3>1, <1>b
    <3>2. CASE p # o BY <2>5, <3>2 DEF Room
    <3>3. QED BY <3>1, <3>2
  <2>10. InflightCounted'
    BY <2>1, <2>4 DEF InflightCounted
  <2>11. QED BY <2>6, <2>7, <2>8, <2>9, <2>10
<1>21. ASSUME NEW o \in Ops, ReqTimeout(o) PROVE ChannelInv'
  <2>1. pc' = [pc EXCEPT ![o] = "ret"] /\ UNCHANGED <<chanVars, connVars, dpc, why, lastOp, todo, reading>>
    BY <1>21 DEF ReqTimeout, Return
  <2>2. Pending(o)' = {} /\ \A p \in Ops \ {o} : Pending(p)' = Pending(p)
    BY <1>21 DEF ReqTimeout, Pending
  <2>3. \A p \in Ops : Unaccounted(p)' <= Unaccounted(p)
    <3> TAKE p \in Ops
    <3>1. Cardinality(Pending(p)') <= Cardinality(Pending(p))
      <4>1. CASE p = o
        <5>1. Cardinality(Pending(o)') = 0 BY <2>2, <1>c
        <5>2. QED BY <4>1, <5>1, PendingType
      <4>2. CASE p # o BY <2>2, <4>2, PendingType
      <4>3. QED BY <4>1, <4>2
    <3>2. QED BY <2>1, <3>1, PendingType DEF Unaccounted
  <2>4. \A p \in Ops \ {o} : Unaccounted(p)' = Unaccounted(p)
    BY <2>1, <2>2 DEF Unaccounted
  <2>5. Fresh' /\ Unsent' /\ Solicited'
    BY <2>1, <2>2 DEF Fresh, Unsent, Solicited
  <2>6. CarriedOver'
    BY <2>1 DEF CarriedOver
  <2>7. ClosedNotPending'
    BY <2>1, <2>2 DEF ClosedNotPending
  <2>8. Room'
    BY <2>3, <1>a, <1>b DEF Room
  <2>9. InflightCounted'
    BY <2>1, <2>4 DEF InflightCounted
  <2>10. QED BY <2>5, <2>6, <2>7, <2>8, <2>9
<1>22. ASSUME NEW o \in Ops, Reconnected(o) PROVE ChannelInv'
  <2>1. /\ lastOp = o /\ lastOp' = o /\ why = "none" /\ pc[o] = "handover"
        /\ pc' = [pc EXCEPT ![o] = "write"]
    BY <1>22 DEF Reconnected
  <2>2. UNCHANGED <<chanVars, todo, inbox, srv>>
    BY <1>22 DEF Reconnected
  <2>3. ~closed[o] /\ buf[o] = 0 /\ got[o] = 0
    BY <2>1 DEF Unsent
  <2>4. CASE reading
    <3>1. why' = "reconnected" /\ dpc' = "cancel" /\ respWait' = respWait
      BY <1>22, <2>4 DEF Reconnected
    <3>2. \A p \in Ops : Pending(p)' = Pending(p) /\ Unaccounted(p)' = Unaccounted(p)
      BY <2>2, <3>1 DEF Pending, Unaccounted
    <3>3. Fresh' /\ Unsent' /\ Solicited'
      BY <2>1, <2>2, <2>3, <3>1, <3>2 DEF Fresh, Unsent, Solicited
    <3>4. CarriedOver' /\ ClosedNotPending' /\ Room' /\ InflightCounted'
      BY <2>1, <2>2, <2>3, <3>1, <3>2 DEF CarriedOver, ClosedNotPending, Room, InflightCounted
    <3>5. QED BY <3>3, <3>4
  <2>5. CASE ~reading
    <3>1. why' = "none" /\ respWait' = Ids[o]
      BY <1>22, <2>1, <2>5 DEF Reconnected, Attach
    <3>2. QED BY <1>0, <2>1, <2>2, <2>3, <3>1, Reattached
  <2>6. QED BY <2>4, <2>5
<1>23. ASSUME ReqSent PROVE ChannelInv'
  <2>1. lastOp' = NoOp /\ UNCHANGED <<pc, chanVars, connVars, dpc, why, todo, reading>> /\ dpc = "select"
    BY <1>23 DEF ReqSent
  <2>2. \A p \in Ops : Pending(p)' \subseteq Pending(p)
    BY <1>23 DEF ReqSent, Pending
  <2>3. \A p \in Ops : Unaccounted(p)' <= Unaccounted(p)
    <3> TAKE p \in Ops
    <3>1. Cardinality(Pending(p)') <= Cardinality(Pending(p))
      BY <2>2, PendingShrinks DEF Pending
    <3>2. buf'[p] = buf[p] /\ got'[p] = got[p] /\ Cardinality(Pending(p)') \in Nat
      BY <2>1, <1>0, PendingType
    <3>3. QED BY <3>1, <3>2, PendingType DEF Unaccounted
  <2>4. Fresh' /\ Unsent' /\ Solicited'
    BY <2>1, <2>2 DEF Fresh, Unsent, Solicited
  <2>5. CarriedOver'
    BY <2>1 DEF CarriedOver
  <2>6. ClosedNotPending'
    BY <2>1, <2>2 DEF ClosedNotPending
  <2>7. Room'
    BY <2>3, <1>a, <1>b DEF Room
  <2>8. InflightCounted'
    BY <2>1 DEF InflightCounted
  <2>9. QED BY <2>4, <2>5, <2>6, <2>7, <2>8
<1>24. ASSUME NEW c \in Conns, ReadOp(c) PROVE ChannelInv'
  BY <1>24
     DEF ReadOp, Fresh, Unsent, Solicited, CarriedOver,
         ClosedNotPending, Room, InflightCounted, Unaccounted, Pending
<1>25. ASSUME NEW c \in Conns, ReadErr(c) PROVE ChannelInv'
  BY <1>25
     DEF ReadErr, Fresh, Unsent, Solicited, CarriedOver,
         ClosedNotPending, Room, InflightCounted, Unaccounted, Pending
<1>26. ASSUME NEW k \in Closers, CloseReq(k) PROVE ChannelInv'
  BY <1>26
     DEF CloseReq, Fresh, Unsent, Solicited, CarriedOver,
         ClosedNotPending, Room, InflightCounted, Unaccounted, Pending
<1>27. ASSUME NEW i \in todo, HandleUnsolicited(i) PROVE ChannelInv'
  BY <1>27
     DEF HandleUnsolicited, Fresh, Unsent, Solicited, CarriedOver,
         ClosedNotPending, Room, InflightCounted, Unaccounted, Pending
<1>28. ASSUME NEW o \in Ops, NEW i \in todo, HandleResponse(o, i) PROVE ChannelInv'
  <2>1. /\ UNCHANGED <<got, closed, pc, lastOp, dpc, why, reading, inbox, srv>>
        /\ todo' = todo \ {i} /\ dpc = "handle" /\ why = "none"
    BY <1>28 DEF HandleResponse
  <2>2. pc[o] \in {"sentOK", "wait", "timeout", "ret"}
    BY <1>28 DEF HandleResponse, Solicited
  <2>3. /\ i \in Pending(o) /\ Pending(o)' = Pending(o) \ {i}
        /\ \A p \in Ops \ {o} : Pending(p)' = Pending(p)
    BY <1>28 DEF HandleResponse, Pending
  <2>4. buf'[o] = buf[o] + 1 /\ \A p \in Ops \ {o} : buf'[p] = buf[p]
    BY <1>28 DEF HandleResponse
  <2>5. Cardinality(Pending(o)') = Cardinality(Pending(o)) - 1
    <3>1. Pending(o) \in SUBSET Ids[o] BY DEF Pending
    <3>2. QED BY <2>3, <3>1, Counting
  <2>6. Unaccounted(o)' = Unaccounted(o)
    BY <2>1, <2>4, <2>5, PendingType DEF Unaccounted
  <2>7. \A p \in Ops \ {o} : Unaccounted(p)' = Unaccounted(p)
    BY <2>1, <2>3, <2>4 DEF Unaccounted
  <2>8. Fresh' /\ Unsent'
    BY <2>1, <2>2, <2>3, <2>4 DEF Fresh, Unsent
  <2>9. Solicited' /\ CarriedOver'
    BY <2>1 DEF Solicited, CarriedOver
  <2>10. ClosedNotPending'
    BY <2>1, <2>3 DEF ClosedNotPending
  <2>11. Room' /\ InflightCounted'
    <3>1. \A p \in Ops : Unaccounted(p)' = Unaccounted(p) BY <2>6, <2>7
    <3>2. Room' BY <3>1 DEF Room
    <3>3. InflightCounted' BY <2>1, <3>1 DEF InflightCounted
    <3>4. QED BY <3>2, <3>3
  <2>12. QED BY <2>8, <2>9, <2>10, <2>11
<1>29. ASSUME NEW o \in Ops, NEW i \in todo, HandleSubscribed(o, i) PROVE ChannelInv'
  <2>1. /\ UNCHANGED <<buf, got, pc, lastOp, dpc, why, reading, inbox, srv>>
        /\ todo' = todo \ {i} /\ dpc = "handle" /\ why = "none"
    BY <1>29 DEF HandleSubscribed
  <2>2. pc[o] \in {"sentOK", "wait", "timeout", "ret"}
    BY <1>29 DEF HandleSubscribed, Solicited
  <2>3. Ids[o] = {i}
    BY <1>29, Counting DEF HandleSubscribed
  <2>4. Pending(o)' = {} /\ \A p \in Ops \ {o} : Pending(p)' = Pending(p)
    BY <1>29, <2>3 DEF HandleSubscribed, Pending
  <2>5. closed'[o] /\ \A p \in Ops \ {o} : closed'[p] = closed[p]
    BY <1>29 DEF HandleSubscribed
  <2>6. \A p \in Ops \ {o} : Unaccounted(p)' = Unaccounted(p)
    BY <2>1, <2>4 DEF Unaccounted
  <2>7. Unaccounted(o)' <= Unaccounted(o)
    BY <2>1, <2>4, PendingType, Counting DEF Unaccounted
  <2>8. Fresh' /\ Unsent'
    <3>1. \A p \in Ops : p = o => pc'[p] \notin {"idle", "asked", "init", "write", "handover"}
      BY <2>1, <2>2
    <3>2. Fresh'
      <4> SUFFICES ASSUME NEW p \in Ops, pc'[p] \in {"idle", "asked", "init"}
                   PROVE  ~closed'[p] /\ Pending(p)' = {} /\ buf'[p] = 0 /\ got'[p] = 0
        BY DEF Fresh
      <4>1. p # o /\ pc[p] = pc'[p] BY <2>1, <3>1
      <4>2. ~closed[p] /\ Pending(p) = {} /\ buf[p] = 0 /\ got[p] = 0 BY <4>1 DEF Fresh
      <4>3. QED BY <2>1, <2>4, <2>5, <4>1, <4>2
    <3>3. Unsent' BY <2>1, <2>5, <3>1 DEF Unsent
    <3>4. QED BY <3>2, <3>3
  <2>9. Solicited' /\ CarriedOver'
    BY <2>1 DEF Solicited, CarriedOver
  <2>10. ClosedNotPending'
    BY <2>4, <2>5 DEF ClosedNotPending
  <2>11. Room'
    <3> SUFFICES ASSUME NEW p \in Ops PROVE Unaccounted(p)' <= Cap(p)
      BY DEF Room
    <3>1. Unaccounted(p)' <= Unaccounted(p)
      BY <2>6, <2>7, <1>a
    <3>2. QED BY <3>1, <1>a, <1>b DEF Room
  <2>12. InflightCounted'
    BY <2>1, <2>5, <2>6 DEF InflightCounted
  <2>13. QED BY <2>8, <2>9, <2>10, <2>11, <2>12
<1>30. ASSUME EndHandle PROVE ChannelInv'
  BY <1>30
     DEF EndHandle, Fresh, Unsent, Solicited, CarriedOver,
         ClosedNotPending, Room, InflightCounted, Unaccounted, Pending
<1>31. ASSUME CancelRequests PROVE ChannelInv'
  <2>1. /\ UNCHANGED <<buf, got, pc, lastOp, why, reading, todo, inbox, srv>>
        /\ dpc = "cancel" /\ dpc' = "cancelSubs"
    BY <1>31 DEF CancelRequests
  <2>2. \A p \in Ops : Pending(p)' = {}
    BY <1>31 DEF CancelRequests, Pending
  <2>3. \A p \in Ops : closed'[p] =>
            closed[p] \/ (Pending(p) # {} /\ (why = "exit" \/ p # lastOp))
    BY <1>31 DEF CancelRequests, Spared, Pending
  <2>4. \A p \in Ops : Unaccounted(p)' <= Unaccounted(p)
    <3> TAKE p \in Ops
    <3>1. Cardinality(Pending(p)') = 0 /\ Cardinality(Pending(p)) \in Nat
      BY <2>2, PendingType, Counting
    <3>2. QED BY <2>1, <3>1 DEF Unaccounted
  <2>5. Fresh'
    BY <2>1, <2>2, <2>3 DEF Fresh
  <2>6. Unsent'
    BY <2>1, <2>3 DEF Unsent
  <2>7. Solicited'
    BY <2>1 DEF Solicited
  <2>8. CarriedOver'
    BY <2>1, <2>3 DEF CarriedOver
  <2>9. ClosedNotPending' /\ InflightCounted'
    BY <2>1, <2>2 DEF ClosedNotPending, InflightCounted
  <2>10. Room'
    BY <2>4, <1>a, <1>b DEF Room
  <2>11. QED BY <2>5, <2>6, <2>7, <2>8, <2>9, <2>10
<1>32. ASSUME NEW s \in Subs, CancelSub(s) PROVE ChannelInv'
  BY <1>32
     DEF CancelSub, Fresh, Unsent, Solicited, CarriedOver,
         ClosedNotPending, Room, InflightCounted, Unaccounted, Pending
<1>33. ASSUME CloseCodec PROVE ChannelInv'
  BY <1>33
     DEF CloseCodec, Fresh, Unsent, Solicited, CarriedOver,
         ClosedNotPending, Room, InflightCounted, Unaccounted, Pending
<1>34. ASSUME NEW c \in Conns, DrainOp(c) PROVE ChannelInv'
  BY <1>34
     DEF DrainOp, Fresh, Unsent, Solicited, CarriedOver,
         ClosedNotPending, Room, InflightCounted, Unaccounted, Pending
<1>35. ASSUME NEW c \in Conns, DrainErr(c) PROVE ChannelInv'
  <2>1. UNCHANGED <<chanVars, pc, lastOp, todo, inbox, srv>> /\ dpc = "drain"
    BY <1>35 DEF DrainErr
  <2>2. CASE why = "exit"
    <3>1. why' = why /\ respWait' = respWait /\ dpc' = "done"
      BY <1>35, <2>2 DEF DrainErr
    <3>2. \A p \in Ops : Pending(p)' = Pending(p) /\ Unaccounted(p)' = Unaccounted(p)
      BY <2>1, <3>1 DEF Pending, Unaccounted
    <3>3. QED
      BY <2>1, <2>2, <3>1, <3>2
      DEF Fresh, Unsent, Solicited, CarriedOver, ClosedNotPending, Room, InflightCounted
  <2>3. CASE why = "reconnected"
    <3>1. why' = "none" /\ respWait' = Ids[lastOp] /\ lastOp \in Ops
      BY <1>35, <2>3 DEF DrainErr, Attach
    <3>2. ~closed[lastOp] /\ buf[lastOp] = 0 /\ got[lastOp] = 0
      BY <2>3 DEF CarriedOver
    <3>3. pc[lastOp] \notin {"idle", "asked", "init"}
      BY <2>3, <3>1
    <3>4. QED BY <1>0, <2>1, <3>1, <3>2, <3>3, Reattached
  <2>4. QED BY <2>1, <2>2, <2>3
<1>36. CASE UNCHANGED vars
  BY <1>36
     DEF vars, Fresh, Unsent, Solicited, CarriedOver,
         ClosedNotPending, Room, InflightCounted, Unaccounted, Pending
<1>37. QED
  BY <1>1, <1>2, <1>3, <1>4, <1>5, <1>6, <1>7, <1>8, <1>9, <1>10, <1>11, <1>12,
     <1>13, <1>14, <1>15, <1>16, <1>17, <1>18, <1>19, <1>20, <1>21, <1>22, <1>23, <1>24,
     <1>25, <1>26, <1>27, <1>28, <1>29, <1>30, <1>31, <1>32, <1>33, <1>34, <1>35, <1>36
  DEF Next, Caller, Proceed, Closer, Connection, Select, Handle, Shutdown

-----------------------------------------------------------------------------
\* ControlInv holds in every state of every client.
THEOREM ControlInvariant == Spec => []ControlInv
<1>1. Init => ControlInv
  BY ControlInit
<1>2. ControlInv /\ [Next]_vars => ControlInv'
  BY ControlStep
<1>3. QED
  BY <1>1, <1>2, PTL DEF Spec

\* The state of client, connections and callers stays within its types; this
\* includes that a handed-over connection is one that was dialled.
THEOREM TypeCorrect == Spec => []TypeOK
<1>1. ControlInv => TypeOK
  BY DEF ControlInv
<1>2. QED
  BY <1>1, ControlInvariant, PTL

\* The send lock excludes: one caller at a time writes, dials or hands over a
\* connection, dispatch knows which, and reqSent has room for its result.
THEOREM SendLockSafe == Spec => []SendLock
<1>1. ControlInv => SendLock
  BY DEF ControlInv
<1>2. QED
  BY <1>1, ControlInvariant, PTL

\* At most one read loop feeds dispatch, that of the current connection, and
\* dispatch's reading flag is right whenever it selects.
THEOREM SingleReaderSafe == Spec => []SingleReader
<1>1. ControlInv => SingleReader
  BY DEF ControlInv, Readers, Phases, SingleReader
<1>2. QED
  BY <1>1, ControlInvariant, PTL

\* ChannelInv holds in every state if no failed Write reaches the peer.
THEOREM ChannelInvariant == ~LateFail /\ Spec => []ChannelInv
<1>1. Init => ChannelInv
  BY ChannelInit
<1>2. ~LateFail /\ ControlInv /\ ChannelInv /\ [Next]_vars => ChannelInv'
  BY ChannelStep
<1>3. CASE ~LateFail
  <2>1. ControlInv /\ ChannelInv /\ [Next]_vars => ChannelInv'
    BY <1>2, <1>3
  <2>2. QED
    BY <1>1, <2>1, ControlInvariant, PTL DEF Spec
<1>4. QED
  BY <1>3

\* op.resp is never closed twice nor sent on after it was closed.
THEOREM ClosedOnce == ~LateFail /\ Spec => []ClosedNotPending
<1>1. ChannelInv => ClosedNotPending
  BY DEF ChannelInv
<1>2. QED
  BY <1>1, ChannelInvariant, PTL

\* dispatch never blocks on op.resp <- msg.
THEOREM RespNeverBlocks == ~LateFail /\ Spec => []RespHasRoom
<1>1. ControlInv /\ ChannelInv => RespHasRoom
  <2> SUFFICES ASSUME ControlInv, ChannelInv, NEW o \in Ops \ Subs, Pending(o) # {}
               PROVE  buf[o] < Cap(o)
    BY DEF RespHasRoom
  <2>1. Unaccounted(o) <= Cap(o) /\ buf[o] \in Nat /\ got[o] \in Nat
    BY DEF ControlInv, TypeOK, ChannelInv, Room
  <2>2. Cardinality(Pending(o)) \in Nat \ {0}
    <3>1. PICK i \in Pending(o) : TRUE
      OBVIOUS
    <3>2. Cardinality(Pending(o) \ {i}) = Cardinality(Pending(o)) - 1
      BY <3>1, Counting DEF Pending
    <3>3. Cardinality(Pending(o) \ {i}) \in Nat /\ Cardinality(Pending(o)) \in Nat
      BY Counting DEF Pending
    <3>4. QED
      BY <3>2, <3>3
  <2>3. QED
    BY <2>1, <2>2, Counting DEF Unaccounted
<1>2. QED
  BY <1>1, ControlInvariant, ChannelInvariant, PTL

\* The op in flight on a live connection stays registered for every answer it
\* has not had, across any number of reconnects.
THEOREM InflightSafe == ~LateFail /\ Spec => []InflightRegistered
<1>1. ChannelInv => InflightRegistered
  BY DEF ChannelInv, InflightCounted, InflightRegistered, Unaccounted
<1>2. QED
  BY <1>1, ChannelInvariant, PTL

-----------------------------------------------------------------------------
(* What a handler that is replaced has registered.                          *)

\* initClient establishes HandoverInv.
LEMMA HandoverInit == Init => HandoverInv
  BY BoundsAssumption DEF Init, HandoverInv, WriteConnKnown, Detached, AheadOfCur, Conns, NoConn

\* Every step of a caller, a closer, a read loop or dispatch keeps HandoverInv.
LEMMA HandoverStep == ControlInv /\ HandoverInv /\ [Next]_vars => HandoverInv'
<1> SUFFICES ASSUME ControlInv, HandoverInv, [Next]_vars PROVE HandoverInv'
  OBVIOUS
<1> USE OpsAssumption, KindsAssumption, BoundsAssumption
    DEF ControlInv, TypeOK, Phases, SendLock, LockHeld, Readers, HandoverOrder,
        AheadOfCur, Sending, LiveReader, Conns, NoConn, Closing, DidClose,
        HandoverInv, WriteConnKnown, Detached,
        dispatchVars, connVars, sendVars, chanVars, callerVars
<1>1. ASSUME NEW o \in Ops, Start(o) PROVE HandoverInv'
  BY <1>1 DEF Start
<1>2. ASSUME NEW o \in Ops, Unsubscribe(o) PROVE HandoverInv'
  BY <1>2 DEF Unsubscribe
<1>3. ASSUME NEW o \in Ops, SendAborted(o) PROVE HandoverInv'
  BY <1>3 DEF SendAborted, Return
<1>4. ASSUME NEW o \in Ops, WriteOK(o) PROVE HandoverInv'
  BY <1>4 DEF WriteOK
<1>5. ASSUME NEW o \in Ops, WriteFail(o) PROVE HandoverInv'
  BY <1>5 DEF WriteFail
<1>6. ASSUME NEW o \in Ops, DialFail(o) PROVE HandoverInv'
  BY <1>6 DEF DialFail
<1>7. ASSUME NEW o \in Ops, DialOK(o) PROVE HandoverInv'
  BY <1>7 DEF DialOK
<1>8. ASSUME NEW o \in Ops, HandoverQuit(o) PROVE HandoverInv'
  BY <1>8 DEF HandoverQuit
<1>9. ASSUME NEW o \in Ops, Sent(o) PROVE HandoverInv'
  <2>1. /\ UNCHANGED <<dispatchVars, connVars, writeConn, dialed, chanVars, retry, cpc>>
        /\ pc[o] \in {"sentOK", "sentErr"} /\ reqSent = "empty" /\ lastOp = o
        /\ reqSent' = IF pc[o] = "sentOK" THEN "ok" ELSE "err"
    BY <1>9 DEF Sent, Return
  <2>2. QED
    BY <2>1
<1>10. ASSUME NEW o \in Ops, Receive(o) PROVE HandoverInv'
  <2>1. UNCHANGED <<dispatchVars, connVars, sendVars>> /\ pc[o] = "wait"
        /\ \A p \in Ops \ {o} : pc'[p] = pc[p]
    BY <1>10 DEF Receive, Return
  <2>2. QED
    BY <2>1
<1>11. ASSUME NEW o \in Ops, ReceiveClosed(o) PROVE HandoverInv'
  BY <1>11 DEF ReceiveClosed, Return
<1>12. ASSUME NEW o \in Ops, Expire(o) PROVE HandoverInv'
  BY <1>12 DEF Expire
<1>13. ASSUME NEW o \in Ops, TimeoutQuit(o) PROVE HandoverInv'
  BY <1>13 DEF TimeoutQuit, Return
<1>14. ASSUME NEW k \in Closers, CloseCall(k) \/ CloseReturn(k) PROVE HandoverInv'
  BY <1>14 DEF CloseCall, CloseReturn
<1>15. ASSUME NEW c \in Conns, Break(c) PROVE HandoverInv'
  BY <1>15 DEF Break
<1>16. ASSUME NEW c \in Conns, NEW o \in Ops, PeerCall(c, o) PROVE HandoverInv'
  BY <1>16 DEF PeerCall
<1>17. ASSUME NEW c \in Conns, NEW m, ReadMsg(c, m) PROVE HandoverInv'
  BY <1>17 DEF ReadMsg
<1>18. ASSUME NEW c \in Conns, ReadFail(c) PROVE HandoverInv'
  BY <1>18 DEF ReadFail
<1>19. ASSUME NEW o \in Ops, ReqInit(o) PROVE HandoverInv'
  BY <1>19 DEF ReqInit
<1>20. ASSUME NEW o \in Ops, ReqTimeout(o) PROVE HandoverInv'
  BY <1>20 DEF ReqTimeout, Return
<1>21. ASSUME NEW o \in Ops, Reconnected(o) PROVE HandoverInv'
  <2>1. /\ dpc = "select" /\ pc[o] = "handover" /\ lastOp = o /\ why = "none"
        /\ pc' = [pc EXCEPT ![o] = "write"] /\ writeConn' = dialed /\ dialed = cur + 1
        /\ lastOp' = lastOp
    BY <1>21 DEF Reconnected
  <2>2. CASE reading
    <3>1. /\ why' = "reconnected" /\ dpc' = "cancel" /\ UNCHANGED <<cur, reading, respWait>>
      BY <1>21, <2>2 DEF Reconnected
    <3>2. QED
      BY <2>1, <2>2, <3>1
  <2>3. CASE ~reading
    <3>1. cur' = cur + 1 /\ reading' = TRUE /\ dpc' = "select" /\ why' = "none"
      BY <1>21, <2>3 DEF Reconnected, Attach
    <3>2. QED
      BY <2>1, <3>1
  <2>4. QED
    BY <2>2, <2>3
<1>22. ASSUME ReqSent PROVE HandoverInv'
  BY <1>22 DEF ReqSent
<1>23. ASSUME NEW c \in Conns, ReadOp(c) PROVE HandoverInv'
  BY <1>23 DEF ReadOp
<1>24. ASSUME NEW c \in Conns, ReadErr(c) PROVE HandoverInv'
  BY <1>24 DEF ReadErr
<1>25. ASSUME NEW k \in Closers, CloseReq(k) PROVE HandoverInv'
  BY <1>25 DEF CloseReq
<1>26. ASSUME NEW i \in todo, HandleUnsolicited(i) PROVE HandoverInv'
  BY <1>26 DEF HandleUnsolicited
<1>27. ASSUME NEW o \in Ops, NEW i \in todo, HandleResponse(o, i) PROVE HandoverInv'
  BY <1>27 DEF HandleResponse
<1>28. ASSUME NEW o \in Ops, NEW i \in todo, HandleSubscribed(o, i) PROVE HandoverInv'
  BY <1>28 DEF HandleSubscribed
<1>29. ASSUME EndHandle PROVE HandoverInv'
  <2>1. /\ UNCHANGED <<why, lastOp, reading, cur, respWait, connVars, sendVars>>
        /\ dpc = "handle" /\ dpc' = "select"
        /\ \A o \in Ops : pc[o] # "asked" => pc'[o] = pc[o]
    BY <1>29 DEF EndHandle
  <2>2. QED
    BY <2>1
<1>30. ASSUME CancelRequests PROVE HandoverInv'
  BY <1>30 DEF CancelRequests, Spared
<1>31. ASSUME NEW s \in Subs, CancelSub(s) PROVE HandoverInv'
  BY <1>31 DEF CancelSub
<1>32. ASSUME CloseCodec PROVE HandoverInv'
  BY <1>32 DEF CloseCodec
<1>33. ASSUME NEW c \in Conns, DrainOp(c) PROVE HandoverInv'
  BY <1>33 DEF DrainOp
<1>34. ASSUME NEW c \in Conns, DrainErr(c) PROVE HandoverInv'
  <2>1. dpc = "drain" /\ writeConn' = writeConn /\ reading
    BY <1>34 DEF DrainErr
  <2>2. CASE why = "exit"
    BY <1>34, <2>1, <2>2 DEF DrainErr
  <2>3. CASE why = "reconnected"
    <3>1. cur' = cur + 1 /\ reading' = TRUE /\ dpc' = "select" /\ why' = "none"
      BY <1>34, <2>3 DEF DrainErr, Attach
    <3>2. QED
      BY <2>1, <2>3, <3>1
  <2>4. QED
    BY <2>1, <2>2, <2>3
<1>35. CASE UNCHANGED vars
  BY <1>35 DEF vars
<1>36. QED
  BY <1>1, <1>2, <1>3, <1>4, <1>5, <1>6, <1>7, <1>8, <1>9, <1>10, <1>11, <1>12,
     <1>13, <1>14, <1>15, <1>16, <1>17, <1>18, <1>19, <1>20, <1>21, <1>22, <1>23, <1>24,
     <1>25, <1>26, <1>27, <1>28, <1>29, <1>30, <1>31, <1>32, <1>33, <1>34, <1>35
  DEF Next, Caller, Proceed, Closer, Connection, Select, Handle, Shutdown

\* The IDs of an op leave respWait with an answer, an error, its own timeout or its
\* own failed send, or it is the op in flight when the handler is closed.
Accounted(o) ==
    \/ buf'[o] = buf[o] + 1 \/ closed'[o] \/ pc[o] = "timeout"
    \/ lastOp = o /\ (reqSent = "err" \/ dpc = "cancel")

\* So it is in every step.
LEMMA LossAccounted ==
    ASSUME ControlInv, HandoverInv, [Next]_vars, NEW p \in Ops, Pending(p) \ respWait' # {}
    PROVE  Accounted(p)
<1> USE OpsAssumption, IdsAssumption, KindsAssumption DEF Pending, Accounted
<1>0. PICK j \in Ids[p] : j \in respWait /\ j \notin respWait'
  OBVIOUS
<1>1. ASSUME NEW o \in Ops, Caller(o) PROVE FALSE
  BY <1>0, <1>1 DEF Caller, Proceed, Start, Unsubscribe, SendAborted, WriteOK, WriteFail, DialFail, DialOK,
       HandoverQuit, Sent, Receive, ReceiveClosed, Expire, TimeoutQuit, dispatchVars
<1>2. ASSUME NEW k \in Closers, Closer(k) PROVE FALSE
  BY <1>0, <1>2 DEF Closer, CloseCall, CloseReturn, dispatchVars
<1>3. ASSUME NEW c \in Conns, Connection(c) PROVE FALSE
  BY <1>0, <1>3 DEF Connection, Break, PeerCall, ReadMsg, ReadFail, dispatchVars
<1>4. ASSUME NEW o \in Ops, ReqInit(o) PROVE FALSE
  BY <1>0, <1>4 DEF ReqInit
<1>5. ASSUME NEW o \in Ops, ReqTimeout(o) PROVE Accounted(p)
  <2>1. pc[o] = "timeout" /\ j \in Ids[o]
    BY <1>0, <1>5 DEF ReqTimeout
  <2>2. QED
    BY <2>1
<1>6. ASSUME NEW o \in Ops, Reconnected(o) PROVE FALSE
  <2>1. dpc = "select" /\ ~reading /\ respWait' = Ids[lastOp]
    BY <1>0, <1>6 DEF Reconnected, Attach
  <2>2. j \in Ids[lastOp]
    BY <1>0, <2>1 DEF HandoverInv, Detached
  <2>3. QED
    BY <1>0, <2>1, <2>2
<1>7. ASSUME ReqSent PROVE Accounted(p)
  <2>1. reqSent = "err" /\ j \in Ids[lastOp] /\ lastOp # NoOp
    BY <1>0, <1>7 DEF ReqSent, ControlInv, LockHeld
  <2>2. lastOp \in Ops
    BY <2>1 DEF ControlInv, TypeOK
  <2>3. QED
    BY <2>1, <2>2
<1>8. ASSUME NEW c \in Conns, ReadOp(c) \/ ReadErr(c) PROVE FALSE
  BY <1>0, <1>8 DEF ReadOp, ReadErr
<1>9. ASSUME NEW k \in Closers, CloseReq(k) PROVE FALSE
  BY <1>0, <1>9 DEF CloseReq
<1>10. ASSUME NEW i \in todo, HandleUnsolicited(i) PROVE FALSE
  BY <1>0, <1>10 DEF HandleUnsolicited
<1>11. ASSUME NEW o \in Ops, NEW i \in todo, HandleResponse(o, i) PROVE Accounted(p)
  <2>1. i \in Ids[o] /\ i = j /\ buf' = [buf EXCEPT ![o] = @ + 1]
    BY <1>0, <1>11 DEF HandleResponse
  <2>2. o = p
    BY <2>1
  <2>3. QED
    BY <2>1, <2>2 DEF ControlInv, TypeOK
<1>12. ASSUME NEW o \in Ops, NEW i \in todo, HandleSubscribed(o, i) PROVE Accounted(p)
  <2>1. i \in Ids[o] /\ i = j /\ closed' = [closed EXCEPT ![o] = TRUE]
    BY <1>0, <1>12 DEF HandleSubscribed
  <2>2. o = p
    BY <2>1
  <2>3. QED
    BY <2>1, <2>2 DEF ControlInv, TypeOK
<1>13. ASSUME EndHandle PROVE FALSE
  BY <1>0, <1>13 DEF EndHandle
<1>14. ASSUME CancelRequests PROVE Accounted(p)
  <2> DEFINE hit == {o \in Ops \ {Spared} : Ids[o] \cap respWait # {}}
  <2>1. dpc = "cancel" /\ closed' = [o \in Ops |-> closed[o] \/ o \in hit]
    BY <1>14 DEF CancelRequests
  <2>2. CASE p = Spared
    BY <2>1, <2>2 DEF Spared
  <2>3. CASE p # Spared
    <3>1. p \in hit
      BY <1>0, <2>3
    <3> HIDE DEF hit
    <3>2. closed'[p]
      BY <2>1, <3>1
    <3>3. QED
      BY <3>2
  <2>4. QED
    BY <2>2, <2>3
<1>15. ASSUME NEW s \in Subs, CancelSub(s) PROVE FALSE
  BY <1>0, <1>15 DEF CancelSub
<1>16. ASSUME CloseCodec PROVE FALSE
  BY <1>0, <1>16 DEF CloseCodec
<1>17. ASSUME NEW c \in Conns, DrainOp(c) PROVE FALSE
  BY <1>0, <1>17 DEF DrainOp, dispatchVars
<1>18. ASSUME NEW c \in Conns, DrainErr(c) PROVE FALSE
  BY <1>0, <1>18 DEF DrainErr, HandoverInv, Detached
<1>19. CASE UNCHANGED vars
  BY <1>0, <1>19 DEF vars, dispatchVars
<1>20. QED
  BY <1>1, <1>2, <1>3, <1>4, <1>5, <1>6, <1>7, <1>8, <1>9, <1>10, <1>11, <1>12, <1>13, <1>14,
     <1>15, <1>16, <1>17, <1>18, <1>19 DEF Next, Select, Handle, Shutdown

\* dispatch forgets an op only together with an answer, an error on op.resp, its
\* timeout or its failed send, for any number of reconnects and late failures; the
\* exception is the op in flight when the handler is closed.
THEOREM DeregistrationAccounted == Spec => NoSilentDeregistration
<1>1. HandoverInv /\ ControlInv /\ [Next]_vars => HandoverInv'
  BY HandoverStep
<1>2. ControlInv /\ HandoverInv /\ [Next]_vars =>
         [\A o \in Ops : Pending(o) \ respWait' # {} =>
             \/ buf'[o] = buf[o] + 1 \/ closed'[o]
             \/ pc[o] = "timeout"
             \/ lastOp = o /\ (reqSent = "err" \/ dpc = "cancel")]_vars
  BY LossAccounted DEF Accounted
<1>3. QED
  BY <1>1, <1>2, HandoverInit, ControlInvariant, PTL DEF Spec, NoSilentDeregistration
=============================================================================
