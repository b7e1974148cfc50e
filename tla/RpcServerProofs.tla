--------------------------- MODULE RpcServerProofs ---------------------------
(***************************************************************************)
(* Who owns the socket file, for any number of processes and connections.   *)
(***************************************************************************)
EXTENDS RpcServer, TLAPS

\* While no two processes have met at the endpoint since the last time it was
\* deserted, at most one process is not down.
Alone == ~overlap => \A p, q \in Procs : proc[p] # "down" /\ proc[q] # "down" => p = q

\* A listener is open exactly in the processes that are up.
Listeners == /\ bound = {p \in Procs : proc[p] = "up"}
             /\ accepting \subseteq bound

\* What makes the sole process the one that is reached.
EndpointInv == TypeOK /\ Alone /\ Listeners /\ SoleServerReachable

\* At first nobody has started and there is no socket file.
LEMMA EndpointInit == Init => EndpointInv
<1> SUFFICES ASSUME Init PROVE EndpointInv
  OBVIOUS
<1>1. TypeOK
  BY DEF Init, TypeOK
<1>2. Alone /\ SoleServerReachable
  BY DEF Init, Alone, SoleServerReachable
<1>3. Listeners
  BY DEF Init, Listeners
<1>4. QED
  BY <1>1, <1>2, <1>3 DEF EndpointInv

\* Type correctness: every step leaves each variable in its range.
LEMMA TypeStep == TypeOK /\ [Next]_vars => TypeOK'
<1> SUFFICES ASSUME TypeOK, [Next]_vars PROVE TypeOK'
  OBVIOUS
<1> USE DEF TypeOK
<1>1. ASSUME NEW p \in Procs, RemoveEndpoint(p) PROVE TypeOK'
  BY <1>1 DEF RemoveEndpoint, connVars
<1>2. ASSUME NEW p \in Procs, Listen(p) PROVE TypeOK'
  BY <1>2 DEF Listen, connVars
<1>3. ASSUME NEW p \in Procs, Interrupt(p) PROVE TypeOK'
  BY <1>3 DEF Interrupt, Exit, Of
<1>4. ASSUME NEW p \in Procs, Crash(p) PROVE TypeOK'
  BY <1>4 DEF Crash, Exit, Of
<1>5. ASSUME NEW p \in Procs, AcceptError(p) PROVE TypeOK'
  BY <1>5 DEF AcceptError, serverVars, connVars
<1>6. ASSUME NEW p \in Procs, StopRun(p) \/ StopEach(p) PROVE TypeOK'
  <2>1. CASE StopRun(p)
    BY <2>1 DEF StopRun, procVars, connVars
  <2>2. CASE StopEach(p)
    <3>1. closed' \subseteq Conns
      BY <2>2 DEF StopEach
    <3>2. QED
      BY <2>2, <3>1 DEF StopEach, procVars
  <2>3. QED
    BY <1>6, <2>1, <2>2
<1>7. ASSUME NEW c \in Conns, NEW p \in Procs, DialInProc(c, p) PROVE TypeOK'
  BY <1>7 DEF DialInProc, procVars, serverVars
<1>8. ASSUME NEW c \in Conns, DialIPC(c) \/ Accept(c) \/ ServeCheck(c) \/ ReadFails(c)
      PROVE TypeOK'
  BY <1>8 DEF DialIPC, Accept, ServeCheck, ReadFails, procVars, serverVars
<1>9. ASSUME NEW c \in Conns, ServeAdd(c) \/ ServeClosed(c) \/ ServeEnd(c) PROVE TypeOK'
  BY <1>9 DEF ServeAdd, ServeClosed, ServeEnd, procVars, serverVars
<1>10. CASE UNCHANGED vars
  BY <1>10 DEF vars, procVars, serverVars, connVars
<1>11. QED
  BY <1>1, <1>2, <1>3, <1>4, <1>5, <1>6, <1>7, <1>8, <1>9, <1>10 DEF Next

\* Starting, listening, crashing and exiting keep the endpoint in the right hands.
LEMMA EndpointStep == EndpointInv /\ [Next]_vars => EndpointInv'
<1> SUFFICES ASSUME EndpointInv, [Next]_vars PROVE EndpointInv'
  OBVIOUS
<1>0. TypeOK /\ TypeOK'
  BY TypeStep DEF EndpointInv
<1> USE <1>0, ServerAssumption DEF EndpointInv, Alone, Listeners, SoleServerReachable
<1>1. ASSUME NEW p \in Procs, RemoveEndpoint(p) PROVE EndpointInv'
  <2>1. ~overlap' => \A q \in Procs : proc[q] = "down"
    BY <1>1 DEF RemoveEndpoint
  <2>2. \A q \in Procs : proc'[q] = IF q = p THEN "listen" ELSE proc[q]
    BY <1>1 DEF RemoveEndpoint, TypeOK
  <2>3. Alone' /\ SoleServerReachable'
    BY <1>1, <2>1, <2>2 DEF RemoveEndpoint
  <2>4. Listeners'
    BY <1>1 DEF RemoveEndpoint, TypeOK
  <2>5. QED
    BY <2>3, <2>4
<1>2. ASSUME NEW p \in Procs, Listen(p) PROVE EndpointInv'
  BY <1>2 DEF Listen, TypeOK
<1>3. ASSUME NEW p \in Procs, Interrupt(p) PROVE EndpointInv'
  BY <1>3 DEF Interrupt, Exit, TypeOK
<1>4. ASSUME NEW p \in Procs, Crash(p) PROVE EndpointInv'
  BY <1>4 DEF Crash, Exit, TypeOK
<1>5. ASSUME NEW p \in Procs, AcceptError(p) PROVE EndpointInv'
  BY <1>5 DEF AcceptError
<1>6. CASE UNCHANGED procVars
  BY <1>6 DEF procVars
<1>7. ASSUME NEW p \in Procs, StopRun(p) \/ StopEach(p) PROVE UNCHANGED procVars
  BY <1>7 DEF StopRun, StopEach
<1>8. ASSUME NEW c \in Conns, NEW p \in Procs, DialInProc(c, p) PROVE UNCHANGED procVars
  BY <1>8 DEF DialInProc
<1>9. ASSUME NEW c \in Conns,
             \/ DialIPC(c) \/ Accept(c) \/ ServeCheck(c) \/ ServeAdd(c)
             \/ ServeClosed(c) \/ ServeEnd(c) \/ ReadFails(c)
      PROVE UNCHANGED procVars
  BY <1>9 DEF DialIPC, Accept, ServeCheck, ServeAdd, ServeClosed, ServeEnd, ReadFails
<1>10. CASE UNCHANGED vars
  BY <1>6, <1>10 DEF vars
<1>11. QED
  BY <1>1, <1>2, <1>3, <1>4, <1>5, <1>6, <1>7, <1>8, <1>9, <1>10 DEF Next

\* However often processes are started, interrupted and crash, one that has had the
\* endpoint to itself can listen, and once it does the socket file is its own.
THEOREM SoleServer == Spec => []SoleServerReachable
<1>1. EndpointInv => SoleServerReachable
  BY DEF EndpointInv
<1>2. QED
  BY <1>1, EndpointInit, EndpointStep, PTL DEF Spec

=============================================================================
