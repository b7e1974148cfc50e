----------------------------- MODULE RpcServer ------------------------------
(***************************************************************************)
(* The RPC server (simple_rpc/rpc/server.go) in the orchestrator processes   *)
(* that listen on one IPC endpoint (main.go, endpoints.go, ipc.go,           *)
(* ipc_unix.go).  A connection is an element of Conns and stands for its     *)
(* codec and the goroutine that runs ServeCodec on it; the client that       *)
(* serves it (initClient) is RpcClient and RpcHandler.                       *)
(***************************************************************************)
EXTENDS FiniteSets

CONSTANTS
    Procs,          \* processes started for the endpoint
    Conns,          \* connections, reused when their process has ended
    None,           \* nobody
    Stale           \* the socket file of a process that crashed

ASSUME ServerAssumption == None \notin Procs /\ Stale \notin Procs /\ None # Stale

VARIABLES
    proc,       \* "down", "listen" (endpoint removed), "up"
    socket,     \* whose socket file is at the endpoint
    bound,      \* processes whose listener is open
    accepting,  \* processes whose ServeListener runs
    run,        \* server.run = 1
    stop,       \* Stop: "no", "each", "done"
    codecs,     \* server.codecs
    owner,      \* the process that serves a connection
    cpc,        \* ServeCodec: "none", "backlog", "check", "add", "serve", "close", "done"
    closed,     \* codecs whose closeCh is closed
    overlap     \* history: two processes used the endpoint at the same time

procVars == <<proc, socket, bound, accepting, overlap>>
serverVars == <<run, stop, codecs>>
connVars == <<owner, cpc, closed>>
vars == <<procVars, serverVars, connVars>>

TypeOK ==
    /\ proc \in [Procs -> {"down", "listen", "up"}]
    /\ socket \in Procs \cup {None, Stale}
    /\ bound \subseteq Procs /\ accepting \subseteq Procs
    /\ run \in [Procs -> BOOLEAN] /\ stop \in [Procs -> {"no", "each", "done"}]
    /\ codecs \in [Procs -> SUBSET Conns]
    /\ owner \in [Conns -> Procs \cup {None}]
    /\ cpc \in [Conns -> {"none", "backlog", "check", "add", "serve", "close", "done"}]
    /\ closed \subseteq Conns
    /\ overlap \in BOOLEAN

Of(p) == {c \in Conns : owner[c] = p}

Init ==
    /\ proc = [p \in Procs |-> "down"] /\ socket = None
    /\ bound = {} /\ accepting = {}
    /\ run = [p \in Procs |-> FALSE] /\ stop = [p \in Procs |-> "no"]
    /\ codecs = [p \in Procs |-> {}]
    /\ owner = [c \in Conns |-> None] /\ cpc = [c \in Conns |-> "none"]
    /\ closed = {} /\ overlap = FALSE

-----------------------------------------------------------------------------
(* The process.                                                             *)

\* Mutant of RemoveEndpoint: os.Remove is left out.
RemoveEndpointNot(p) ==
    /\ proc[p] = "down"
    /\ proc' = [proc EXCEPT ![p] = "listen"]
    /\ overlap' = (overlap \/ \E q \in Procs : proc[q] # "down")
    /\ run' = [run EXCEPT ![p] = TRUE]
    /\ UNCHANGED <<socket, bound, accepting, stop, codecs, connVars>>

\* startServer, StartIPCEndpoint and ipcListen up to os.Remove, which also takes
\* the file of a server that is running.
RemoveEndpoint(p) ==
    /\ proc[p] = "down"
    /\ proc' = [proc EXCEPT ![p] = "listen"]
    /\ overlap' = (overlap \/ \E q \in Procs : proc[q] # "down")
    /\ socket' = None
    /\ run' = [run EXCEPT ![p] = TRUE]
    /\ UNCHANGED <<bound, accepting, stop, codecs, connVars>>

\* net.Listen: fails if there is a file, then the process exits (log.Fatalf).
Listen(p) ==
    /\ proc[p] = "listen"
    /\ IF socket = None
       THEN /\ proc' = [proc EXCEPT ![p] = "up"]
            /\ socket' = p /\ bound' = bound \cup {p} /\ accepting' = accepting \cup {p}
            /\ UNCHANGED run
       ELSE /\ proc' = [proc EXCEPT ![p] = "down"]
            /\ run' = [run EXCEPT ![p] = FALSE]
            /\ UNCHANGED <<socket, bound, accepting>>
    /\ UNCHANGED <<stop, codecs, connVars, overlap>>

\* The end of a process takes its goroutines, its Server and its connections.
Exit(p) ==
    /\ proc' = [proc EXCEPT ![p] = "down"]
    /\ bound' = bound \ {p} /\ accepting' = accepting \ {p}
    /\ run' = [run EXCEPT ![p] = FALSE] /\ stop' = [stop EXCEPT ![p] = "no"]
    /\ codecs' = [codecs EXCEPT ![p] = {}]
    /\ owner' = [c \in Conns |-> IF c \in Of(p) THEN None ELSE owner[c]]
    /\ cpc' = [c \in Conns |-> IF c \in Of(p) THEN "none" ELSE cpc[c]]
    /\ closed' = closed \ Of(p)

\* An interrupt: startServer closes the listener and returns; Stop is not called.
\* Closing a Unix listener unlinks its path, whoever's file is there by now.
Interrupt(p) ==
    /\ proc[p] = "up" /\ Exit(p)
    /\ socket' = None
    /\ overlap' = (overlap /\ \E q \in Procs \ {p} : proc[q] # "down")

\* A crash leaves the file behind.
Crash(p) ==
    /\ proc[p] # "down" /\ Exit(p)
    /\ socket' = IF socket = p THEN Stale ELSE socket
    /\ overlap' = (overlap /\ \E q \in Procs \ {p} : proc[q] # "down")

-----------------------------------------------------------------------------
(* Connections.                                                             *)

\* newIPCConnection: the kernel queues it for the listener of the socket file.
DialIPC(c) ==
    /\ cpc[c] = "none" /\ socket \in bound
    /\ owner' = [owner EXCEPT ![c] = socket] /\ cpc' = [cpc EXCEPT ![c] = "backlog"]
    /\ UNCHANGED <<procVars, serverVars, closed>>

\* ServeListener starts a goroutine with ServeCodec; after a temporary error it
\* tries again.
Accept(c) ==
    /\ cpc[c] = "backlog" /\ owner[c] \in accepting
    /\ cpc' = [cpc EXCEPT ![c] = "check"]
    /\ UNCHANGED <<procVars, serverVars, owner, closed>>

\* Any other error of Accept ends ServeListener, for good and in silence.
AcceptError(p) ==
    /\ p \in accepting
    /\ accepting' = accepting \ {p}
    /\ UNCHANGED <<proc, socket, bound, overlap, serverVars, connVars>>

\* DialInProc: the server's end of a pipe.
DialInProc(c, p) ==
    /\ cpc[c] = "none" /\ proc[p] = "up"
    /\ owner' = [owner EXCEPT ![c] = p] /\ cpc' = [cpc EXCEPT ![c] = "check"]
    /\ UNCHANGED <<procVars, serverVars, closed>>

\* ServeCodec does not serve if the server is stopped; it closes the codec.
ServeCheck(c) ==
    /\ cpc[c] = "check"
    /\ IF run[owner[c]]
       THEN cpc' = [cpc EXCEPT ![c] = "add"] /\ UNCHANGED closed
       ELSE cpc' = [cpc EXCEPT ![c] = "done"] /\ closed' = closed \cup {c}
    /\ UNCHANGED <<procVars, serverVars, owner>>

\* ServeCodec adds the codec and starts the client.
ServeAdd(c) ==
    /\ cpc[c] = "add"
    /\ cpc' = [cpc EXCEPT ![c] = "serve"]
    /\ codecs' = [codecs EXCEPT ![owner[c]] = @ \cup {c}]
    /\ UNCHANGED <<procVars, run, stop, owner, closed>>

\* <-codec.closed(): ServeCodec calls Close of the client, which may take for ever.
ServeClosed(c) ==
    /\ cpc[c] = "serve" /\ c \in closed
    /\ cpc' = [cpc EXCEPT ![c] = "close"]
    /\ UNCHANGED <<procVars, serverVars, owner, closed>>

\* Close returns, and the deferred calls are made.
ServeEnd(c) ==
    /\ cpc[c] = "close"
    /\ cpc' = [cpc EXCEPT ![c] = "done"]
    /\ codecs' = [codecs EXCEPT ![owner[c]] = @ \ {c}]
    /\ UNCHANGED <<procVars, run, stop, owner, closed>>

\* The read loop fails because the peer is gone; dispatch closes the codec.
ReadFails(c) ==
    /\ cpc[c] = "serve" /\ c \notin closed
    /\ closed' = closed \cup {c}
    /\ UNCHANGED <<procVars, serverVars, owner, cpc>>

-----------------------------------------------------------------------------
(* The program that embeds the server.                                      *)

\* Stop: the first caller clears run ...
StopRun(p) ==
    /\ proc[p] = "up" /\ run[p]
    /\ run' = [run EXCEPT ![p] = FALSE] /\ stop' = [stop EXCEPT ![p] = "each"]
    /\ UNCHANGED <<procVars, codecs, connVars>>

\* ... and iterates over the codecs; Set.Each ends when the function it calls
\* returns true, as the one Stop passes does after closing a codec.
StopEach(p) ==
    /\ stop[p] = "each"
    /\ stop' = [stop EXCEPT ![p] = "done"]
    /\ IF codecs[p] = {} THEN UNCHANGED closed
       ELSE \E c \in codecs[p] : closed' = closed \cup {c}
    /\ UNCHANGED <<procVars, run, codecs, owner, cpc>>

-----------------------------------------------------------------------------
Next ==
    \/ \E p \in Procs :
          \/ RemoveEndpoint(p) \/ Listen(p) \/ Interrupt(p) \/ Crash(p) \/ AcceptError(p)
          \/ StopRun(p) \/ StopEach(p)
          \/ \E c \in Conns : DialInProc(c, p)
    \/ \E c \in Conns :
          \/ DialIPC(c) \/ Accept(c) \/ ServeCheck(c) \/ ServeAdd(c)
          \/ ServeClosed(c) \/ ServeEnd(c) \/ ReadFails(c)

Spec == Init /\ [][Next]_vars

-----------------------------------------------------------------------------
(* Properties.                                                              *)

\* A process that has the endpoint for itself since it began can listen and is the
\* one clients reach, also after a crash that left the socket file behind
\* (ipcListen); a process that met another one may be unreachable.
SoleServerReachable ==
    \A p \in Procs : ~overlap =>
        /\ proc[p] = "up" => socket = p
        /\ proc[p] = "listen" => socket = None

\* "closes all codecs": when Stop has returned, every codec of the server is closed.
StopClosesAll == \A p \in Procs : stop[p] = "done" => codecs[p] \subseteq closed
=============================================================================
