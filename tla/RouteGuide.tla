----------------------------- MODULE RouteGuide -----------------------------
(***************************************************************************)
(* The gRPC route guide: several clients, each running the calls of its    *)
(* main function one after the other, and one server whose handlers run    *)
(* concurrently and share the notes of RouteChat.                          *)
(*                                                                         *)
(* gRPC itself is external and is modelled from its use: a stream keeps    *)
(* the order of messages in each direction, holds at most Window messages  *)
(* that the other side has not read (a Send beyond that blocks), and may   *)
(* be cut at any moment by the deadline of the call's context or by the    *)
(* network, after which its operations fail or still see what has arrived. *)
(***************************************************************************)
EXTENDS Integers, Sequences, FiniteSets, FiniteSetsExt, SequencesExt

CONSTANTS
    Clients,
    Points,         \* records with fields lat and lon
    SavedFeatures,  \* the features loaded by the server, in file order
    Queries,        \* the points main asks GetFeature for, in order
    Rectangles,     \* the rectangles main may ask ListFeatures for
    Routes,         \* the routes runRecordRoute may draw
    ChatScript,     \* the locations of the notes of runRouteChat, in order
    Distance,       \* calcDistance, on pairs of points
    Window,         \* messages in flight in one direction of a stream
    NoPoint, End    \* a nil point; the end of a stream's messages

ASSUME WindowAssumption == Window \in Nat \ {0}
ASSUME RoutesAssumption == \A r \in Routes : r \in Seq(Points) /\ Len(r) >= 2
ASSUME PointsAssumption ==
    /\ Points \subseteq [lat : Int, lon : Int] /\ NoPoint \notin Points
    /\ \A p, q \in Points : Distance[<<p, q>>] \in Int
    /\ Queries \in Seq(Points) /\ Queries # <<>> /\ ChatScript \in Seq(Points)
    /\ Rectangles \subseteq [lo : Points, hi : Points]
    /\ SavedFeatures \in Seq({f \in ToSet(SavedFeatures) : f.location \in Points})

VARIABLES
    at,         \* the call each client's main is in: a name, "done" or "fatal"
    todo,       \* the messages of that call it has yet to send
    opened,     \* its stream has been created
    closed,     \* CloseSend has been called
    cut,        \* the context of its stream has ended
    up, down,   \* the messages in flight to and from the server
    got,        \* what the client received, call by call
    srv,        \* the handler that serves the client's stream
    trip,       \* the locals of RecordRoute
    routeNotes  \* routeGuideServer.routeNotes

client == <<at, todo, opened, closed, got>>
net == <<cut, up, down>>
server == <<srv, trip, routeNotes>>
vars == <<client, net, server>>

Calls == <<"GetFeature", "ListFeatures", "RecordRoute", "RouteChat">>
Following(call) == LET i == CHOOSE i \in DOMAIN Calls : Calls[i] = call
                   IN  IF i < Len(Calls) THEN Calls[i + 1] ELSE "done"

-----------------------------------------------------------------------------
(* The server's functions of points *)

\* GetFeature: the first saved feature of that location, else an unnamed one.
GetFeature(point) ==
    LET here == {i \in DOMAIN SavedFeatures : SavedFeatures[i].location = point}
    IN  IF here # {} THEN SavedFeatures[Min(here)] ELSE [name |-> "", location |-> point]

\* Mutant of inRange: lo is taken to be the lower corner.
inRangeOrdered(point, rect) ==
    /\ point.lon >= rect.lo.lon /\ point.lon <= rect.hi.lon
    /\ point.lat >= rect.lo.lat /\ point.lat <= rect.hi.lat

\* Between the corners, whichever of them is the lower one.
inRange(point, rect) ==
    LET left == Min({rect.lo.lon, rect.hi.lon})
        right == Max({rect.lo.lon, rect.hi.lon})
        top == Max({rect.lo.lat, rect.hi.lat})
        bottom == Min({rect.lo.lat, rect.hi.lat})
    IN  point.lon >= left /\ point.lon <= right /\ point.lat >= bottom /\ point.lat <= top

\* The loop of ListFeatures over the saved features, of which those numbered in
\* within are sent.
Listed(within) ==
    LET list[k \in 0..Len(SavedFeatures)] ==
            IF k = 0 THEN <<>>
            ELSE IF k \in within THEN Append(list[k - 1], SavedFeatures[k]) ELSE list[k - 1]
    IN  list[Len(SavedFeatures)]

\* The decimal forms of the coordinates, separated by a space.
serialize(point) == <<point.lat, point.lon>>

calcDistance(p1, p2) == Distance[<<p1, p2>>]

NoTrip == [pointCount |-> 0, featureCount |-> 0, distance |-> 0, lastPoint |-> NoPoint]

\* One turn of RecordRoute's loop.
RecordPoint(t, point) ==
    [pointCount |-> t.pointCount + 1,
     featureCount |-> t.featureCount
         + Cardinality({i \in DOMAIN SavedFeatures : SavedFeatures[i].location = point}),
     distance |-> IF t.lastPoint = NoPoint THEN t.distance
                  ELSE t.distance + calcDistance(t.lastPoint, point),
     lastPoint |-> point]

Summary(t) == [pointCount |-> t.pointCount, featureCount |-> t.featureCount,
               distance |-> t.distance]

-----------------------------------------------------------------------------
\* newServer: no notes yet; the features are loaded before any call.
NewServer == [key \in {serialize(p) : p \in Points} |-> <<>>]

\* The state of a handler, and a stream without one.
Serving(method, rn, last) == [method |-> method, rn |-> rn, last |-> last]
Idle == Serving("none", <<>>, FALSE)

Init ==
    /\ at = [c \in Clients |-> Calls[1]]
    /\ todo = [c \in Clients |-> Queries]
    /\ opened = [c \in Clients |-> FALSE]
    /\ closed = [c \in Clients |-> FALSE]
    /\ got = [c \in Clients |-> [call \in ToSet(Calls) |-> <<>>]]
    /\ cut = [c \in Clients |-> FALSE]
    /\ up = [c \in Clients |-> <<>>]
    /\ down = [c \in Clients |-> <<>>]
    /\ srv = [c \in Clients |-> Idle]
    /\ trip = [c \in Clients |-> NoTrip]
    /\ routeNotes = NewServer

(* The client *)

\* log.Fatalf: the process exits, and its connection with it.
Fatal(c) ==
    /\ at' = [at EXCEPT ![c] = "fatal"]
    /\ cut' = [cut EXCEPT ![c] = TRUE]
    /\ todo' = [todo EXCEPT ![c] = <<>>]
    /\ down' = [down EXCEPT ![c] = <<>>]
    /\ UNCHANGED <<opened, closed, got, up, server>>

\* printFeature: one question and its answer; no state of the server changes.
PrintFeature(c) ==
    /\ at[c] = "GetFeature"
    /\ \/ /\ got' = [got EXCEPT ![c].GetFeature = Append(@, GetFeature(Head(todo[c])))]
          /\ todo' = [todo EXCEPT ![c] = Tail(@)]
          /\ at' = [at EXCEPT ![c] = IF Len(todo[c]) = 1 THEN Following(@) ELSE @]
          /\ UNCHANGED <<opened, closed, net, server>>
       \/ Fatal(c)

Note(c, i) == [from |-> c, number |-> i, location |-> ChatScript[i]]

\* What the client sends in a call; a route is drawn at random.
Messages(c, call) ==
    CASE call = "ListFeatures" -> {<<r>> : r \in Rectangles}
      [] call = "RecordRoute" -> Routes
      [] call = "RouteChat" -> {[i \in DOMAIN ChatScript |-> Note(c, i)]}

\* NewStream, which starts the handler of that method on the server.
NewStream(c) ==
    /\ at[c] \in {"ListFeatures", "RecordRoute", "RouteChat"}
    /\ ~opened[c]
    /\ \/ /\ \E ms \in Messages(c, at[c]) : todo' = [todo EXCEPT ![c] = ms]
          /\ opened' = [opened EXCEPT ![c] = TRUE]
          /\ closed' = [closed EXCEPT ![c] = FALSE]
          /\ cut' = [cut EXCEPT ![c] = FALSE]
          /\ up' = [up EXCEPT ![c] = <<>>]
          /\ down' = [down EXCEPT ![c] = <<>>]
          /\ srv' = [srv EXCEPT ![c] = Serving(at[c], <<>>, FALSE)]
          /\ trip' = [trip EXCEPT ![c] = NoTrip]
          /\ UNCHANGED <<at, got, routeNotes>>
       \/ Fatal(c)

Running(c) == opened[c] /\ at[c] # "fatal"

Send(c) ==
    /\ Running(c) /\ todo[c] # <<>>
    /\ Len(up[c]) < Window
    /\ up' = [up EXCEPT ![c] = Append(@, Head(todo[c]))]
    /\ todo' = [todo EXCEPT ![c] = Tail(@)]
    /\ UNCHANGED <<at, opened, closed, got, cut, down, server>>

\* CloseSend, in CloseAndRecv and in the stub of ListFeatures too.
CloseSend(c) ==
    /\ Running(c) /\ todo[c] = <<>> /\ ~closed[c]
    /\ closed' = [closed EXCEPT ![c] = TRUE]
    /\ up' = [up EXCEPT ![c] = Append(@, End)]
    /\ UNCHANGED <<at, todo, opened, got, cut, down, server>>

\* Mutant of Receives: runRouteChat receives when it has sent all of its notes.
ReceivesAfterSending(c) == closed[c]

\* RouteChat receives on a goroutine of its own, the others once they have sent.
Receives(c) == at[c] = "RouteChat" \/ closed[c]

Recv(c) ==
    /\ Running(c) /\ Receives(c)
    /\ down[c] # <<>> /\ Head(down[c]) # End
    /\ got' = [got EXCEPT ![c][at[c]] = Append(@, Head(down[c]))]
    /\ down' = [down EXCEPT ![c] = Tail(@)]
    /\ UNCHANGED <<at, todo, opened, closed, cut, up, server>>

\* io.EOF: the call is over; runRouteChat's main returns from <-waitc.
RecvEOF(c) ==
    /\ Running(c) /\ closed[c]
    /\ down[c] # <<>> /\ Head(down[c]) = End
    /\ at' = [at EXCEPT ![c] = Following(@)]
    /\ opened' = [opened EXCEPT ![c] = FALSE]
    /\ down' = [down EXCEPT ![c] = <<>>]
    /\ UNCHANGED <<todo, closed, got, cut, up, server>>

\* Any error of Send or Recv is fatal to the client.
StreamError(c) == Running(c) /\ cut[c] /\ Fatal(c)

\* External: the deadline of ten seconds passes, or the connection is lost.
Cut(c) ==
    /\ Running(c) /\ ~cut[c]
    /\ cut' = [cut EXCEPT ![c] = TRUE]
    /\ UNCHANGED <<client, up, down, server>>

Client(c) == PrintFeature(c) \/ NewStream(c) \/ Send(c) \/ CloseSend(c)
             \/ Recv(c) \/ RecvEOF(c) \/ StreamError(c)

-----------------------------------------------------------------------------
(* The server: rn is what the handler is about to send; when last holds it *)
(* returns after that.                                                     *)

Reading(c, method) ==
    /\ srv[c].method = method /\ srv[c].rn = <<>> /\ ~srv[c].last
    /\ up[c] # <<>>
    /\ up' = [up EXCEPT ![c] = Tail(@)]
    /\ UNCHANGED <<client, cut, down>>

ListFeatures(c) ==
    /\ Reading(c, "ListFeatures")
    /\ LET within == {i \in DOMAIN SavedFeatures : inRange(SavedFeatures[i].location, Head(up[c]))}
       IN  srv' = [srv EXCEPT ![c] = Serving("ListFeatures", Listed(within), TRUE)]
    /\ UNCHANGED <<trip, routeNotes>>

RecordRoute(c) ==
    /\ Reading(c, "RecordRoute")
    /\ IF Head(up[c]) = End
       THEN /\ srv' = [srv EXCEPT ![c] = Serving("RecordRoute", <<Summary(trip[c])>>, TRUE)]
            /\ UNCHANGED trip
       ELSE /\ trip' = [trip EXCEPT ![c] = RecordPoint(@, Head(up[c]))]
            /\ UNCHANGED srv
    /\ UNCHANGED routeNotes

\* Mutant of RouteChat: a stream is told its own notes only.
RouteChatOwnNotes(c) ==
    /\ Reading(c, "RouteChat")
    /\ IF Head(up[c]) = End
       THEN /\ srv' = [srv EXCEPT ![c] = Serving("RouteChat", <<>>, TRUE)]
            /\ UNCHANGED routeNotes
       ELSE LET key == serialize(Head(up[c]).location)
                own == SelectSeq(routeNotes'[key], LAMBDA n : n.from = c)
            IN  /\ routeNotes' = [routeNotes EXCEPT ![key] = Append(@, Head(up[c]))]
                /\ srv' = [srv EXCEPT ![c] = Serving("RouteChat", own, FALSE)]
    /\ UNCHANGED trip

\* Append and copy happen under mu, the sending after it is released.  The copy
\* has the new note too, which goes back to its author.
RouteChat(c) ==
    /\ Reading(c, "RouteChat")
    /\ IF Head(up[c]) = End
       THEN /\ srv' = [srv EXCEPT ![c] = Serving("RouteChat", <<>>, TRUE)]
            /\ UNCHANGED routeNotes
       ELSE LET key == serialize(Head(up[c]).location)
            IN  /\ routeNotes' = [routeNotes EXCEPT ![key] = Append(@, Head(up[c]))]
                /\ srv' = [srv EXCEPT ![c] = Serving("RouteChat", routeNotes'[key], FALSE)]
    /\ UNCHANGED trip

StreamSend(c) ==
    /\ srv[c].rn # <<>> /\ Len(down[c]) < Window
    /\ down' = [down EXCEPT ![c] = Append(@, Head(srv[c].rn))]
    /\ srv' = [srv EXCEPT ![c] = Serving(@.method, Tail(@.rn), @.last)]
    /\ UNCHANGED <<client, cut, up, trip, routeNotes>>

\* The handler returns nil; gRPC ends the stream.
HandlerReturn(c) ==
    /\ srv[c].last /\ srv[c].rn = <<>>
    /\ down' = [down EXCEPT ![c] = Append(@, End)]
    /\ srv' = [srv EXCEPT ![c] = Idle]
    /\ UNCHANGED <<client, cut, up, trip, routeNotes>>

\* Recv or Send reports an error and the handler returns it.
HandlerError(c) ==
    /\ cut[c] /\ srv[c].method \notin {"none", "failed"}
    /\ srv' = [srv EXCEPT ![c] = Serving("failed", <<>>, FALSE)]
    /\ UNCHANGED <<client, net, trip, routeNotes>>

Handler(c) == ListFeatures(c) \/ RecordRoute(c) \/ RouteChat(c)
              \/ StreamSend(c) \/ HandlerReturn(c) \/ HandlerError(c)

Finished == \A c \in Clients : at[c] \in {"done", "fatal"}
Rest == Finished /\ UNCHANGED vars

Next == (\E c \in Clients : Client(c) \/ Cut(c) \/ Handler(c)) \/ Rest

Spec == Init /\ [][Next]_vars

\* Every goroutine goes on while it can. Nothing is assumed of deadlines.
FairSpec == Spec /\ \A c \in Clients :
    /\ WF_vars(PrintFeature(c)) /\ WF_vars(NewStream(c))
    /\ WF_vars(Send(c) \/ CloseSend(c))
    /\ WF_vars(Recv(c) \/ RecvEOF(c)) /\ WF_vars(StreamError(c))
    /\ WF_vars(Handler(c))

-----------------------------------------------------------------------------
(* Properties *)

\* Between the corners of a rectangle, in whatever order they are given.
Between(x, a, b) == (a <= x /\ x <= b) \/ (b <= x /\ x <= a)

\* list holds every saved feature between the corners of r once, in file order.
Lists(list, r) ==
    LET inside == {i \in DOMAIN SavedFeatures :
                      /\ Between(SavedFeatures[i].location.lat, r.lo.lat, r.hi.lat)
                      /\ Between(SavedFeatures[i].location.lon, r.lo.lon, r.hi.lon)}
    IN  \E place \in [DOMAIN list -> inside] :
            /\ \A i \in inside : \E j \in DOMAIN list : place[j] = i
            /\ \A i, j \in DOMAIN list : i < j => place[i] < place[j]
            /\ \A j \in DOMAIN list : list[j] = SavedFeatures[place[j]]

\* The sum of the legs between the first k points of a route.
RouteLength(r, k) ==
    LET length[i \in 0..Len(r)] ==
            IF i <= 1 THEN 0 ELSE length[i - 1] + Distance[<<r[i - 1], r[i]>>]
    IN  length[k]

\* The first k points of a route: their number, that of the pairs of a point and a
\* feature at the same place, and their length.
TripSummary(r, k) ==
    [pointCount |-> k,
     featureCount |-> Cardinality({p \in (1..k) \X (DOMAIN SavedFeatures) :
                                      r[p[1]] = SavedFeatures[p[2]].location}),
     distance |-> RouteLength(r, k)]

\* A client that got past a call received the right answer over the stream, whole
\* and in order: the features between the corners of its rectangle, and the
\* summary of its route.
AnswersRight ==
    \A c \in Clients :
        /\ at[c] \in {"RecordRoute", "RouteChat", "done"} =>
               \E r \in Rectangles : Lists(got[c].ListFeatures, r)
        /\ at[c] \in {"RouteChat", "done"} =>
               \E r \in Routes : got[c].RecordRoute = <<TripSummary(r, Len(r))>>

ChatNotes == {Note(c, i) : c \in Clients, i \in DOMAIN ChatScript}
InChat(c) == at[c] = "RouteChat" /\ opened[c]

\* The messages of a direction without the end of the stream.
Ended(s) == s # <<>> /\ s[Len(s)] = End
Plain(s) == IF Ended(s) THEN Front(s) ELSE s

\* The notes that are on their way to a client, in flight or in the handler.
Owed(c) == IF InChat(c) THEN Plain(down[c]) \o srv[c].rn ELSE <<>>

Board == INSTANCE NoteBoard WITH
    Streams <- Clients, Notes <- ChatNotes, Places <- Points,
    Place <- [n \in ChatNotes |-> n.location],
    board <- [p \in Points |-> routeNotes[serialize(p)]],
    owed <- [c \in Clients |-> Owed(c)],
    heard <- [c \in Clients |-> got[c].RouteChat],
    broken <- {c \in Clients : at[c] = "fatal" \/ srv[c].method = "failed"}

\* RouteChat implements the note board: for each note it sends a stream hears
\* every earlier note of exactly that location, in the one order all streams see,
\* although the handlers send outside the lock.  (The note itself, which comes
\* back too, is neither required nor forbidden: see NoteBoard.)
ImplementsNoteBoard == Board!Spec

\* Every client finishes, by itself and not by grace of the deadline: windows
\* full in both directions never leave client and handler waiting for each
\* other, since runRouteChat receives while it sends.
EverybodyFinishes == <>[]Finished

-----------------------------------------------------------------------------
(* The invariant behind AnswersRight and ImplementsNoteBoard.                *)

Methods == {"ListFeatures", "RecordRoute", "RouteChat"}
Sends == [ListFeatures |-> Rectangles, RecordRoute |-> Points, RouteChat |-> ChatNotes]
Feature == ToSet(SavedFeatures) \cup {[name |-> "", location |-> p] : p \in Points}
Request == Points \cup Rectangles \cup ChatNotes
Reply == Feature \cup [pointCount : Nat, featureCount : Nat, distance : Int] \cup ChatNotes

ASSUME EndAssumption == End \notin Request \cup Reply

RouteType ==
    /\ at \in [Clients -> ToSet(Calls) \cup {"done", "fatal"}]
    /\ opened \in [Clients -> BOOLEAN] /\ closed \in [Clients -> BOOLEAN]
    /\ cut \in [Clients -> BOOLEAN]
    /\ todo \in [Clients -> Seq(Request)] /\ up \in [Clients -> Seq(Request \cup {End})]
    /\ down \in [Clients -> Seq(Reply \cup {End})]
    /\ got \in [Clients -> [ToSet(Calls) -> Seq(Reply)]]
    /\ srv \in [Clients -> [method : Methods \cup {"none", "failed"}, rn : Seq(Reply),
                            last : BOOLEAN]]
    /\ trip \in [Clients -> [pointCount : Nat, featureCount : Nat, distance : Int,
                             lastPoint : Points \cup {NoPoint}]]
    /\ routeNotes \in [{serialize(p) : p \in Points} -> Seq(ChatNotes)]

\* Client and handler are in the same call, unless the client has exited; only the
\* handler that returns ends the stream, and End is the last message of each
\* direction.
Streaming(c) ==
    /\ srv[c].method \in Methods =>
          /\ opened[c] /\ at[c] \in {srv[c].method, "fatal"}
          /\ Plain(up[c]) \in Seq(Sends[srv[c].method])
          /\ ~closed[c] => up[c] \in Seq(Sends[srv[c].method])
    /\ srv[c].method \notin Methods => srv[c].rn = <<>> /\ ~srv[c].last
    /\ opened[c] /\ at[c] # "fatal" =>
          /\ at[c] \in Methods /\ todo[c] \in Seq(Sends[at[c]])
          /\ closed[c] => todo[c] = <<>>
          /\ srv[c].method = "none" => Ended(down[c])
    /\ ~opened[c] => srv[c].method = "none" /\ down[c] = <<>>
    /\ srv[c].method # "none" => down[c] \in Seq(Reply)
    /\ Plain(down[c]) \in Seq(Reply)

Answered(c) == srv[c].method = "none" \/ srv[c].last

\* What is on the way of an answer, and before it of the question.
Listing(c) ==
    \E r \in Rectangles :
        /\ srv[c].method = "ListFeatures" /\ ~srv[c].last =>
              /\ Plain(up[c]) \o todo[c] = <<r>>
              /\ got[c].ListFeatures = <<>> /\ down[c] = <<>> /\ srv[c].rn = <<>>
        /\ Answered(c) => Lists(got[c].ListFeatures \o (Plain(down[c]) \o srv[c].rn), r)

Recording(c) ==
    \E r \in Routes :
        /\ srv[c].method = "RecordRoute" /\ ~srv[c].last =>
              /\ Plain(up[c]) \o todo[c] = SubSeq(r, trip[c].pointCount + 1, Len(r))
              /\ trip[c].pointCount \in 0..Len(r)
              /\ Summary(trip[c]) = TripSummary(r, trip[c].pointCount)
              /\ trip[c].lastPoint = IF trip[c].pointCount = 0 THEN NoPoint
                                     ELSE r[trip[c].pointCount]
              /\ got[c].RecordRoute = <<>> /\ down[c] = <<>> /\ srv[c].rn = <<>>
        /\ Answered(c) => got[c].RecordRoute \o (Plain(down[c]) \o srv[c].rn)
                             = <<TripSummary(r, Len(r))>>

Answering(c) ==
    /\ at[c] = "ListFeatures" /\ opened[c] => Listing(c)
    /\ at[c] = "RecordRoute" /\ opened[c] => Recording(c)
    /\ at[c] = "GetFeature" => ~opened[c] /\ todo[c] \in Seq(Points) /\ todo[c] # <<>>
    /\ at[c] = "GetFeature" \/ (at[c] = "ListFeatures" /\ ~opened[c]) => got[c].ListFeatures = <<>>
    /\ at[c] \in {"GetFeature", "ListFeatures"} \/ (at[c] = "RecordRoute" /\ ~opened[c]) =>
          got[c].RecordRoute = <<>>

RouteInv == RouteType /\ AnswersRight /\ \A c \in Clients : Streaming(c) /\ Answering(c)
=============================================================================
