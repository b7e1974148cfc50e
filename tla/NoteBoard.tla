----------------------------- MODULE NoteBoard -----------------------------
(***************************************************************************)
(* What RouteChat of the route guide promises, without streams, handlers   *)
(* or locks: a board of notes for each place, on which notes are only ever *)
(* added at the end. Posting a note owes its author what was on the board  *)
(* of that place, in the order of the board. What is owed is heard in      *)
(* order and nothing is skipped, unless the conversation breaks; then a    *)
(* last part of what is owed is lost.                                      *)
(*                                                                         *)
(* Whether the author also hears the new note is left open, because the    *)
(* repository does not agree with itself: server.go:99 says "all previous  *)
(* messages", route_guide.proto:51 "other RouteNotes", and the code of     *)
(* RouteChat sends the new note back after the others.                     *)
(***************************************************************************)
EXTENDS Naturals, Sequences

CONSTANTS Streams,  \* conversations
          Notes,    \* notes that may be posted
          Places,
          Place     \* the place of each note, a function

VARIABLES board,    \* the notes of each place
          owed,     \* what each conversation has still to hear
          heard,    \* what it has heard
          broken    \* the conversations that have failed

vars == <<board, owed, heard, broken>>

Init == /\ board = [p \in Places |-> <<>>]
        /\ owed = [s \in Streams |-> <<>>]
        /\ heard = [s \in Streams |-> <<>>]
        /\ broken = {}

\* A note is posted. A broken conversation is owed nothing more.
Post(s, n) ==
    LET previous == board[Place[n]]
        notes == Append(previous, n)
    IN  /\ board' = [board EXCEPT ![Place[n]] = notes]
        /\ \E told \in {previous, notes} :
              owed' = IF s \in broken THEN owed ELSE [owed EXCEPT ![s] = @ \o told]
        /\ UNCHANGED <<heard, broken>>

Hear(s) ==
    /\ owed[s] # <<>>
    /\ heard' = [heard EXCEPT ![s] = Append(@, Head(owed[s]))]
    /\ owed' = [owed EXCEPT ![s] = Tail(@)]
    /\ UNCHANGED <<board, broken>>

\* The conversation fails: only a first part of what is owed may still arrive.
Break(s) ==
    /\ \E k \in 0..Len(owed[s]) : owed' = [owed EXCEPT ![s] = SubSeq(@, 1, k)]
    /\ broken' = broken \cup {s}
    /\ UNCHANGED <<board, heard>>

Next == \E s \in Streams : (\E n \in Notes : Post(s, n)) \/ Hear(s) \/ Break(s)

Spec == Init /\ [][Next]_vars
=============================================================================
