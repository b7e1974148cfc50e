-------------------------- MODULE NotificationFeed --------------------------
(***************************************************************************)
(* What a client subscription promises its user, without goroutines and    *)
(* locks. Notifications come in the order they were published. Until the   *)
(* feed is over none is missing, and the user is at most Lag notifications *)
(* behind; falling further behind ends the feed. Once it is over some may  *)
(* be missing, but the order stays. Only then the user is told why, by one *)
(* value at most, and nothing is said any more after the line is shut.     *)
(***************************************************************************)
EXTENDS Naturals, Sequences

CONSTANTS Lag,        \* a natural number
          Reasons,
          Nothing     \* not a reason

VARIABLES published,  \* notifications so far, numbered from 1
          seen,       \* the numbers of those the user has received
          over,       \* the feed has ended
          told,       \* the reason the user was given, or Nothing
          shut        \* no reason will follow

vars == <<published, seen, over, told, shut>>

Latest == IF seen = <<>> THEN 0 ELSE seen[Len(seen)]

Init == published = 0 /\ seen = <<>> /\ over = FALSE /\ told = Nothing /\ shut = FALSE

Publish ==
    /\ over \/ published - Latest <= Lag
    /\ published' = published + 1
    /\ UNCHANGED <<seen, over, told, shut>>

See(n) ==
    /\ n > Latest
    /\ ~over => n = Latest + 1
    /\ seen' = Append(seen, n)
    /\ UNCHANGED <<published, over, told, shut>>

Finish == over' = TRUE /\ UNCHANGED <<published, seen, told, shut>>

Tell(r) ==
    /\ over /\ told = Nothing /\ ~shut
    /\ told' = r
    /\ UNCHANGED <<published, seen, over, shut>>

Shut ==
    /\ over
    /\ shut' = TRUE
    /\ UNCHANGED <<published, seen, over, told>>

Next == \/ Publish \/ Finish \/ Shut
        \/ \E n \in 1..published : See(n)
        \/ \E r \in Reasons : Tell(r)

Spec == Init /\ [][Next]_vars
=============================================================================
