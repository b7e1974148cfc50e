--------------------------- MODULE EpochExtractor ---------------------------
(***************************************************************************)
(* The runner of epoch-extractor/main.go: it polls the beacon node for the  *)
(* canonical head and, when the head's epoch has changed, asks for the      *)
(* proposers of the next and of the current epoch, in calls of their own,   *)
(* while the head moves on.                                                 *)
(*                                                                         *)
(* An epoch's schedule is one function from its slots to validator indices; *)
(* it stands for the pair of maps the code keeps (slot to index, index to   *)
(* public key), which are always replaced together.  An index has a public  *)
(* key in the pair iff it proposes in some slot of it.                      *)
(***************************************************************************)
EXTENDS Naturals

CONSTANTS
    SlotsPerEpoch,  \* --slots-per-epoch
    Validators,     \* validator indices, 0 (Go's zero value) among them
    MaxEpoch,       \* bound: the last epoch the head reaches
    MaxJump,        \* bound: slots the head moves at once
    MaxBack         \* bound: slots a reorg takes back

ASSUME SlotsAssumption == SlotsPerEpoch \in Nat \ {0}
ASSUME ValidatorsAssumption == 0 \in Validators /\ Validators \subseteq Nat
ASSUME BoundsAssumption == MaxEpoch \in Nat /\ MaxJump \in Nat /\ MaxBack \in Nat

Epoch(slot) == slot \div SlotsPerEpoch
SlotsOf(e) == e * SlotsPerEpoch .. e * SlotsPerEpoch + (SlotsPerEpoch - 1)
Epochs == 0..(MaxEpoch + 1)
Schedules(e) == [SlotsOf(e) -> Validators]
NoSchedule == [slot \in {} |-> 0]

VARIABLES
    head,       \* beacon node: slot of the canonical head
    chain,      \* beacon node: the schedule of each epoch
    pc,         \* runner: "select", or the call it is in: "poll", "next", "current"; "stopped"
    firstTime,  \* firsTime
    curEpoch, prevEpoch,
    next,       \* nextEpochSlotToProposerIndex, nextEpochProposerIndexToPubKey
    cur,        \* curEpochSlotToProposerIndex, curEpochProposerIndexToPubKey
    alarm,      \* the last checkCompatibility logged "Proposer public not matched!"
    smooth      \* history: no poll has missed an epoch or straddled a boundary

beaconVars == <<head, chain>>
vars == <<beaconVars, pc, firstTime, curEpoch, prevEpoch, next, cur, alarm, smooth>>

StoredSchedules == {NoSchedule} \cup UNION {Schedules(e) : e \in Epochs}

TypeOK ==
    /\ head \in 0..((MaxEpoch + 1) * SlotsPerEpoch - 1)
    /\ chain \in [Epochs -> StoredSchedules]
    /\ \A e \in Epochs : chain[e] \in Schedules(e)
    /\ pc \in {"select", "poll", "next", "current", "stopped"}
    /\ firstTime \in BOOLEAN
    /\ curEpoch \in 0..MaxEpoch /\ prevEpoch \in 0..MaxEpoch
    /\ next \in StoredSchedules /\ cur \in StoredSchedules
    /\ alarm \in BOOLEAN /\ smooth \in BOOLEAN

\* NewClient, before the first tick.
Init ==
    /\ head = 0
    /\ chain = [e \in Epochs |-> [slot \in SlotsOf(e) |-> 0]]
    /\ pc = "select" /\ firstTime = TRUE
    /\ curEpoch = 0 /\ prevEpoch = 0
    /\ next = NoSchedule /\ cur = NoSchedule
    /\ alarm = FALSE /\ smooth = TRUE

-----------------------------------------------------------------------------
(* The beacon node.                                                         *)

\* The head moves, forward or (a reorg) backward.
MoveHead ==
    /\ \E slot \in 0..((MaxEpoch + 1) * SlotsPerEpoch - 1) :
          /\ slot # head /\ slot <= head + MaxJump /\ slot + MaxBack >= head
          /\ head' = slot
    /\ UNCHANGED <<chain, pc, firstTime, curEpoch, prevEpoch, next, cur, alarm, smooth>>

\* The proposers of an epoch that has not begun are settled anew.
Reshuffle ==
    /\ \E s \in Schedules(Epoch(head) + 1) : chain' = [chain EXCEPT ![Epoch(head) + 1] = s]
    /\ UNCHANGED <<head, pc, firstTime, curEpoch, prevEpoch, next, cur, alarm, smooth>>

-----------------------------------------------------------------------------
(* The runner.                                                              *)

\* Mutant of NewEpoch: off by one.
NewEpochLate(e) == firstTime \/ e > prevEpoch + 1

NewEpoch(e) == firstTime \/ e >= prevEpoch + 1

\* A tick: runner calls CanonicalHeadSlot.
Tick ==
    /\ pc = "select"
    /\ pc' = "poll"
    /\ UNCHANGED <<beaconVars, firstTime, curEpoch, prevEpoch, next, cur, alarm, smooth>>

\* CanonicalHeadSlot fails: nothing is done until the next tick.
PollFail ==
    /\ pc = "poll"
    /\ pc' = "select"
    /\ UNCHANGED <<beaconVars, firstTime, curEpoch, prevEpoch, next, cur, alarm, smooth>>

\* CanonicalHeadSlot succeeds.  prevEpoch is set before anything is fetched.
Poll ==
    /\ pc = "poll"
    /\ curEpoch' = Epoch(head)
    /\ IF NewEpoch(Epoch(head))
       THEN /\ prevEpoch' = Epoch(head)
            /\ smooth' = (smooth /\ (firstTime \/ Epoch(head) = prevEpoch + 1))
            /\ pc' = "next"
       ELSE pc' = "select" /\ UNCHANGED <<prevEpoch, smooth>>
    /\ UNCHANGED <<beaconVars, firstTime, next, cur, alarm>>

\* Mutant of FetchNext: the new list replaces both pairs of maps.
FetchNextForBoth ==
    /\ pc = "next"
    /\ cur' = chain[Epoch(head) + 1]
    /\ next' = chain[Epoch(head) + 1]
    /\ smooth' = (smooth /\ Epoch(head) = curEpoch)
    /\ pc' = "current"
    /\ UNCHANGED <<beaconVars, firstTime, curEpoch, prevEpoch, alarm>>

\* NextEpochProposerList, whose answer is about the epoch after the head's, as of
\* now; what was next becomes current.
FetchNext ==
    /\ pc = "next"
    /\ cur' = next
    /\ next' = chain[Epoch(head) + 1]
    /\ smooth' = (smooth /\ Epoch(head) = curEpoch)
    /\ pc' = "current"
    /\ UNCHANGED <<beaconVars, firstTime, curEpoch, prevEpoch, alarm>>

\* A missing map entry reads as 0.
Lookup(m, slot) == IF slot \in DOMAIN m THEN m[slot] ELSE 0
HasKey(m, v) == \E slot \in DOMAIN m : m[slot] = v

\* Mutant of Mismatch: the stored and the new entry are compared the wrong way.
MismatchInverted(assignments, c, n) ==
    \E slot \in DOMAIN assignments :
        HasKey(n, Lookup(n, slot)) /\ Lookup(c, slot) = assignments[slot]

\* checkCompatibility(assignments), with c = the current and n = the next pair.
Mismatch(assignments, c, n) ==
    \E slot \in DOMAIN assignments :
        HasKey(n, Lookup(n, slot)) /\ Lookup(c, slot) # assignments[slot]

\* GetListValidatorAssignments(curEpoch); the first time it fills the current maps.
FetchCurrent ==
    /\ pc = "current"
    /\ firstTime' = FALSE
    /\ cur' = IF firstTime THEN chain[curEpoch] ELSE cur
    /\ alarm' = Mismatch(chain[curEpoch], cur', next)
    /\ pc' = "select"
    /\ UNCHANGED <<beaconVars, curEpoch, prevEpoch, next, smooth>>

\* Either call fails, after the retries of the gRPC client: runner returns.
FetchFail ==
    /\ pc \in {"next", "current"}
    /\ pc' = "stopped"
    /\ UNCHANGED <<beaconVars, firstTime, curEpoch, prevEpoch, next, cur, alarm, smooth>>

Runner == Tick \/ PollFail \/ Poll \/ FetchNext \/ FetchCurrent \/ FetchFail

-----------------------------------------------------------------------------
Next == MoveHead \/ Reshuffle \/ Runner

Spec == Init /\ [][Next]_vars

(* The ticker ticks. The beacon node need not move and need not answer.      *)
FairSpec == Spec /\ WF_vars(Tick)

-----------------------------------------------------------------------------
(* Properties.                                                              *)

Updated == pc \in {"select", "poll"} /\ ~firstTime

\* The rotation of the maps is right as long as every epoch is polled and the head
\* stays in its epoch between the poll and NextEpochProposerList: the stored pairs
\* are those of the last epoch handled and of its successor, whatever is
\* reshuffled and even while a reorg has taken the head back.
SmoothSchedules ==
    Updated /\ smooth => DOMAIN cur = SlotsOf(prevEpoch) /\ DOMAIN next = SlotsOf(prevEpoch + 1)

\* checkCompatibility tells a stored schedule from the beacon node's: in a smooth
\* round in which validator 0 proposes in the next epoch it logs iff they differ.
\* (It looks up the slots of the current epoch in the maps of the next one, finds
\* the zero value there and goes on only if index 0 has a key: in any other
\* smooth round it logs nothing at all.)
AlarmWhenStale ==
    [][pc = "current" /\ pc' = "select" /\ smooth /\ HasKey(next, 0) =>
          (alarm' <=> cur' # chain[curEpoch])]_vars

\* The beacon node is of use: polls succeed again and again, and the calls for
\* proposers return.
NodeAnswers == SF_vars(Poll) /\ WF_vars(FetchNext \/ FetchCurrent \/ FetchFail)

\* If the beacon node answers, an epoch the head settles in is handled, however many
\* epochs were jumped over or polls failed before, unless a fetch failed and stopped
\* the runner or a later epoch has been handled already. (main.go:130 only goes
\* forward: an epoch that a reorg takes the head back to is never asked for.)
EpochHandled ==
    NodeAnswers => \A e \in Epochs :
        <>[](Epoch(head) = e) =>
            <>[](pc = "stopped" \/ prevEpoch = e \/ (~firstTime /\ prevEpoch > Epoch(head)))
=============================================================================
