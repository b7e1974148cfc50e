------------------------ MODULE EpochExtractorProofs ------------------------
(***************************************************************************)
(* The rotation of the proposer maps, for any number of slots per epoch,    *)
(* any validators and any movement of the head.                             *)
(***************************************************************************)
EXTENDS EpochExtractor, TLAPS

-----------------------------------------------------------------------------
(* Slots and epochs.                                                        *)

\* A slot below the end of epoch m is in an epoch up to m.
LEMMA EpochInRange ==
  ASSUME NEW m \in Nat, NEW slot \in 0..((m + 1) * SlotsPerEpoch - 1)
  PROVE  Epoch(slot) \in 0..m
<1> DEFINE q == slot \div SlotsPerEpoch
<1>1. /\ q \in Nat
      /\ q * SlotsPerEpoch <= slot
  BY SlotsAssumption
<1>2. ASSUME q >= m + 1 PROVE FALSE
  <2>1. q * SlotsPerEpoch >= (m + 1) * SlotsPerEpoch
    BY <1>1, <1>2, SlotsAssumption
  <2>2. QED
    BY <1>1, <2>1, SlotsAssumption
<1>3. QED
  BY <1>1, <1>2 DEF Epoch

\* Consecutive epochs have no slot in common.
LEMMA EpochsDisjoint ==
  ASSUME NEW e \in Nat
  PROVE  SlotsOf(e) \cap SlotsOf(e + 1) = {}
<1>1. /\ e * SlotsPerEpoch \in Nat
      /\ (e + 1) * SlotsPerEpoch = e * SlotsPerEpoch + SlotsPerEpoch
  BY SlotsAssumption
<1>2. QED
  BY <1>1, SlotsAssumption DEF SlotsOf

\* The head's epoch is one the beacon node has a successor for.
LEMMA HeadEpoch == TypeOK => Epoch(head) \in 0..MaxEpoch /\ Epoch(head) + 1 \in Epochs
<1> SUFFICES ASSUME TypeOK PROVE Epoch(head) \in 0..MaxEpoch /\ Epoch(head) + 1 \in Epochs
  OBVIOUS
<1>1. MaxEpoch \in Nat /\ head \in 0..((MaxEpoch + 1) * SlotsPerEpoch - 1)
  BY BoundsAssumption DEF TypeOK
<1>2. Epoch(head) \in 0..MaxEpoch
  BY <1>1, EpochInRange
<1>3. QED
  BY <1>1, <1>2 DEF Epochs

-----------------------------------------------------------------------------
\* Init and every step of the beacon node and the runner are type correct.
LEMMA TypeInit == Init => TypeOK
<1> SUFFICES ASSUME Init PROVE TypeOK
  OBVIOUS
<1>1. \A e \in Epochs : chain[e] \in Schedules(e)
  BY ValidatorsAssumption DEF Init, Schedules
<1>2. chain \in [Epochs -> StoredSchedules]
  BY <1>1 DEF Init, StoredSchedules
<1>3. 0 \in 0..((MaxEpoch + 1) * SlotsPerEpoch - 1)
  BY SlotsAssumption, BoundsAssumption
<1>4. QED
  <2>1. NoSchedule \in StoredSchedules
    BY DEF StoredSchedules
  <2>2. 0 \in 0..MaxEpoch
    BY BoundsAssumption
  <2>3. QED
    BY <1>1, <1>2, <1>3, <2>1, <2>2 DEF Init, TypeOK

\* Every step of runner and of the beacon node keeps the types.
LEMMA TypeStep == TypeOK /\ [Next]_vars => TypeOK'
<1> SUFFICES ASSUME TypeOK, [Next]_vars PROVE TypeOK'
  OBVIOUS
<1> USE DEF TypeOK
<1>0. Epoch(head) \in 0..MaxEpoch /\ Epoch(head) + 1 \in Epochs
  BY HeadEpoch
<1>1. CASE MoveHead
  BY <1>1 DEF MoveHead
<1>2. CASE Reshuffle
  <2>1. PICK s \in Schedules(Epoch(head) + 1) : chain' = [chain EXCEPT ![Epoch(head) + 1] = s]
    BY <1>2 DEF Reshuffle
  <2>2. s \in StoredSchedules
    BY <1>0 DEF StoredSchedules
  <2>3. chain' \in [Epochs -> StoredSchedules]
    BY <2>1, <2>2
  <2>4. \A e \in Epochs : chain'[e] \in Schedules(e)
    BY <2>1
  <2>5. QED
    BY <1>2, <2>3, <2>4 DEF Reshuffle
<1>3. CASE Poll
  BY <1>0, <1>3 DEF Poll, beaconVars
<1>4. CASE FetchNext
  BY <1>0, <1>4 DEF FetchNext, beaconVars
<1>5. CASE FetchCurrent
  <2>1. curEpoch \in Epochs
    BY BoundsAssumption DEF Epochs
  <2>2. alarm' \in BOOLEAN
    BY <1>5 DEF FetchCurrent, Mismatch
  <2>3. QED
    BY <1>5, <2>1, <2>2 DEF FetchCurrent, beaconVars
<1>6. CASE FetchFail \/ Tick \/ PollFail
  BY <1>6 DEF FetchFail, Tick, PollFail, beaconVars
<1>7. CASE UNCHANGED vars
  BY <1>7 DEF vars, beaconVars
<1>8. QED
  BY <1>1, <1>2, <1>3, <1>4, <1>5, <1>6, <1>7 DEF Next, Runner

-----------------------------------------------------------------------------
\* What the maps hold at each point of a round, as long as the rounds are smooth.
\* In between the polled epoch is the one being handled; before FetchNext the
\* next maps are already those of that epoch, since it follows the last one.
Rotation ==
    /\ pc \in {"next", "current"} => curEpoch = prevEpoch
    /\ smooth =>
        /\ pc \in {"select", "poll"} /\ ~firstTime =>
              DOMAIN cur = SlotsOf(prevEpoch) /\ DOMAIN next = SlotsOf(prevEpoch + 1)
        /\ pc = "next" /\ ~firstTime => DOMAIN next = SlotsOf(prevEpoch)
        /\ pc = "current" => DOMAIN next = SlotsOf(prevEpoch + 1)
        /\ pc = "current" /\ ~firstTime => DOMAIN cur = SlotsOf(prevEpoch)

\* What keeps the stored schedules right.
RotationInv == TypeOK /\ Rotation

\* The beacon node's schedule of an epoch is about the slots of that epoch.
LEMMA ChainDomain == TypeOK => \A e \in Epochs : DOMAIN chain[e] = SlotsOf(e)
  BY DEF TypeOK, Schedules

\* Every step of a round turns the maps as Rotation says.
LEMMA RotationStep == RotationInv /\ [Next]_vars => RotationInv'
<1> SUFFICES ASSUME RotationInv, [Next]_vars PROVE Rotation'
  BY TypeStep DEF RotationInv
<1>0. /\ TypeOK
      /\ Epoch(head) \in 0..MaxEpoch /\ Epoch(head) + 1 \in Epochs
      /\ \A e \in Epochs : DOMAIN chain[e] = SlotsOf(e)
  BY HeadEpoch, ChainDomain DEF RotationInv
<1> USE DEF RotationInv, Rotation
<1>1. CASE MoveHead
  BY <1>1 DEF MoveHead
<1>2. CASE Reshuffle
  BY <1>2 DEF Reshuffle
<1>3. CASE Poll
  <2>1. CASE NewEpoch(Epoch(head))
    BY <1>0, <1>3, <2>1 DEF Poll, TypeOK
  <2>2. CASE ~NewEpoch(Epoch(head))
    BY <1>0, <1>3, <2>2 DEF Poll, TypeOK
  <2>3. QED
    BY <2>1, <2>2
<1>4. CASE FetchNext
  BY <1>0, <1>4 DEF FetchNext, TypeOK
<1>5. CASE FetchCurrent
  <2>1. curEpoch \in Epochs
    BY <1>0, BoundsAssumption DEF Epochs, TypeOK
  <2>2. QED
    BY <1>0, <1>5, <2>1 DEF FetchCurrent
<1>6. CASE FetchFail \/ Tick \/ PollFail
  BY <1>6 DEF FetchFail, Tick, PollFail
<1>7. CASE UNCHANGED vars
  BY <1>7 DEF vars
<1>8. QED
  BY <1>1, <1>2, <1>3, <1>4, <1>5, <1>6, <1>7 DEF Next, Runner

\* runner starts with no schedule, before its first round.
LEMMA RotationInit == Init => RotationInv
  BY TypeInit DEF Init, RotationInv, Rotation

\* After every round of a history without missed or straddled epochs the stored
\* maps are those of the epoch handled last and of its successor.
THEOREM SchedulesRight == Spec => []SmoothSchedules
<1>1. RotationInv => SmoothSchedules
  BY DEF RotationInv, Rotation, SmoothSchedules, Updated
<1>2. QED
  BY <1>1, RotationInit, RotationStep, PTL DEF Spec

-----------------------------------------------------------------------------
\* In the last step of a smooth round, in which validator 0 has a key in the next
\* maps, checkCompatibility compares every slot of the current epoch.
LEMMA AlarmStep ==
  ASSUME RotationInv, FetchCurrent, smooth, HasKey(next, 0)
  PROVE  alarm' <=> cur' # chain[curEpoch]
<1> DEFINE a == chain[curEpoch]
<1>1. /\ curEpoch \in Nat /\ curEpoch \in Epochs
      /\ a \in Schedules(curEpoch)
      /\ DOMAIN next = SlotsOf(curEpoch + 1)
  BY BoundsAssumption DEF RotationInv, Rotation, TypeOK, FetchCurrent, Epochs
<1>2. /\ cur' \in StoredSchedules
      /\ DOMAIN cur' = SlotsOf(curEpoch)
  <2>1. cur' = IF firstTime THEN a ELSE cur
    BY DEF FetchCurrent
  <2>2. a \in StoredSchedules
    BY <1>1 DEF StoredSchedules
  <2>3. DOMAIN a = SlotsOf(curEpoch)
    BY <1>1 DEF Schedules
  <2>4. ~firstTime => DOMAIN cur = SlotsOf(curEpoch)
    BY DEF RotationInv, Rotation, FetchCurrent
  <2>5. QED
    BY <2>1, <2>2, <2>3, <2>4 DEF RotationInv, TypeOK
<1>3. \A slot \in SlotsOf(curEpoch) : Lookup(next, slot) = 0
  BY <1>1, EpochsDisjoint DEF Lookup
<1>4. alarm' <=> \E slot \in SlotsOf(curEpoch) : cur'[slot] # a[slot]
  <2>1. alarm' = Mismatch(a, cur', next)
    BY DEF FetchCurrent
  <2>2. DOMAIN a = SlotsOf(curEpoch)
    BY <1>1 DEF Schedules
  <2>3. \A slot \in SlotsOf(curEpoch) : Lookup(cur', slot) = cur'[slot]
    BY <1>2 DEF Lookup
  <2>4. QED
    BY <1>3, <2>1, <2>2, <2>3 DEF Mismatch
<1>5. cur' \in [SlotsOf(curEpoch) -> Validators]
  <2>1. CASE cur' = NoSchedule
    BY <1>2, <2>1 DEF NoSchedule
  <2>2. CASE \E e \in Epochs : cur' \in Schedules(e)
    BY <1>2, <2>2 DEF Schedules
  <2>3. QED
    BY <1>2, <2>1, <2>2 DEF StoredSchedules
<1>6. cur' = a <=> \A slot \in SlotsOf(curEpoch) : cur'[slot] = a[slot]
  BY <1>1, <1>5 DEF Schedules
<1>7. QED
  BY <1>4, <1>6

\* checkCompatibility tells a stored schedule from a changed one in those rounds in
\* which it looks at anything at all.
THEOREM AlarmExact == Spec => AlarmWhenStale
<1> DEFINE Exact == pc = "current" /\ pc' = "select" /\ smooth /\ HasKey(next, 0) =>
                        (alarm' <=> cur' # chain[curEpoch])
<1>1. ASSUME RotationInv, [Next]_vars PROVE [Exact]_vars
  <2>1. CASE FetchCurrent
    BY <1>1, <2>1, AlarmStep
  <2>2. CASE ~FetchCurrent
    BY <1>1, <2>2 DEF Next, Runner, MoveHead, Reshuffle, Tick, PollFail, Poll,
                         FetchNext, FetchFail
  <2>3. QED
    BY <2>1, <2>2
<1>2. QED
  BY <1>1, RotationInit, RotationStep, PTL DEF Spec, AlarmWhenStale
=============================================================================
