---------------------------- MODULE BarrierProofs ----------------------------
(***************************************************************************)
(* Theorems about vmo_barrier: what its control steps guarantee for every  *)
(* number of lanes and barriers, any word size of the phase counter and    *)
(* any capacity of the device, and what its fences order, from the rules   *)
(* of the language alone.                                                  *)
(***************************************************************************)
EXTENDS BarrierFences, FiniteSetTheorems, TLAPS

\* The lanes of a launch are counted by a natural number.
LEMMA LaneCount == nlanes \in Nat \ {0}
<1>1. nlanes \in Nat
  BY LanesFinite, FS_CardinalityType DEF nlanes
<1>2. nlanes # 0
  BY LanesFinite, FS_EmptySet DEF nlanes
<1> QED BY <1>1, <1>2

\* Any set of waiting lanes is counted, by at most nlanes.
LEMMA WaitingCount ==
  ASSUME NEW S, S \subseteq Lanes
  PROVE  IsFiniteSet(S) /\ Cardinality(S) \in Nat /\ Cardinality(S) <= nlanes
         /\ (Cardinality(S) = nlanes => S = Lanes)
  BY LanesFinite, FS_Subset, FS_CardinalityType DEF nlanes

\* One more arrival adds one to the count of the lanes waiting.
LEMMA WaitingGrows ==
  ASSUME NEW S, S \subseteq Lanes, NEW l \in Lanes, l \notin S
  PROVE  Cardinality(S \cup {l}) = Cardinality(S) + 1
  BY WaitingCount, FS_AddElement

\* The phase word changes at every flip: with at least two values it cannot
\* step onto itself.
LEMMA FlipChangesPhase ==
  ASSUME NEW p \in 0 .. PhaseMod - 1
  PROVE  /\ (IF p = PhaseMod - 1 THEN 0 ELSE p + 1) \in 0 .. PhaseMod - 1
         /\ (IF p = PhaseMod - 1 THEN 0 ELSE p + 1) # p
  BY PhaseModTwo

\* The initial state satisfies the inductive invariant.
LEMMA InitIInv == Init => IInv
<1> SUFFICES ASSUME Init PROVE IInv
  OBVIOUS
<1>1. TypeOK
  BY NBarriersNat, PhaseModTwo DEF Init, TypeOK, PCs
<1>2. \A l \in Lanes : LaneInv(l)
  BY DEF Init, LaneInv
<1>3. LastInv
  BY DEF Init, LastInv
<1>4. CountInv
  <2>1. Waiting = {}
    BY DEF Init, Waiting
  <2>2. Cardinality(Waiting) = 0
    BY <2>1, FS_EmptySet
  <2> QED BY <2>2 DEF Init, CountInv
<1> QED BY <1>1, <1>2, <1>3, <1>4 DEF IInv

\* Every step keeps the types and each lane's place relative to the flips.
LEMMA StepTypeOK == IInv /\ [Next]_ctlVars => TypeOK'
<1> SUFFICES ASSUME IInv, [Next]_ctlVars PROVE TypeOK'
  OBVIOUS
<1> USE DEF TypeOK, PCs, Goto
<1>1. ASSUME NEW l \in Lanes, Admit(l) PROVE TypeOK'
  BY <1>1 DEF IInv, Admit
<1>2. ASSUME NEW l \in Lanes, Arrive(l) PROVE TypeOK'
  BY <1>2 DEF IInv, Arrive
<1>3. ASSUME NEW l \in Lanes, Load(l) PROVE TypeOK'
  BY <1>3 DEF IInv, Load
<1>4. ASSUME NEW l \in Lanes, Inc(l) PROVE TypeOK'
  BY <1>4 DEF IInv, Inc
<1>5. ASSUME NEW l \in Lanes, Reset(l) PROVE TypeOK'
  BY <1>5 DEF IInv, Reset
<1>6. ASSUME NEW l \in Lanes, Flip(l) PROVE TypeOK'
  BY <1>6, FlipChangesPhase DEF IInv, Flip
<1>7. ASSUME NEW l \in Lanes, Spin(l) PROVE TypeOK'
  BY <1>7 DEF IInv, Spin
<1>8. ASSUME NEW l \in Lanes, Leave(l) PROVE TypeOK'
  <2>1. barrier_i[l] < NBarriers
    BY <1>8 DEF IInv, Leave, LaneInv
  <2>2. barrier_i[l] + 1 \in 0 .. NBarriers
    BY <2>1, NBarriersNat DEF IInv
  <2> QED BY <1>8, <2>2 DEF IInv, Leave
<1>9. ASSUME NEW l \in Lanes, Finish(l) PROVE TypeOK'
  BY <1>9 DEF IInv, Finish
<1>10. CASE UNCHANGED ctlVars
  BY <1>10 DEF IInv, ctlVars
<1> QED
  BY <1>1, <1>2, <1>3, <1>4, <1>5, <1>6, <1>7, <1>8, <1>9, <1>10
  DEF Next, LaneStep, BarrierStep, Terminated

\* In a state with a lane in "reset" or "flip" nobody else moves.
LEMMA LastIsAlone ==
  ASSUME IInv, NEW l \in Lanes, pc[l] \in {"reset", "flip"},
         NEW m \in Lanes, pc[m] # "spin"
  PROVE  m = l
  BY DEF IInv, LastInv

LEMMA StepLaneInv == IInv /\ [Next]_ctlVars => \A k \in Lanes : LaneInv(k)'
<1> SUFFICES ASSUME IInv, [Next]_ctlVars, NEW k \in Lanes PROVE LaneInv(k)'
  OBVIOUS
<1> USE DEF TypeOK, Goto
<1>0. LaneInv(k)
  BY DEF IInv
<1>1. ASSUME NEW l \in Lanes, Admit(l) PROVE LaneInv(k)'
  BY <1>0, <1>1 DEF IInv, Admit, LaneInv
<1>2. ASSUME NEW l \in Lanes, Arrive(l) PROVE LaneInv(k)'
  BY <1>0, <1>2, NBarriersNat DEF IInv, Arrive, LaneInv
<1>3. ASSUME NEW l \in Lanes, Load(l) PROVE LaneInv(k)'
  BY <1>0, <1>3 DEF IInv, Load, LaneInv
<1>4. ASSUME NEW l \in Lanes, Inc(l) PROVE LaneInv(k)'
  BY <1>0, <1>4 DEF IInv, Inc, LaneInv
<1>5. ASSUME NEW l \in Lanes, Reset(l) PROVE LaneInv(k)'
  BY <1>0, <1>5 DEF IInv, Reset, LaneInv
<1>6. ASSUME NEW l \in Lanes, Flip(l) PROVE LaneInv(k)'
  <2>1. LaneInv(l) /\ pc[l] = "flip" /\ barrier_i[l] = round /\ barrier_i[l] < NBarriers
    BY <1>6 DEF IInv, Flip, LaneInv
  <2>2. k # l => pc[k] = "spin" /\ barrier_i[k] = round
    BY <1>6 DEF IInv, Flip, LastInv
  <2>3. phase' # phase
    BY <1>6, FlipChangesPhase DEF IInv, Flip
  <2>4. CASE k = l
    BY <1>6, <2>1, <2>4 DEF IInv, Flip, LaneInv
  <2>5. CASE k # l
    <3>1. myPhase[k] = phase
      BY <1>0, <2>2, <2>5 DEF LaneInv, IInv
    <3>2. pc'[k] = "spin" /\ barrier_i'[k] + 1 = round' /\ myPhase'[k] # phase'
      BY <1>6, <2>2, <2>3, <2>5, <3>1 DEF Flip, IInv
    <3> QED BY <1>0, <1>6, <2>2, <2>5, <3>2 DEF LaneInv, Flip, IInv
  <2> QED BY <2>4, <2>5
<1>7. ASSUME NEW l \in Lanes, Spin(l) PROVE LaneInv(k)'
  BY <1>0, <1>7 DEF IInv, Spin, LaneInv
<1>8. ASSUME NEW l \in Lanes, Leave(l) PROVE LaneInv(k)'
  BY <1>0, <1>8 DEF IInv, Leave, LaneInv
<1>9. ASSUME NEW l \in Lanes, Finish(l) PROVE LaneInv(k)'
  BY <1>0, <1>9 DEF IInv, Finish, LaneInv
<1>10. CASE UNCHANGED ctlVars
  BY <1>0, <1>10 DEF LaneInv, ctlVars
<1> QED
  BY <1>1, <1>2, <1>3, <1>4, <1>5, <1>6, <1>7, <1>8, <1>9, <1>10
  DEF Next, LaneStep, BarrierStep, Terminated

\* While the last arrival resets and flips, no spinning lane can see a change.
LEMMA NoSpinDuringReset ==
  ASSUME IInv, NEW l \in Lanes, pc[l] \in {"reset", "flip"}, NEW m \in Lanes
  PROVE  ~Spin(m)
<1>1. CASE m = l
  BY <1>1 DEF Spin, Goto
<1>2. CASE m # l
  <2>1. pc[m] = "spin" /\ barrier_i[m] = round
    BY <1>2 DEF IInv, LastInv
  <2>2. round \in Nat
    BY DEF IInv, TypeOK
  <2>3. myPhase[m] = phase
    BY <2>1, <2>2 DEF IInv, LaneInv
  <2> QED BY <2>3 DEF Spin
<1> QED BY <1>1, <1>2

\* The arrival that finds nlanes - 1 others completes the set of all lanes.
LEMMA LastArrivalIsLast ==
  ASSUME IInv, NEW l \in Lanes, Inc(l), arrivals = nlanes - 1
  PROVE  \A m \in Lanes \ {l} : pc[m] = "spin" /\ barrier_i[m] = round
<1>1. pc[l] = "inc"
  BY DEF Inc, Goto
<1>2. \A m \in Lanes : pc[m] \notin {"reset", "flip"}
  BY <1>1, LastIsAlone
<1>3. Waiting \subseteq Lanes /\ l \notin Waiting
  BY <1>1 DEF Waiting
<1>4. Cardinality(Waiting) = nlanes - 1
  BY <1>2 DEF IInv, CountInv
<1>5. Cardinality(Waiting \cup {l}) = nlanes
  BY <1>3, <1>4, WaitingGrows, LaneCount
<1>6. Waiting \cup {l} = Lanes
  BY <1>3, <1>5, WaitingCount
<1> QED BY <1>2, <1>6 DEF Waiting

LEMMA StepLastInv == IInv /\ [Next]_ctlVars => LastInv'
<1> SUFFICES ASSUME IInv, [Next]_ctlVars,
                    NEW k \in Lanes, pc'[k] \in {"reset", "flip"},
                    NEW m \in Lanes \ {k}
             PROVE  pc'[m] = "spin" /\ barrier_i'[m] = round'
  BY DEF LastInv
<1> USE DEF TypeOK, Goto
<1>0. pc[k] \in {"reset", "flip"} =>
        /\ pc[m] = "spin" /\ barrier_i[m] = round
        /\ \A l \in Lanes : pc[l] # "spin" => l = k
  BY LastIsAlone DEF IInv, LastInv
<1>1. ASSUME NEW l \in Lanes, Admit(l) PROVE pc'[m] = "spin" /\ barrier_i'[m] = round'
  BY <1>0, <1>1 DEF IInv, Admit
<1>2. ASSUME NEW l \in Lanes, Arrive(l) PROVE pc'[m] = "spin" /\ barrier_i'[m] = round'
  BY <1>0, <1>2 DEF IInv, Arrive
<1>3. ASSUME NEW l \in Lanes, Load(l) PROVE pc'[m] = "spin" /\ barrier_i'[m] = round'
  BY <1>0, <1>3 DEF IInv, Load
<1>4. ASSUME NEW l \in Lanes, Inc(l) PROVE pc'[m] = "spin" /\ barrier_i'[m] = round'
  <2>1. pc[l] = "inc" /\ UNCHANGED <<barrier_i, round>>
    BY <1>4 DEF Inc
  <2>2. l = k /\ arrivals = nlanes - 1
    BY <1>0, <1>4, <2>1 DEF Inc, IInv
  <2>3. pc[m] = "spin" /\ barrier_i[m] = round
    BY <1>4, <2>2, LastArrivalIsLast
  <2> QED BY <1>4, <2>1, <2>2, <2>3 DEF Inc, IInv
<1>5. ASSUME NEW l \in Lanes, Reset(l) PROVE pc'[m] = "spin" /\ barrier_i'[m] = round'
  BY <1>0, <1>5 DEF IInv, Reset
<1>6. ASSUME NEW l \in Lanes, Flip(l) PROVE pc'[m] = "spin" /\ barrier_i'[m] = round'
  BY <1>0, <1>6 DEF IInv, Flip
<1>7. ASSUME NEW l \in Lanes, Spin(l) PROVE pc'[m] = "spin" /\ barrier_i'[m] = round'
  <2>1. pc[k] \in {"reset", "flip"}
    BY <1>7 DEF Spin, IInv
  <2> QED BY <1>7, <2>1, NoSpinDuringReset
<1>8. ASSUME NEW l \in Lanes, Leave(l) PROVE pc'[m] = "spin" /\ barrier_i'[m] = round'
  BY <1>0, <1>8 DEF IInv, Leave
<1>9. ASSUME NEW l \in Lanes, Finish(l) PROVE pc'[m] = "spin" /\ barrier_i'[m] = round'
  BY <1>0, <1>9 DEF IInv, Finish
<1>10. CASE UNCHANGED ctlVars
  BY <1>0, <1>10 DEF ctlVars
<1> QED
  BY <1>1, <1>2, <1>3, <1>4, <1>5, <1>6, <1>7, <1>8, <1>9, <1>10
  DEF Next, LaneStep, BarrierStep, Terminated

\* A step that moves no lane into or out of "spin", "reset" and "flip" and
\* touches neither bar[0] nor the flips leaves the count as it is.
LEMMA CountUntouched ==
  ASSUME IInv, UNCHANGED <<arrivals, round>>, NEW l \in Lanes,
         \A m \in Lanes \ {l} : pc'[m] = pc[m] /\ barrier_i'[m] = barrier_i[m],
         pc[l]  \notin {"reset", "flip"}, pc'[l] \notin {"spin", "reset", "flip"},
         pc[l] = "spin" => barrier_i[l] # round
  PROVE  CountInv'
<1>1. Waiting' = Waiting
  BY DEF Waiting
<1>2. (\E m \in Lanes : pc[m] = "flip")' <=> \E m \in Lanes : pc[m] = "flip"
  OBVIOUS
<1> QED BY <1>1, <1>2 DEF IInv, CountInv

LEMMA StepCountInv == IInv /\ [Next]_ctlVars => CountInv'
<1> SUFFICES ASSUME IInv, [Next]_ctlVars PROVE CountInv'
  OBVIOUS
<1> USE DEF TypeOK, Goto
<1>1. ASSUME NEW l \in Lanes, Admit(l) PROVE CountInv'
  BY <1>1, CountUntouched DEF IInv, Admit
<1>2. ASSUME NEW l \in Lanes, Arrive(l) PROVE CountInv'
  BY <1>2, CountUntouched DEF IInv, Arrive
<1>3. ASSUME NEW l \in Lanes, Load(l) PROVE CountInv'
  BY <1>3, CountUntouched DEF IInv, Load
<1>4. ASSUME NEW l \in Lanes, Inc(l) PROVE CountInv'
  <2>1. pc[l] = "inc" /\ barrier_i[l] = round
    BY <1>4 DEF Inc, IInv, LaneInv
  <2>2. \A m \in Lanes : pc[m] # "flip" /\ pc'[m] # "flip"
    BY <1>4, <2>1, LastIsAlone DEF Inc, IInv
  <2>3. Waiting' = Waiting \cup {l} /\ l \notin Waiting
    BY <1>4, <2>1 DEF Waiting, Inc, IInv
  <2>4. Cardinality(Waiting') = Cardinality(Waiting) + 1
    BY <2>3, WaitingGrows DEF Waiting
  <2> QED BY <1>4, <2>2, <2>4 DEF CountInv, Inc, IInv
<1>5. ASSUME NEW l \in Lanes, Reset(l) PROVE CountInv'
  <2>1. arrivals' = 0 /\ pc'[l] = "flip"
    BY <1>5 DEF Reset, IInv
  <2> QED BY <2>1 DEF CountInv
<1>6. ASSUME NEW l \in Lanes, Flip(l) PROVE CountInv'
  <2>1. \A m \in Lanes : barrier_i[m] = round
    BY <1>6 DEF Flip, IInv, LastInv, LaneInv
  <2>2. Waiting' = {}
    BY <1>6, <2>1 DEF Waiting, Flip, IInv
  <2>3. arrivals = 0
    BY <1>6 DEF IInv, CountInv, Flip
  <2> QED BY <1>6, <2>2, <2>3, FS_EmptySet DEF CountInv, Flip
<1>7. ASSUME NEW l \in Lanes, Spin(l) PROVE CountInv'
  <2>1. barrier_i[l] # round
    BY <1>7 DEF Spin, IInv, LaneInv
  <2> QED BY <1>7, <2>1, CountUntouched DEF IInv, Spin
<1>8. ASSUME NEW l \in Lanes, Leave(l) PROVE CountInv'
  BY <1>8, CountUntouched DEF IInv, Leave
<1>9. ASSUME NEW l \in Lanes, Finish(l) PROVE CountInv'
  BY <1>9, CountUntouched DEF IInv, Finish
<1>10. CASE UNCHANGED ctlVars
  <2>1. Waiting' = Waiting
    BY <1>10 DEF Waiting, ctlVars
  <2> QED BY <1>10, <2>1 DEF IInv, CountInv, ctlVars
<1> QED
  BY <1>1, <1>2, <1>3, <1>4, <1>5, <1>6, <1>7, <1>8, <1>9, <1>10
  DEF Next, LaneStep, BarrierStep, Terminated

LEMMA StepIInv == IInv /\ [Next]_ctlVars => IInv'
  BY StepTypeOK, StepLaneInv, StepLastInv, StepCountInv DEF IInv

\* The inductive invariant holds in every reachable state.
THEOREM Inductive == Spec => []IInv
  BY InitIInv, StepIInv, PTL DEF Spec

\* The barrier words and every leader's registers keep their types: bar[1]
\* stays a PhaseMod-valued word and no lane passes more barriers than its
\* stream holds.
THEOREM TypeCorrect == Spec => []TypeOK
<1>1. IInv => TypeOK
  BY DEF IInv
<1> QED BY <1>1, Inductive, PTL

\* vmo_barrier's contract for every number of lanes, barriers, phase word and
\* device: nobody passes a barrier some lane has not arrived at.
THEOREM BarrierSafety == Spec => []NoLaneAhead
<1>1. IInv => NoLaneAhead
  <2> SUFFICES ASSUME IInv, NEW l \in Lanes, NEW m \in Lanes
               PROVE  barrier_i[l] <= barrier_i[m] + (IF HasArrived(m) THEN 1 ELSE 0)
    BY DEF NoLaneAhead
  <2> USE DEF TypeOK, PCs, HasArrived
  <2>1. barrier_i[l] <= round
    BY DEF IInv, LaneInv
  <2>2. round <= barrier_i[m] + (IF HasArrived(m) THEN 1 ELSE 0)
    BY DEF IInv, LaneInv
  <2>3. /\ barrier_i[l] \in Nat /\ round \in Nat
        /\ barrier_i[m] + (IF HasArrived(m) THEN 1 ELSE 0) \in Nat
    BY NBarriersNat DEF IInv
  <2> QED BY <2>1, <2>2, <2>3
<1> QED BY <1>1, Inductive, PTL

\* The last arrival's plain store to bar[0] never destroys an arrival at the
\* next barrier: when it is made every other lane spins on this one.
THEOREM ResetSafety == Spec => []ResetLosesNoArrival
<1>1. IInv => ResetLosesNoArrival
  <2> SUFFICES ASSUME IInv, NEW l \in Lanes, pc[l] = "reset"
               PROVE  /\ arrivals = nlanes
                      /\ \A m \in Lanes \ {l} :
                           pc[m] = "spin" /\ barrier_i[m] = barrier_i[l]
    BY DEF ResetLosesNoArrival
  <2>1. barrier_i[l] = round
    BY DEF IInv, LaneInv
  <2>2. \A m \in Lanes \ {l} : pc[m] = "spin" /\ barrier_i[m] = round
    BY DEF IInv, LastInv
  <2>3. Waiting = Lanes
    BY <2>1, <2>2 DEF Waiting
  <2>4. \A m \in Lanes : pc[m] # "flip"
    BY <2>2
  <2> QED BY <2>1, <2>2, <2>3, <2>4 DEF IInv, CountInv, nlanes
<1> QED BY <1>1, Inductive, PTL

\* No lane sleeps through its wake-up: whoever still spins on an old phase
\* sees a different word, although the word wraps around.
THEOREM WakeupSafety == Spec => []NoLostWakeup
<1>1. IInv => NoLostWakeup
  BY DEF IInv, TypeOK, LaneInv, NoLostWakeup
<1> QED BY <1>1, Inductive, PTL

\* The steps of the spin barrier are steps of the abstract barrier: Inc
\* arrives, Leave passes, everything else is invisible.
LEMMA StepSimulates == IInv /\ [Next]_ctlVars => [PB!Next]_(PB!vars)
<1> SUFFICES ASSUME IInv, [Next]_ctlVars PROVE [PB!Next]_(PB!vars)
  OBVIOUS
<1> USE DEF TypeOK, Goto, HasArrived
<1>1. ASSUME NEW l \in Lanes,
             pc[l] \in {"spin", "reset", "flip", "leave"}
               <=> pc'[l] \in {"spin", "reset", "flip", "leave"},
             \A m \in Lanes \ {l} : pc'[m] = pc[m],
             UNCHANGED barrier_i
      PROVE  UNCHANGED PB!vars
  BY <1>1 DEF PB!vars, arrived
<1>2. ASSUME NEW l \in Lanes, Inc(l) PROVE PB!Arrive(l)
  <2>1. barrier_i[l] < NBarriers /\ pc[l] = "inc"
    BY <1>2 DEF Inc, IInv, LaneInv
  <2>2. arrived[l] = barrier_i[l]
    BY <2>1, NBarriersNat DEF arrived, IInv
  <2>3. arrived' = [arrived EXCEPT ![l] = @ + 1]
    BY <1>2, <2>1, <2>2, NBarriersNat DEF arrived, Inc, IInv
  <2> QED BY <1>2, <2>1, <2>2, <2>3 DEF PB!Arrive, Inc
<1>3. ASSUME NEW l \in Lanes, Leave(l) PROVE PB!Pass(l)
  <2>1. pc[l] = "leave" /\ barrier_i[l] + 1 = round
    BY <1>3 DEF Leave, IInv, LaneInv
  <2>2. arrived[l] = round /\ barrier_i[l] < arrived[l]
    BY <2>1, NBarriersNat DEF arrived, IInv
  <2>3. ASSUME NEW m \in Lanes PROVE arrived[m] >= round
    BY NBarriersNat DEF arrived, IInv, LaneInv, PCs
  <2>4. arrived' = arrived
    BY <1>3, <2>1, NBarriersNat DEF arrived, Leave, IInv
  <2> QED BY <1>3, <2>2, <2>3, <2>4 DEF PB!Pass, Leave
<1>4. ASSUME NEW l \in Lanes, Admit(l) PROVE UNCHANGED PB!vars
  BY <1>1, <1>4 DEF Admit, IInv
<1>5. ASSUME NEW l \in Lanes, Arrive(l) \/ Load(l) \/ Finish(l) PROVE UNCHANGED PB!vars
  BY <1>1, <1>5 DEF Arrive, Load, Finish, IInv
<1>6. ASSUME NEW l \in Lanes, Reset(l) \/ Flip(l) \/ Spin(l) PROVE UNCHANGED PB!vars
  BY <1>1, <1>6 DEF Reset, Flip, Spin, IInv
<1>7. CASE UNCHANGED ctlVars
  BY <1>7 DEF ctlVars, PB!vars, arrived
<1> QED
  BY <1>2, <1>3, <1>4, <1>5, <1>6, <1>7
  DEF Next, LaneStep, BarrierStep, Terminated, PB!Next

\* vmo_barrier implements the abstract phase barrier.
THEOREM Refinement == Spec => RefinesPhaseBarrier
<1>1. Init => PB!Init
  BY DEF Init, PB!Init, arrived, HasArrived
<1> QED
  BY <1>1, StepSimulates, Inductive, PTL DEF Spec, RefinesPhaseBarrier, PB!Spec
------------------------------------------------------------------------------
(* The fences *)

\* A joined view knows what either did, and no more.
LEMMA JoinView ==
  ASSUME NEW v \in View, NEW w \in View
  PROVE  /\ Join(v, w) \in View
         /\ \A m \in Lanes : Join(v, w)[m] >= v[m] /\ Join(v, w)[m] >= w[m]
         /\ \A m \in Lanes : Join(v, w)[m] = v[m] \/ Join(v, w)[m] = w[m]
  BY DEF Join, View

LEMMA JoinWithin ==
  ASSUME NEW v \in View, NEW w \in View, Within(v), Within(w)
  PROVE  Within(Join(v, w))
  BY JoinView DEF Within

\* The fences only add to the control steps.
LEMMA ControlStep == [FNext]_vars => [Next]_ctlVars
  BY DEF FNext, FArrive, FLoad, FInc, FReset, FFlip, FSpin, FLeave, Next,
         LaneStep, BarrierStep, vars

\* What a lane has released is never taken back: the return from a barrier
\* counts the phase that the release fence had published.
LEMMA ReleasedGrows ==
  ASSUME IInv, [Next]_ctlVars, NEW m \in Lanes
  PROVE  Released(m) \in Nat /\ Released(m)' \in Nat /\ Released(m)' >= Released(m)
<1> USE DEF TypeOK, PCs, Goto, Released, InBarrier
<1>0. barrier_i[m] \in Nat /\ pc[m] \in PCs
  BY NBarriersNat DEF IInv
<1>1. ASSUME NEW l \in Lanes, Admit(l) PROVE Released(m)' >= Released(m) /\ Released(m)' \in Nat
  BY <1>0, <1>1 DEF IInv, Admit
<1>2. ASSUME NEW l \in Lanes, Arrive(l) PROVE Released(m)' >= Released(m) /\ Released(m)' \in Nat
  BY <1>0, <1>2 DEF IInv, Arrive
<1>3. ASSUME NEW l \in Lanes, Load(l) PROVE Released(m)' >= Released(m) /\ Released(m)' \in Nat
  BY <1>0, <1>3 DEF IInv, Load
<1>4. ASSUME NEW l \in Lanes, Inc(l) PROVE Released(m)' >= Released(m) /\ Released(m)' \in Nat
  BY <1>0, <1>4 DEF IInv, Inc
<1>5. ASSUME NEW l \in Lanes, Reset(l) PROVE Released(m)' >= Released(m) /\ Released(m)' \in Nat
  BY <1>0, <1>5 DEF IInv, Reset
<1>6. ASSUME NEW l \in Lanes, Flip(l) PROVE Released(m)' >= Released(m) /\ Released(m)' \in Nat
  BY <1>0, <1>6 DEF IInv, Flip
<1>7. ASSUME NEW l \in Lanes, Spin(l) PROVE Released(m)' >= Released(m) /\ Released(m)' \in Nat
  BY <1>0, <1>7 DEF IInv, Spin
<1>8. ASSUME NEW l \in Lanes, Leave(l) PROVE Released(m)' >= Released(m) /\ Released(m)' \in Nat
  BY <1>0, <1>8 DEF IInv, Leave
<1>9. ASSUME NEW l \in Lanes, Finish(l) PROVE Released(m)' >= Released(m) /\ Released(m)' \in Nat
  BY <1>0, <1>9 DEF IInv, Finish
<1>10. CASE UNCHANGED ctlVars
  BY <1>0, <1>10 DEF ctlVars
<1>11. Released(m) \in Nat
  BY <1>0
<1> QED
  BY <1>1, <1>2, <1>3, <1>4, <1>5, <1>6, <1>7, <1>8, <1>9, <1>10, <1>11
  DEF Next, LaneStep, BarrierStep, Terminated

\* What the release fence leaves in the lane's views.
LEMMA DoneView ==
  ASSUME ViewsOK, IInv, NEW l \in Lanes,
         NEW d, d = [cur[l] EXCEPT ![l] = barrier_i[l] + 1]
  PROVE  /\ d \in View /\ d[l] = barrier_i[l] + 1
         /\ \A m \in Lanes \ {l} : d[m] = cur[l][m]
<1>1. cur[l] \in View /\ barrier_i[l] + 1 \in Nat
  BY NBarriersNat DEF ViewsOK, IInv, TypeOK
<1> QED BY <1>1 DEF View

LEMMA InitFIInv == FInit => FIInv
  BY NBarriersNat
  DEF FInit, Init, FIInv, ViewsOK, ViewsWithin, Within, Released, InBarrier,
      OwnReleased, CounterCarries, LastHeard, Coherent, Nothing, View, Waiting

LEMMA StepViewsOK ==
  ASSUME IInv, FIInv, [FNext]_vars
  PROVE  ViewsOK'
<1> USE DEF ViewsOK
<1>0. ViewsOK
  BY DEF FIInv
<1>1. ASSUME NEW l \in Lanes, FArrive(l) PROVE ViewsOK'
  <2> DEFINE done == [cur[l] EXCEPT ![l] = barrier_i[l] + 1]
  <2>1. done \in View
    BY <1>0, DoneView
  <2>2. Join(acq[l], done) \in View
    BY <1>0, <2>1, JoinView
  <2> QED BY <1>0, <1>1, <2>1, <2>2 DEF FArrive, ReleaseFence
<1>2. ASSUME NEW l \in Lanes, NEW i \in {0, 1}, RelaxedLoad(l, i) PROVE ViewsOK'
  <2>1. Join(acq[l], msg[i]) \in View
    BY <1>0, JoinView
  <2> QED BY <1>0, <1>2, <2>1 DEF RelaxedLoad
<1>3. ASSUME NEW l \in Lanes, NEW i \in {0, 1}, RelaxedInc(l, i) PROVE ViewsOK'
  <2>1. Join(acq[l], msg[i]) \in View /\ Join(msg[i], rel[l]) \in View
    BY <1>0, JoinView
  <2> QED BY <1>0, <1>3, <2>1 DEF RelaxedInc
<1>4. ASSUME PlainStore(0) PROVE ViewsOK'
  BY <1>0, <1>4 DEF PlainStore, Nothing, View
<1>5. ASSUME NEW l \in Lanes, AcquireFence(l) PROVE ViewsOK'
  <2>1. Join(cur[l], acq[l]) \in View
    BY <1>0, JoinView
  <2> QED BY <1>0, <1>5, <2>1 DEF AcquireFence
<1>6. CASE UNCHANGED viewVars
  BY <1>0, <1>6 DEF viewVars
<1> QED
  BY <1>1, <1>2, <1>3, <1>4, <1>5, <1>6
  DEF FNext, FLoad, FInc, FReset, FFlip, FSpin, FLeave, vars
\* Released stores stay within their bound: the bound only grows, and a lane
\* tells what it knows.
LEMMA StepViewsWithin ==
  ASSUME IInv, FIInv, [FNext]_vars
  PROVE  ViewsWithin'
<1>0. [Next]_ctlVars /\ ViewsOK /\ ViewsWithin
  BY ControlStep DEF FIInv
<1>1. ASSUME NEW v \in View, Within(v) PROVE \A m \in Lanes : v[m] <= Released(m)'
  BY <1>0, <1>1, ReleasedGrows DEF Within, View
<1> DEFINE Kept(v) == \A m \in Lanes : v[m] <= Released(m)'
<1> DEFINE Held ==
      /\ \A l \in Lanes : Kept(cur[l]) /\ Kept(acq[l]) /\ Kept(rel[l])
      /\ \A i \in {0, 1} : Kept(msg[i])
<1>2. Held
  BY <1>0, <1>1 DEF ViewsOK, ViewsWithin
<1>3. ASSUME NEW l \in Lanes, FArrive(l) PROVE ViewsWithin'
  <2> DEFINE done == [cur[l] EXCEPT ![l] = barrier_i[l] + 1]
  <2>1. Released(l)' = barrier_i[l] + 1
    BY <1>3 DEF FArrive, Arrive, Goto, Released, InBarrier, IInv, TypeOK
  <2>2. barrier_i[l] + 1 <= Released(l)'
    BY <2>1, NBarriersNat DEF IInv, TypeOK
  <2>3. done \in View /\ Kept(done)
    BY <1>0, <1>2, <2>2, DoneView
  <2> HIDE DEF done
  <2>4. Kept(Join(acq[l], done))
    <3>1. acq[l] \in View /\ Kept(acq[l])
      BY <1>0, <1>2 DEF ViewsOK
    <3>2. \A m \in Lanes : Join(acq[l], done)[m] = acq[l][m] \/ Join(acq[l], done)[m] = done[m]
      BY <2>3, <3>1, JoinView
    <3> QED BY <2>3, <3>1, <3>2
  <2> USE DEF done
  <2> QED BY <1>0, <1>2, <1>3, <2>3, <2>4 DEF FArrive, ReleaseFence, ViewsWithin, Within, ViewsOK
<1>4. ASSUME NEW l \in Lanes, NEW i \in {0, 1}, RelaxedLoad(l, i) PROVE ViewsWithin'
  <2>1. Kept(Join(acq[l], msg[i]))
    BY <1>0, <1>2, JoinView DEF ViewsOK
  <2> QED BY <1>0, <1>2, <1>4, <2>1 DEF RelaxedLoad, ViewsWithin, Within, ViewsOK
<1>5. ASSUME NEW l \in Lanes, NEW i \in {0, 1}, RelaxedInc(l, i) PROVE ViewsWithin'
  <2>1. Kept(Join(acq[l], msg[i])) /\ Kept(Join(msg[i], rel[l]))
    BY <1>0, <1>2, JoinView DEF ViewsOK
  <2> QED BY <1>0, <1>2, <1>5, <2>1 DEF RelaxedInc, ViewsWithin, Within, ViewsOK
<1>6. ASSUME PlainStore(0) PROVE ViewsWithin'
  <2>1. \A m \in Lanes : 0 <= Released(m)'
    BY <1>0, ReleasedGrows
  <2> QED BY <1>0, <1>2, <1>6, <2>1 DEF PlainStore, Nothing, ViewsWithin, Within, ViewsOK
<1>7. ASSUME NEW l \in Lanes, AcquireFence(l) PROVE ViewsWithin'
  <2>1. Kept(Join(cur[l], acq[l]))
    BY <1>0, <1>2, JoinView DEF ViewsOK
  <2> QED BY <1>0, <1>2, <1>7, <2>1 DEF AcquireFence, ViewsWithin, Within, ViewsOK
<1>8. CASE UNCHANGED viewVars
  BY <1>2, <1>8 DEF viewVars, ViewsWithin, Within
<1> QED
  BY <1>3, <1>4, <1>5, <1>6, <1>7, <1>8
  DEF FNext, FLoad, FInc, FReset, FFlip, FSpin, FLeave, vars

\* A lane's own phase enters its views at the release fence and stays there.
LEMMA StepOwnReleased ==
  ASSUME IInv, FIInv, [FNext]_vars
  PROVE  OwnReleased'
<1> SUFFICES ASSUME NEW k \in Lanes, InBarrier(k)'
             PROVE  rel'[k][k] >= barrier_i'[k] + 1 /\ acq'[k][k] >= barrier_i'[k] + 1
  BY DEF OwnReleased
<1> DEFINE Own == rel'[k][k] >= barrier_i'[k] + 1 /\ acq'[k][k] >= barrier_i'[k] + 1
<1> USE DEF Goto, InBarrier
<1>0. /\ ViewsOK /\ TypeOK /\ barrier_i[k] + 1 \in Nat
      /\ acq[k] \in View /\ rel[k] \in View /\ acq[k][k] \in Nat /\ rel[k][k] \in Nat
      /\ InBarrier(k) => rel[k][k] >= barrier_i[k] + 1 /\ acq[k][k] >= barrier_i[k] + 1
  BY NBarriersNat DEF FIInv, IInv, TypeOK, ViewsOK, View, OwnReleased
<1>1. ASSUME NEW l \in Lanes, FArrive(l) PROVE Own
  <2>1. CASE l = k
    <3> DEFINE done == [cur[k] EXCEPT ![k] = barrier_i[k] + 1]
    <3>1. done \in View /\ done[k] = barrier_i[k] + 1
      BY <1>0, DoneView
    <3>2. rel'[k] = done /\ acq'[k] = Join(acq[k], done) /\ barrier_i' = barrier_i
      BY <1>0, <1>1, <2>1 DEF FArrive, Arrive, ReleaseFence, ViewsOK
    <3> HIDE DEF done
    <3>3. Join(acq[k], done)[k] >= done[k]
      BY <1>0, <3>1, JoinView
    <3> QED BY <1>0, <3>1, <3>2, <3>3
  <2>2. CASE l # k
    BY <1>0, <1>1, <2>2 DEF FArrive, Arrive, ReleaseFence, ViewsOK, TypeOK
  <2> QED BY <2>1, <2>2
<1>2. ASSUME InBarrier(k), rel' = rel, barrier_i'[k] = barrier_i[k], acq'[k][k] \in Nat,
             acq'[k][k] >= acq[k][k]
      PROVE  Own
  BY <1>0, <1>2
<1>3. ASSUME NEW l \in Lanes, NEW i \in {0, 1}, RelaxedLoad(l, i) \/ RelaxedInc(l, i)
      PROVE  rel' = rel /\ acq'[k][k] \in Nat /\ acq'[k][k] >= acq[k][k]
  <2>1. /\ Join(acq[l], msg[i]) \in View
        /\ \A m \in Lanes : Join(acq[l], msg[i])[m] >= acq[l][m]
    BY <1>0, JoinView DEF ViewsOK
  <2>2. acq'[k] = IF l = k THEN Join(acq[l], msg[i]) ELSE acq[k]
    BY <1>0, <1>3 DEF RelaxedLoad, RelaxedInc, ViewsOK
  <2> QED BY <1>0, <1>3, <2>1, <2>2 DEF RelaxedLoad, RelaxedInc, View
<1>4. ASSUME NEW l \in Lanes, FLoad(l) PROVE Own
  BY <1>0, <1>2, <1>3, <1>4 DEF FLoad, Load, TypeOK
<1>5. ASSUME NEW l \in Lanes, FInc(l) PROVE Own
  BY <1>0, <1>2, <1>3, <1>5 DEF FInc, Inc, TypeOK
<1>6. ASSUME NEW l \in Lanes, FReset(l) PROVE Own
  BY <1>0, <1>2, <1>6 DEF FReset, Reset, PlainStore, TypeOK
<1>7. ASSUME NEW l \in Lanes, FFlip(l) PROVE Own
  BY <1>0, <1>2, <1>3, <1>7 DEF FFlip, Flip, TypeOK
<1>8. ASSUME NEW l \in Lanes, FSpin(l) PROVE Own
  BY <1>0, <1>2, <1>3, <1>8 DEF FSpin, Spin, TypeOK
<1>9. ASSUME NEW l \in Lanes, FLeave(l) PROVE Own
  BY <1>0, <1>2, <1>9 DEF FLeave, Leave, AcquireFence, TypeOK
<1>10. ASSUME NEW l \in Lanes, Admit(l) \/ Finish(l), UNCHANGED viewVars PROVE Own
  BY <1>0, <1>2, <1>10 DEF Admit, Finish, viewVars, TypeOK
<1>11. CASE UNCHANGED ctlVars /\ UNCHANGED viewVars
  BY <1>0, <1>11 DEF ctlVars, viewVars
<1> QED
  BY <1>1, <1>4, <1>5, <1>6, <1>7, <1>8, <1>9, <1>10, <1>11
  DEF FNext, Terminated, vars

\* An arrival adds itself to what the counter carries; nothing else is counted
\* before the counter is reset.
LEMMA StepCounterCarries ==
  ASSUME IInv, FIInv, [FNext]_vars
  PROVE  CounterCarries'
<1> SUFFICES ASSUME \A l \in Lanes : pc'[l] # "flip", NEW m \in Lanes,
                    pc'[m] \in {"spin", "reset"}, barrier_i'[m] = round'
             PROVE  msg'[0][m] >= round' + 1
  BY DEF CounterCarries, Waiting
<1> USE DEF Goto
<1>0. /\ ViewsOK /\ TypeOK /\ LaneInv(m) /\ round \in Nat /\ msg[0] \in View /\ msg[0][m] \in Nat
  BY DEF FIInv, IInv, TypeOK, ViewsOK, View
<1>1. ASSUME \A l \in Lanes : pc[l] # "flip", pc[m] \in {"spin", "reset"}, barrier_i[m] = round,
             round' = round, msg'[0] = msg[0]
      PROVE  msg'[0][m] >= round' + 1
  BY <1>1 DEF FIInv, CounterCarries, Waiting
<1>2. ASSUME NEW l \in Lanes, FArrive(l) PROVE msg'[0][m] >= round' + 1
  BY <1>0, <1>1, <1>2 DEF FArrive, Arrive, ReleaseFence, TypeOK
<1>3. ASSUME NEW l \in Lanes, FLoad(l) PROVE msg'[0][m] >= round' + 1
  BY <1>0, <1>1, <1>3 DEF FLoad, Load, RelaxedLoad, TypeOK
<1>4. ASSUME NEW l \in Lanes, FInc(l) PROVE msg'[0][m] >= round' + 1
  <2>1. msg[0] \in View /\ rel[l] \in View
    BY <1>0 DEF ViewsOK
  <2>2. msg'[0] = Join(msg[0], rel[l]) /\ round' = round /\ pc[l] = "inc"
    BY <1>0, <1>4 DEF FInc, Inc, RelaxedInc, ViewsOK
  <2>3. Join(msg[0], rel[l]) \in View /\ msg'[0][m] \in Nat
        /\ msg'[0][m] >= msg[0][m] /\ msg'[0][m] >= rel[l][m]
    BY <2>1, <2>2, JoinView DEF View
  <2>4. CASE m = l
    <3>1. rel[l][l] >= barrier_i[l] + 1 /\ barrier_i[l] = round /\ rel[l][l] \in Nat
      BY <2>1, <2>2 DEF FIInv, OwnReleased, InBarrier, IInv, LaneInv, View
    <3> QED BY <1>0, <2>2, <2>3, <2>4, <3>1
  <2>5. CASE m # l
    <3>1. /\ \A k \in Lanes : pc[k] # "flip"
          /\ pc[m] \in {"spin", "reset"} /\ barrier_i[m] = round
      BY <1>0, <1>4, <2>5 DEF FInc, Inc, TypeOK
    <3>2. msg[0][m] >= round + 1
      BY <3>1 DEF FIInv, CounterCarries, Waiting
    <3> QED BY <1>0, <2>2, <2>3, <3>2
  <2> QED BY <2>4, <2>5
<1>5. ASSUME NEW l \in Lanes, FReset(l) PROVE FALSE
  BY <1>0, <1>5 DEF FReset, Reset, TypeOK
<1>6. ASSUME NEW l \in Lanes, FFlip(l) PROVE FALSE
  <2>1. barrier_i[m] = round
    BY <1>6 DEF FFlip, Flip, IInv, LastInv, LaneInv
  <2> QED BY <1>0, <1>6, <2>1 DEF FFlip, Flip
<1>7. ASSUME NEW l \in Lanes, FSpin(l) PROVE msg'[0][m] >= round' + 1
  BY <1>0, <1>1, <1>7 DEF FSpin, Spin, RelaxedLoad, TypeOK
<1>8. ASSUME NEW l \in Lanes, FLeave(l) PROVE msg'[0][m] >= round' + 1
  BY <1>0, <1>1, <1>8 DEF FLeave, Leave, AcquireFence, TypeOK
<1>9. ASSUME NEW l \in Lanes, Admit(l) \/ Finish(l), UNCHANGED viewVars
      PROVE  msg'[0][m] >= round' + 1
  BY <1>0, <1>1, <1>9 DEF Admit, Finish, viewVars, TypeOK
<1>10. CASE UNCHANGED ctlVars /\ UNCHANGED viewVars
  BY <1>0, <1>1, <1>10 DEF ctlVars, viewVars
<1> QED
  BY <1>2, <1>3, <1>4, <1>5, <1>6, <1>7, <1>8, <1>9, <1>10
  DEF FNext, Terminated, vars

\* The last arrival's increment reads what the counter carries, which is the
\* phase of every lane: the others all wait, and its own it has released.
LEMMA StepLastHeard ==
  ASSUME IInv, FIInv, [FNext]_vars
  PROVE  LastHeard'
<1> SUFFICES ASSUME NEW k \in Lanes, pc'[k] \in {"reset", "flip"}, NEW m \in Lanes
             PROVE  acq'[k][m] >= round' + 1
  BY DEF LastHeard
<1> USE DEF Goto
<1>0. /\ ViewsOK /\ TypeOK /\ round \in Nat
      /\ pc[k] \in {"reset", "flip"} =>
           /\ acq[k][m] >= round + 1
           /\ \A l \in Lanes : pc[l] # "spin" => l = k
  BY LastIsAlone DEF FIInv, IInv, TypeOK, LastHeard
<1>1. ASSUME NEW l \in Lanes, FArrive(l) PROVE acq'[k][m] >= round' + 1
  BY <1>0, <1>1 DEF FArrive, Arrive, TypeOK
<1>2. ASSUME NEW l \in Lanes, FLoad(l) PROVE acq'[k][m] >= round' + 1
  BY <1>0, <1>2 DEF FLoad, Load, TypeOK
<1>3. ASSUME NEW l \in Lanes, FInc(l) PROVE acq'[k][m] >= round' + 1
  <2>1. pc[l] = "inc" /\ round' = round
    BY <1>3 DEF FInc, Inc
  <2>2. l = k /\ arrivals = nlanes - 1 /\ Inc(k)
    BY <1>0, <1>3, <2>1 DEF FInc, Inc, TypeOK
  <2>3. acq'[k] = Join(acq[k], msg[0]) /\ acq[k] \in View /\ msg[0] \in View
    BY <1>0, <1>3, <2>2 DEF FInc, RelaxedInc, ViewsOK
  <2>4. /\ acq'[k][m] >= acq[k][m] /\ acq'[k][m] >= msg[0][m]
        /\ acq'[k][m] \in Nat /\ acq[k][m] \in Nat /\ msg[0][m] \in Nat
    BY <2>3, JoinView DEF View
  <2>5. CASE m = k
    BY <1>0, <2>1, <2>2, <2>4, <2>5 DEF FIInv, OwnReleased, InBarrier, IInv, LaneInv
  <2>6. CASE m # k
    <3>1. \A j \in Lanes \ {k} : pc[j] = "spin" /\ barrier_i[j] = round
      BY <2>2, LastArrivalIsLast
    <3>2. msg[0][m] >= round + 1
      BY <2>1, <2>2, <2>6, <3>1 DEF FIInv, CounterCarries, Waiting
    <3> QED BY <1>0, <2>1, <2>4, <3>2
  <2> QED BY <2>5, <2>6
<1>4. ASSUME NEW l \in Lanes, FReset(l) PROVE acq'[k][m] >= round' + 1
  BY <1>0, <1>4 DEF FReset, Reset, PlainStore, TypeOK
<1>5. ASSUME NEW l \in Lanes, FFlip(l) PROVE acq'[k][m] >= round' + 1
  BY <1>0, <1>5 DEF FFlip, Flip, TypeOK
<1>6. ASSUME NEW l \in Lanes, FSpin(l) PROVE acq'[k][m] >= round' + 1
  <2>1. pc[k] \in {"reset", "flip"}
    BY <1>0, <1>6 DEF FSpin, Spin, TypeOK
  <2> QED BY <1>6, <2>1, NoSpinDuringReset DEF FSpin
<1>7. ASSUME NEW l \in Lanes, FLeave(l) PROVE acq'[k][m] >= round' + 1
  BY <1>0, <1>7 DEF FLeave, Leave, AcquireFence, TypeOK
<1>8. ASSUME NEW l \in Lanes, Admit(l) \/ Finish(l), UNCHANGED viewVars
      PROVE  acq'[k][m] >= round' + 1
  BY <1>0, <1>8 DEF Admit, Finish, viewVars, TypeOK
<1>9. CASE UNCHANGED ctlVars /\ UNCHANGED viewVars
  BY <1>0, <1>9 DEF ctlVars, viewVars
<1> QED
  BY <1>1, <1>2, <1>3, <1>4, <1>5, <1>6, <1>7, <1>8, <1>9
  DEF FNext, Terminated, vars

\* Only the release fence writes back, what the lane has just released; only
\* the acquire fence renews a cache, when everybody has released the phase that
\* the barrier closes.
LEMMA StepCoherent ==
  ASSUME IInv, FIInv, [FNext]_vars
  PROVE  Coherent'
<1> USE DEF Goto
<1>0. /\ TypeOK /\ Coherent /\ [Next]_ctlVars /\ round \in Nat
      /\ \A m \in Lanes : /\ LaneInv(m) /\ pc[m] \in PCs /\ barrier_i[m] \in Nat
                          /\ Released(m) \in Nat /\ Released(m) >= round
  <2>1. ASSUME NEW m \in Lanes
        PROVE  /\ LaneInv(m) /\ pc[m] \in PCs /\ barrier_i[m] \in Nat
               /\ Released(m) \in Nat /\ Released(m) >= round
    <3>1. LaneInv(m) /\ pc[m] \in PCs /\ barrier_i[m] \in Nat /\ round \in Nat
      BY NBarriersNat DEF IInv, TypeOK
    <3> QED BY <3>1 DEF Released, InBarrier, LaneInv, PCs
  <2> QED BY <2>1, ControlStep DEF FIInv, IInv, TypeOK
\* A step that keeps where the lanes are relative to their release fences.
<1>1. ASSUME UNCHANGED memVars, UNCHANGED barrier_i,
             \A m \in Lanes : InBarrier(m)' <=> InBarrier(m)
      PROVE  Coherent'
  <2>1. \A m \in Lanes : Released(m)' = Released(m)
    BY <1>1 DEF Released
  <2>2. (\A l, m \in Lanes : line[l][m] >= barrier_i[l])' /\ line' \in [Lanes -> View]
    BY <1>0, <1>1 DEF Coherent, memVars
  <2>3. mem' = [m \in Lanes |-> Released(m)']
    BY <1>0, <1>1, <2>1 DEF Coherent, memVars
  <2> QED BY <2>2, <2>3 DEF Coherent
<1>2. ASSUME NEW l \in Lanes, FArrive(l) PROVE Coherent'
  <2>1. /\ line' = line /\ barrier_i' = barrier_i /\ mem' = [mem EXCEPT ![l] = barrier_i[l] + 1]
        /\ pc' = [pc EXCEPT ![l] = "load"] /\ pc[l] = "work"
    BY <1>2 DEF FArrive, Arrive, WriteBack
  <2>2. Released(l)' = barrier_i[l] + 1
    BY <1>0, <2>1 DEF Released, InBarrier, TypeOK
  <2>3. \A m \in Lanes \ {l} : Released(m)' = Released(m)
    BY <1>0, <2>1 DEF Released, InBarrier, TypeOK
  <2>4. mem' = [m \in Lanes |-> Released(m)']
    BY <1>0, <2>1, <2>2, <2>3 DEF Coherent
  <2>5. (\A k, m \in Lanes : line[k][m] >= barrier_i[k])' /\ line' \in [Lanes -> View]
    BY <1>0, <2>1 DEF Coherent
  <2> QED BY <2>4, <2>5 DEF Coherent
<1>3. ASSUME NEW l \in Lanes, FLeave(l) PROVE Coherent'
  <2>1. /\ mem' = mem /\ line' = [line EXCEPT ![l] = mem]
        /\ barrier_i' = [barrier_i EXCEPT ![l] = @ + 1]
        /\ pc' = [pc EXCEPT ![l] = "work"] /\ pc[l] = "leave"
    BY <1>3 DEF FLeave, Leave, Invalidate
  <2>2. \A m \in Lanes : Released(m)' = Released(m)
    BY <1>0, <2>1 DEF Released, InBarrier, TypeOK
  <2>3. mem' = [m \in Lanes |-> Released(m)']
    BY <1>0, <2>1, <2>2 DEF Coherent
  <2>4. mem \in View /\ line' \in [Lanes -> View]
    BY <1>0, <2>1 DEF Coherent, View
  <2>5. ASSUME NEW k \in Lanes, NEW m \in Lanes PROVE line'[k][m] >= barrier_i'[k]
    <3>1. CASE k = l
      <4>1. line'[k][m] = Released(m) /\ barrier_i'[k] = barrier_i[k] + 1
        BY <1>0, <2>1, <3>1 DEF Coherent, TypeOK
      <4>2. barrier_i[k] + 1 = round
        BY <1>0, <2>1, <3>1 DEF LaneInv
      <4> QED BY <1>0, <4>1, <4>2
    <3>2. CASE k # l
      BY <1>0, <2>1, <3>2 DEF Coherent, TypeOK
    <3> QED BY <3>1, <3>2
  <2> QED BY <2>3, <2>4, <2>5 DEF Coherent
<1>4. ASSUME NEW l \in Lanes,
             FLoad(l) \/ FInc(l) \/ FReset(l) \/ FFlip(l) \/ FSpin(l)
               \/ ((Admit(l) \/ Finish(l)) /\ UNCHANGED memVars)
      PROVE  Coherent'
  <2>1. UNCHANGED memVars /\ UNCHANGED barrier_i
    BY <1>4 DEF FLoad, FInc, FReset, FFlip, FSpin, Load, Inc, Reset, Flip, Spin, Admit, Finish
  <2>2. ASSUME NEW m \in Lanes PROVE InBarrier(m)' <=> InBarrier(m)
    BY <1>0, <1>4 DEF FLoad, FInc, FReset, FFlip, FSpin, Load, Inc, Reset, Flip, Spin,
       Admit, Finish, InBarrier, TypeOK
  <2> QED BY <1>1, <2>1, <2>2
<1>5. CASE UNCHANGED ctlVars /\ UNCHANGED memVars
  BY <1>1, <1>5 DEF ctlVars, InBarrier
<1> QED
  BY <1>2, <1>3, <1>4, <1>5 DEF FNext, Terminated, vars

\* The invariant holds in every reachable state of the barrier with its fences.
THEOREM FencesInductive == FSpec => [](IInv /\ FIInv)
<1>1. FInit => IInv /\ FIInv
  BY InitIInv, InitFIInv DEF FInit
<1>2. (IInv /\ FIInv) /\ [FNext]_vars => (IInv /\ FIInv)'
  <2> SUFFICES ASSUME IInv, FIInv, [FNext]_vars PROVE IInv' /\ FIInv'
    OBVIOUS
  <2>1. IInv'
    BY ControlStep, StepIInv
  <2>2. FIInv'
    BY StepViewsOK, StepViewsWithin, StepOwnReleased, StepCounterCarries, StepLastHeard,
       StepCoherent DEF FIInv
  <2> QED BY <2>1, <2>2
<1> QED BY <1>1, <1>2, PTL DEF FSpec

\* The lane that flips the phase of vmo_barrier has every lane's stores of the
\* phase ordered before its own next accesses, and publishes its own, however
\* many lanes there are: what bar[0] carries survives every increment and is
\* lost only after the last arrival has read it.
THEOREM FlipperIsOrdered == FSpec => []FlipperOrdered
<1>1. IInv /\ FIInv => FlipperOrdered
  <2> SUFFICES ASSUME IInv, FIInv, NEW l \in Lanes, pc[l] = "flip", NEW m \in Lanes
               PROVE  rel[l][l] = barrier_i[l] + 1 /\ acq[l][m] = barrier_i[l] + 1
    BY DEF FlipperOrdered
  <2>1. barrier_i[l] = round /\ Released(l) = round + 1 /\ Released(m) = round + 1
    BY DEF IInv, LaneInv, LastInv, Released, InBarrier
  <2>2. rel[l][l] <= round + 1 /\ acq[l][m] <= round + 1
    BY <2>1 DEF FIInv, ViewsWithin, Within
  <2>3. rel[l][l] >= round + 1 /\ acq[l][m] >= round + 1
    BY <2>1 DEF FIInv, OwnReleased, LastHeard, InBarrier
  <2>4. rel[l][l] \in Nat /\ acq[l][m] \in Nat /\ round \in Nat
    BY DEF FIInv, ViewsOK, View, IInv, TypeOK
  <2> QED BY <2>1, <2>2, <2>3, <2>4
<1> QED BY <1>1, FencesInductive, PTL

\* Between two barriers of the megakernel every lane reads all the stores of the
\* phases before and none of a later phase, however many lanes there are and
\* whatever their caches keep: vmo_barrier's two fences and its count suffice.
THEOREM ReadsAreFresh == FSpec => []FreshReads
<1>1. IInv /\ FIInv => FreshReads
  <2> SUFFICES ASSUME IInv, FIInv, NEW l \in Lanes, NEW m \in Lanes, pc[l] = "work"
               PROVE  line[l][m] >= barrier_i[l] /\ barrier_i[m] <= barrier_i[l]
    BY DEF FreshReads
  <2>1. barrier_i[l] = round /\ barrier_i[m] \in Nat /\ round \in Nat /\ LaneInv(m) /\ pc[m] \in PCs
    BY NBarriersNat DEF IInv, LaneInv, TypeOK
  <2>2. barrier_i[m] <= round
    BY <2>1 DEF LaneInv, PCs
  <2> QED BY <2>1, <2>2 DEF FIInv, Coherent
<1> QED BY <1>1, FencesInductive, PTL
==============================================================================
