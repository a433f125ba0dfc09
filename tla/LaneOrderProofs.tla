-------------------------- MODULE LaneOrderProofs --------------------------
(***************************************************************************)
(* What schedule_program guarantees about the lane streams of every        *)
(* straight-line program, whatever its length, the number of lanes and the *)
(* costs: the operators of Scheduler are followed from the phases a run is *)
(* cut into, through map chains, units, chunks and their packing, to the   *)
(* streams.                                                                *)
(***************************************************************************)
EXTENDS LaneOrder, SchedulerProofs
------------------------------------------------------------------------------
(* The split into phases (PhaseSplit), a run at a time *)

\* Only instructions that share a buffer depend on each other.
LEMMA BoundaryShares ==
  ASSUME NEW p, NEW q, Boundary(p, q)
  PROVE  \/ \E b \in Reads(q) : b \in Writes(p)
         \/ \E b \in Writes(q) : b \in Writes(p)
         \/ \E b \in Writes(q) : b \in Reads(p)
<1>1. Depends(p, q)
  BY DEF Boundary, CrossLane
<1>2. QED
  BY <1>1 DEF Depends

\* The two tables find every member of the current phase that a new
\* instruction depends on: testing the candidates is testing the whole phase.
LEMMA CandidatesSuffice ==
  ASSUME TypeOK, TablesExact, j \in 1 .. Len(seg),
         NEW i \in start .. j - 1, Boundary(seg[i], seg[j])
  PROVE  i \in Candidates(seg[j])
<1>1. Reads(seg[j]) \cup Writes(seg[j]) \subseteq Buffers
  BY ProgramsListed DEF TypeOK
<1>2. \A b \in Buffers : /\ b \in Reads(seg[i]) => i \in readers[b]
                         /\ b \in Writes(seg[i]) => i \in writers[b]
  BY DEF TablesExact
<1>3. QED
  BY <1>1, <1>2, BoundaryShares DEF Candidates

\* Candidates are members of the current phase.
LEMMA CandidatesInPhase ==
  ASSUME TypeOK, TablesExact, j \in 1 .. Len(seg), NEW i \in Candidates(seg[j])
  PROVE  i \in start .. j - 1
<1>1. Reads(seg[j]) \cup Writes(seg[j]) \subseteq Buffers
  BY ProgramsListed DEF TypeOK
<1>2. QED
  BY <1>1 DEF Candidates, TablesExact

LEMMA InitInv == Init => IInv
<1> SUFFICES ASSUME Init PROVE IInv
  OBVIOUS
<1>1. Len(seg) \in Nat
  BY ProgramsListed DEF Init
<1>2. TypeOK
  BY <1>1 DEF Init, TypeOK, Empty
<1>3. TablesExact
  BY DEF Init, TablesExact, Empty
<1>4. Separated /\ Justified /\ \A c \in cuts : c <= start
  BY DEF Init, Separated, Justified
<1>5. QED
  BY <1>2, <1>3, <1>4 DEF IInv

LEMMA ExtendInv == IInv /\ Extend => IInv'
<1> SUFFICES ASSUME IInv, Extend PROVE IInv'
  OBVIOUS
<1> USE DEF IInv
<1>0. Len(seg) \in Nat /\ j \in 1 .. Len(seg) /\ start \in 1 .. j
  BY ProgramsListed DEF TypeOK, Extend
<1>1. TypeOK'
  BY <1>0 DEF TypeOK, Extend, Track
<1>2. TablesExact'
  BY <1>0 DEF TablesExact, Extend, Track, TypeOK
<1>3. (\A c \in cuts : c <= start)'
  BY DEF Extend
<1>4. Separated'
  <2> SUFFICES ASSUME NEW k \in 1 .. j, NEW i \in 1 .. k - 1, Boundary(seg[i], seg[k])
               PROVE  \E c \in cuts : i < c /\ c <= k
    BY <1>0 DEF Separated, Extend
  <2>1. CASE k < j
    BY <2>1, <1>0 DEF Separated
  <2>2. CASE k = j
    <3>1. i \notin start .. j - 1
      BY <2>2, <1>0, CandidatesSuffice DEF Extend, NeedsBarrier
    <3>2. i < start /\ start <= k /\ start \in cuts
      BY <3>1, <2>2, <1>0 DEF TypeOK
    <3>3. QED
      BY <3>2
  <2>3. QED
    BY <2>1, <2>2, <1>0
<1>5. Justified'
  BY DEF Justified, Extend
<1>6. QED
  BY <1>1, <1>2, <1>3, <1>4, <1>5

LEMMA CutInv == IInv /\ Cut => IInv'
<1> SUFFICES ASSUME IInv, Cut PROVE IInv'
  OBVIOUS
<1> USE DEF IInv
<1>0. Len(seg) \in Nat /\ j \in 1 .. Len(seg) /\ start \in 1 .. j
  BY ProgramsListed DEF TypeOK, Cut
<1>1. TypeOK'
  BY <1>0 DEF TypeOK, Cut, Track, Empty
<1>2. TablesExact'
  BY <1>0 DEF TablesExact, Cut, Track, Empty, TypeOK
<1>3. (\A c \in cuts : c <= start)'
  BY <1>0 DEF Cut, TypeOK
<1>4. Separated'
  <2> SUFFICES ASSUME NEW k \in 1 .. j, NEW i \in 1 .. k - 1, Boundary(seg[i], seg[k])
               PROVE  \E c \in cuts \cup {j} : i < c /\ c <= k
    BY <1>0 DEF Separated, Cut
  <2>1. CASE k < j
    BY <2>1, <1>0 DEF Separated
  <2>2. CASE k = j
    <3>1. i < j /\ j <= k /\ j \in cuts \cup {j}
      BY <2>2, <1>0
    <3>2. QED
      BY <3>1
  <2>3. QED
    BY <2>1, <2>2, <1>0
<1>5. Justified'
  <2> SUFFICES ASSUME NEW c \in cuts \cup {j}, c # 1
               PROVE  \E i \in 1 .. c - 1 : /\ Boundary(seg[i], seg[c])
                                            /\ \A d \in cuts \cup {j} : d <= i \/ d >= c
    BY <1>0 DEF Justified, Cut
  <2>1. CASE c \in cuts
    <3>1. PICK i \in 1 .. c - 1 : Boundary(seg[i], seg[c]) /\ \A d \in cuts : d <= i \/ d >= c
      BY <2>1 DEF Justified
    <3>2. c \in 1 .. j
      BY <2>1, <1>0 DEF TypeOK
    <3>3. QED
      BY <3>1, <3>2, <1>0
  <2>2. CASE c = j
    <3>1. PICK i \in Candidates(seg[j]) : Boundary(seg[i], seg[j])
      BY DEF Cut, NeedsBarrier
    <3>2. i \in start .. j - 1
      BY <3>1, <1>0, CandidatesInPhase
    <3>3. \A d \in cuts : d \in Nat /\ d <= start
      BY <1>0 DEF TypeOK
    <3>4. QED
      BY <3>1, <3>2, <3>3, <2>2, <1>0
  <2>3. QED
    BY <2>1, <2>2
<1>6. QED
  BY <1>1, <1>2, <1>3, <1>4, <1>5

\* IInv holds throughout, for every program and with or without fusion.
THEOREM Inductive == Spec => []IInv
<1>1. IInv /\ [Next]_vars => IInv'
  <2> SUFFICES ASSUME IInv, [Next]_vars PROVE IInv'
    OBVIOUS
  <2>1. CASE Extend
    BY <2>1, ExtendInv
  <2>2. CASE Cut
    BY <2>2, CutInv
  <2>3. CASE UNCHANGED vars
    BY <2>3 DEF vars, IInv, TypeOK, TablesExact, Separated, Justified, Boundary
  <2>4. QED
    BY <2>1, <2>2, <2>3 DEF Next, Split
<1>2. QED
  BY <1>1, InitInv, PTL DEF Spec

\* _phases separates every cross-lane dependency by a barrier.
THEOREM BarriersSeparate == Spec => []Separated
<1>1. IInv => Separated
  BY DEF IInv
<1>2. QED
  BY <1>1, Inductive, PTL

\* _phases emits no barrier that no dependency asks for.
THEOREM BarriersJustified == Spec => []Justified
<1>1. IInv => Justified
  BY DEF IInv
<1>2. QED
  BY <1>1, Inductive, PTL
\* How far the split has followed the direct definition.
Follows ==
  /\ start = (IF j = 1 THEN 1 ELSE PhaseStart(seg)[j - 1])
  /\ cuts = {1} \cup {PhaseStart(seg)[k] : k \in 1 .. j - 1}

\* A step takes the direct definition one instruction further: the candidates
\* the tables return decide like the whole phase.
LEMMA FollowsStep == IInv /\ Follows /\ (Extend \/ Cut) => Follows'
<1> SUFFICES ASSUME IInv, Follows, Extend \/ Cut PROVE Follows'
  OBVIOUS
<1> USE DEF IInv
<1>1. Len(seg) \in Nat /\ j \in 1 .. Len(seg) /\ start \in 1 .. j /\ seg' = seg /\ j' = j + 1
  BY ProgramsListed DEF TypeOK, Extend, Cut
<1>2. (\E i \in start .. j - 1 : Boundary(seg[i], seg[j])) <=> NeedsBarrier
  BY <1>1, CandidatesSuffice, CandidatesInPhase DEF NeedsBarrier
<1>3. start' = PhaseStart(seg)[j]
  <2>1. CASE j = 1
    <3>1. start = 1 /\ start' = 1 /\ PhaseStart(seg)[1] = 1
      BY <2>1, <1>1, PhaseStartIs DEF Follows, Extend, Cut
    <3>2. QED
      BY <3>1, <2>1
  <2>2. CASE j # 1
    <3>1. start = PhaseStart(seg)[j - 1]
      BY <2>2 DEF Follows
    <3>2. PhaseStart(seg)[j] = IF NeedsBarrier THEN j ELSE start
      BY <3>1, <2>2, <1>1, <1>2, PhaseStartIs
    <3>3. QED
      BY <3>2 DEF Extend, Cut
  <2>3. QED
    BY <2>1, <2>2
<1>4. cuts' = cuts \cup {start'}
  BY <1>1 DEF Extend, Cut, TypeOK
<1>5. cuts' = {1} \cup {PhaseStart(seg)[k] : k \in 1 .. j}
  <2>1. 1 .. j = (1 .. j - 1) \cup {j}
    BY <1>1
  <2>2. QED
    BY <2>1, <1>3, <1>4 DEF Follows
<1>6. QED
  BY <1>1, <1>3, <1>5 DEF Follows

\* Followed to the end it is the direct definition.
LEMMA FollowsDirect == IInv /\ Follows => SameAsDirect
<1> SUFFICES ASSUME IInv, Follows, j > Len(seg)
             PROVE  cuts = {1} \cup {PhaseStart(seg)[k] : k \in 1 .. Len(seg)}
  BY DEF SameAsDirect
<1>1. j = Len(seg) + 1
  BY ProgramsListed DEF IInv, TypeOK
<1>2. j - 1 = Len(seg)
  BY <1>1, ProgramsListed DEF IInv, TypeOK
<1>3. QED
  BY <1>2 DEF Follows

\* "equivalent to testing it against all of `cur`": comparing an instruction with
\* what the two tables return, instead of with the whole phase, changes no barrier.
THEOREM TablesDecideAlike == Spec => []SameAsDirect
<1>1. Init => Follows
  <2> SUFFICES ASSUME Init PROVE Follows
    OBVIOUS
  <2>1. 1 .. j - 1 = {}
    BY DEF Init
  <2>2. QED
    BY <2>1 DEF Init, Follows
<1>2. IInv /\ Follows /\ [Next]_vars => Follows'
  <2>1. UNCHANGED vars /\ Follows => Follows'
    BY DEF vars, Follows
  <2>2. QED
    BY <2>1, FollowsStep DEF Next, Split
<1>3. QED
  BY <1>1, <1>2, FollowsDirect, Inductive, PTL DEF Spec
------------------------------------------------------------------------------
(* The levels of a straight program *)

\* A program of compute instructions and nops.
Straight(p) ==
  Plain(p) /\ \A i \in 1 .. Len(p) : p[i].op \in {"ew", "shaped", "nop"}

\* The instructions that are scheduled.
Work(p) == {i \in 1 .. Len(p) : p[i].op # "nop"}

\* _build_levels of a straight program.
LEMMA LevelsBuilt ==
  ASSUME NEW p, Len(p) \in Nat, \A i \in 1 .. Len(p) : ~IsRegion(p[i])
  PROVE  \E M \in Nat :
           /\ Phased(p, Work(p), BuildLevels(p, Indices(SubList(1, Len(p)))), M)
           /\ Len(BuildLevels(p, Indices(SubList(1, Len(p))))) = M
<1> DEFINE N == Len(p)
           r == SubList(1, N)
           a == BuildLevels(p, Indices(r))
<1>1. r.start = 1 /\ r.len = N /\ r \in [start : Nat, len : Nat]  BY DEF SubList
<1>2. 1 + N - 1 = N  OBVIOUS
<1>3. Busy(p, 1 .. N) = Work(p)  BY DEF Busy, Work
<1> HIDE DEF r
<1>4. Layered(p, Work(p), a)  BY <1>1, <1>2, <1>3, LevelsOf
<1>5. Work(p) \subseteq 1 .. N  BY DEF Work
<1> HIDE DEF a, N
<1>6. PICK M \in Nat : M = Len(a)
  <2>1. a \in Seq(Levels)  BY <1>4 DEF Layered
  <2> QED BY <2>1, LenProperties
<1>7. ASSUME NEW m \in 1 .. M PROVE ~a[m].region
  <2>1. CASE a[m].region
    <3>1. PICK i \in Nat : IsRegion(p[i]) /\ a[m].members = <<i>>  BY <1>4, <1>6, <2>1 DEF Layered, OneKind
    <3>2. Members(a, m) = {i}  BY <3>1 DEF Members, ToSet
    <3>3. i \in Work(p)  BY <1>4, <1>6, <3>2 DEF Layered
    <3> QED BY <1>5, <3>1, <3>3 DEF N
  <2> QED BY <2>1
<1>8. Phased(p, Work(p), a, M)  BY <1>4, <1>6, <1>7 DEF Layered, Phased
<1> QED BY <1>6, <1>8 DEF a, r, N
------------------------------------------------------------------------------
(* Levels in the lanes *)

\* What a straight program has to run.
LEMMA WorkIs ==
  ASSUME NEW p, Straight(p)
  PROVE  /\ Len(p) \in Nat /\ Work(p) \subseteq 1 .. Len(p) /\ Work(p) \in SUBSET Nat
         /\ IsFiniteSet(Work(p)) /\ \A i \in 1 .. Len(p) : ~IsRegion(p[i])
<1>1. Len(p) \in Nat  BY DEF Straight, Plain
<1>2. PICK n \in Nat : n = Len(p)  BY <1>1
<1>3. Work(p) \subseteq 1 .. n /\ 1 .. n \subseteq Nat  BY <1>2 DEF Work
<1>4. IsFiniteSet(1 .. n)  BY FS_Interval
<1>5. IsFiniteSet(Work(p))  BY <1>3, <1>4, FS_Subset
<1>6. \A i \in 1 .. Len(p) : ~IsRegion(p[i])  BY DEF Straight, IsRegion
<1> QED BY <1>2, <1>3, <1>5, <1>6

\* The lanes of level m.
Out(p, levels, m) == PackUnits(Units(p, levels[m].members))

\* The phases of a program are packed as one phase is.
LEMMA LevelPacked ==
  ASSUME NEW p, Straight(p), NEW levels, NEW M \in Nat, Phased(p, Work(p), levels, M),
         NEW m \in 1 .. M
  PROVE  /\ Free(p, Members(levels, m)) /\ Members(levels, m) \subseteq Work(p)
         /\ PackOK(p, Members(levels, m), Out(p, levels, m))
<1> DEFINE D == Members(levels, m)
<1>1. D \subseteq Work(p)
  <2>1. PICK s \in Seq(Work(p)) : s = levels[m].members  BY DEF Phased
  <2>2. DOMAIN s = 1 .. Len(s) /\ s \in [1 .. Len(s) -> Work(p)]  BY LenProperties
  <2>3. \A a \in DOMAIN s : s[a] \in Work(p)  BY <2>2
  <2>4. D = ToSet(s)  BY <2>1 DEF Members
  <2> QED BY <2>3, <2>4 DEF ToSet
<1>2. ToSet(levels[m].members) = D  BY DEF Members
<1> HIDE DEF D
<1>3. D \subseteq 1 .. Len(p) /\ D \in SUBSET Nat /\ IsFiniteSet(D)  BY <1>1, WorkIs, FS_Subset
<1>4. Free(p, D)  BY <1>3 DEF Free, Phased, D
<1>5. Counted(p, D)  BY <1>3 DEF Counted, Straight, Plain
<1>6. EdgesEqual(p, D)  BY <1>4, FreeEdges DEF Straight
<1>7. PackOK(p, D, Out(p, levels, m))  BY <1>2, <1>3, <1>5, <1>6, PhasePacked DEF Out
<1> QED BY <1>1, <1>4, <1>7 DEF D

Entries(p) == {Barrier} \cup TileEntries(Work(p))

\* What level m adds to lane l.
Part(p, levels, m, l) ==
  IF m = 1 THEN Out(p, levels, m)[l] ELSE <<Barrier>> \o Out(p, levels, m)[l]

\* A level puts entries of its instructions in every lane.
LEMMA PartIs ==
  ASSUME NEW p, Straight(p), NEW levels, NEW M \in Nat, Phased(p, Work(p), levels, M),
         NEW m \in 1 .. M, NEW l \in LaneIds
  PROVE  /\ Out(p, levels, m)[l] \in Seq(TileEntries(Members(levels, m)))
         /\ Out(p, levels, m)[l] \in Seq(Entries(p))
         /\ Part(p, levels, m, l) \in Seq(Entries(p))
<1> DEFINE D == Members(levels, m)
           o == Out(p, levels, m)[l]
<1>1. D \subseteq Work(p) /\ PackOK(p, D, Out(p, levels, m))  BY LevelPacked
<1>2. o \in Seq(TileEntries(D))  BY <1>1 DEF PackOK
<1>3. TileEntries(D) \subseteq Entries(p)  BY <1>1 DEF TileEntries, Entries
<1> HIDE DEF D
<1>4. o \in Seq(Entries(p))
  <2> HIDE DEF o
  <2> QED BY <1>2, <1>3, SeqMonotonic
<1>5. <<Barrier>> \in Seq(Entries(p))
  <2>1. Barrier \in Entries(p)  BY DEF Entries
  <2> QED BY <2>1
<1>6. <<Barrier>> \o o \in Seq(Entries(p))
  <2> HIDE DEF o
  <2> QED BY <1>4, <1>5, ConcatProperties
<1> QED BY <1>2, <1>4, <1>6 DEF Part, D

\* Lane l's stream s is what its levels add to it.
LaneOf(p, levels, M, l, s, o, part, at, len) ==
  /\ Grows(Entries(p), M, o, part, at, len) /\ o[M] = s
  /\ \A m \in 1 .. M : part[m] = Part(p, levels, m, l)

Emitted(p, levels, M, lanes) ==
  /\ lanes \in [LaneIds -> Seq(Entries(p))]
  /\ \A l \in LaneIds : \E o, part, at, len : LaneOf(p, levels, M, l, lanes[l], o, part, at, len)

NoLanes == [l \in LaneIds |-> <<>>]

\* Emitting the levels appends to every lane a part for each, behind a barrier.
LEMMA LevelsEmitted ==
  ASSUME NEW p, Straight(p), NEW levels, NEW M \in Nat, Phased(p, Work(p), levels, M),
         Len(levels) = M
  PROVE  \E lanes : /\ Emitted(p, levels, M, lanes)
                    /\ M = 0 => lanes = NoLanes
                    /\ EmitLevels(p, [lanes |-> NoLanes, queue |-> <<>>], levels)
                         = [lanes |-> lanes, queue |-> <<>>]
<1> DEFINE E == Entries(p)
           Lanes == [LaneIds -> Seq(E)]
           States == [lanes : Lanes, queue : {<<>>}]
           first == [lanes |-> NoLanes, queue |-> <<>>]
           Emit1(x, k) == EmitLevel(p, IF k = 1 THEN first ELSE Synced(x), levels[k])
           Is(f) == f = [k \in 0 .. Len(levels) |-> IF k = 0 THEN first ELSE Emit1(f[k - 1], k)]
           h == CHOOSE f : Is(f)
           Add(y, k) == [l \in LaneIds |-> y[l] \o Part(p, levels, k, l)]
           Next1(x, k) == [lanes |-> Add(x.lanes, k), queue |-> <<>>]
           step == [k \in 1 .. M |-> [x \in States |-> Next1(x, k)]]
<1>1. EmitLevels(p, first, levels) = h[Len(levels)]  BY DEF EmitLevels
<1>2. first \in States
  <2>1. \A l \in LaneIds : NoLanes[l] \in Seq(E)
    <3>1. <<>> \in Seq(E)
      <4> HIDE DEF E
      <4> QED OBVIOUS
    <3> QED BY <3>1 DEF NoLanes
  <2>2. NoLanes = [l \in LaneIds |-> NoLanes[l]]  BY DEF NoLanes
  <2>3. NoLanes \in Lanes
    <3> HIDE DEF E
    <3> QED BY <2>1, <2>2
  <2> HIDE DEF Lanes
  <2> QED BY <2>3
<1>3. ASSUME NEW x \in States, NEW k \in 1 .. M PROVE Next1(x, k) \in States
  <2>1. \A l \in LaneIds : x.lanes[l] \in Seq(E) /\ Part(p, levels, k, l) \in Seq(E)  BY PartIs
  <2>2. \A l \in LaneIds : x.lanes[l] \o Part(p, levels, k, l) \in Seq(E)
    <3> HIDE DEF E
    <3> QED BY <2>1, ConcatProperties
  <2>3. Add(x.lanes, k) \in Lanes
    <3> HIDE DEF E
    <3> QED BY <2>2
  <2> HIDE DEF Lanes, Add
  <2> QED BY <2>3
\* The first level follows on what there is at the start, the others on a barrier.
<1>4. ASSUME NEW x \in States, NEW k \in 1 .. M, k = 1 => x = first PROVE Emit1(x, k) = Next1(x, k)
  <2>1. ~levels[k].region  BY DEF Phased
  <2>2. PICK y \in Lanes : x = [lanes |-> y, queue |-> <<>>] /\ x.lanes = y  OBVIOUS
  <2>3. \A l \in LaneIds : y[l] \in Seq(E) /\ Out(p, levels, k)[l] \in Seq(E)  BY PartIs
  <2> HIDE DEF E, Lanes, States
  <2>4. \A z : EmitLevel(p, z, levels[k]) = [z EXCEPT !.lanes = Concat(@, Out(p, levels, k))]
    BY <2>1 DEF EmitLevel, EmitPhase, Out
  <2>5. CASE k = 1
    <3>1. Emit1(x, k) = [lanes |-> Concat(y, Out(p, levels, k)), queue |-> <<>>]
      <4> HIDE DEF first
      <4>1. Emit1(x, k) = [x EXCEPT !.lanes = Concat(@, Out(p, levels, k))]  BY <1>4, <2>4, <2>5
      <4> QED BY <4>1, <2>2
    <3>2. Concat(y, Out(p, levels, k)) = Add(y, k)
      <4>1. \A l \in LaneIds : Part(p, levels, k, l) = Out(p, levels, k)[l]  BY <2>5 DEF Part
      <4> QED BY <4>1 DEF Concat
    <3> QED BY <3>1, <3>2, <2>2
  <2>6. CASE k # 1
    <3>1. Emit1(x, k) = [lanes |-> Concat(Concat(y, Everywhere(Barrier)), Out(p, levels, k)), queue |-> <<>>]
      <4>1. Synced(x) = [lanes |-> Concat(y, Everywhere(Barrier)), queue |-> <<>>]  BY <2>2 DEF Synced
      <4>2. Emit1(x, k) = [Synced(x) EXCEPT !.lanes = Concat(@, Out(p, levels, k))]
        BY <2>4, <2>6
      <4> HIDE DEF Emit1
      <4> QED BY <4>1, <4>2
    <3>2. Concat(Concat(y, Everywhere(Barrier)), Out(p, levels, k)) = Add(y, k)
      <4>1. ASSUME NEW l \in LaneIds
            PROVE  (y[l] \o <<Barrier>>) \o Out(p, levels, k)[l] = y[l] \o Part(p, levels, k, l)
        <5>1. Part(p, levels, k, l) = <<Barrier>> \o Out(p, levels, k)[l]  BY <2>6 DEF Part
        <5>2. <<Barrier>> \in Seq(E)
          <6>1. Barrier \in E  BY DEF E, Entries
          <6> QED BY <6>1
        <5>3. (y[l] \o <<Barrier>>) \o Out(p, levels, k)[l] = y[l] \o (<<Barrier>> \o Out(p, levels, k)[l])
          <6>1. PICK a \in Seq(E), b \in Seq(E), c \in Seq(E) :
                  a = y[l] /\ b = <<Barrier>> /\ c = Out(p, levels, k)[l]
            BY <2>3, <5>2
          <6>2. (a \o b) \o c = a \o (b \o c)  BY ConcatAssociative
          <6> QED BY <6>1, <6>2
        <5> QED BY <5>1, <5>3
      <4> QED BY <4>1 DEF Concat, Everywhere
    <3> QED BY <3>1, <3>2, <2>2
  <2> QED BY <2>5, <2>6
<1> HIDE DEF Emit1, Next1, States, first
<1>5. step \in StepFuns(States, M)  BY <1>3 DEF StepFuns
<1>6. PICK f : IsRun(f, States, first, M, step)
  <2> HIDE DEF step
  <2> QED BY <1>2, <1>5, Iterated
<1>7. Is(f)
  <2>1. f = [k \in 0 .. M |-> f[k]] /\ f[0] = first  BY <1>6 DEF IsRun
  <2>2. \A k \in 1 .. M : k - 1 \in 0 .. M /\ f[k - 1] \in States  BY <1>6 DEF IsRun
  <2>3. \A k \in 1 .. M : f[k] = Next1(f[k - 1], k)  BY <1>6, <2>2 DEF IsRun
  <2>4. \A k \in 1 .. M : k = 1 => f[k - 1] = first  BY <2>1
  <2>5. \A k \in 1 .. M : f[k] = Emit1(f[k - 1], k)  BY <1>4, <2>2, <2>3, <2>4
  <2>6. \A k \in 0 .. M : k = 0 \/ k \in 1 .. M  OBVIOUS
  <2>7. \A k \in 0 .. M : f[k] = IF k = 0 THEN first ELSE Emit1(f[k - 1], k)  BY <2>1, <2>5, <2>6
  <2> QED BY <2>1, <2>7
<1>8. Is(h)
  <2>1. \E g : Is(g)  BY <1>7
  <2> HIDE DEF Is
  <2> QED BY <2>1
<1> HIDE DEF h, step
<1>9. h[0] = first /\ \A k \in 1 .. M : h[k] = Emit1(h[k - 1], k)
  <2>1. \A k \in 0 .. M : h[k] = IF k = 0 THEN first ELSE Emit1(h[k - 1], k)  BY <1>8
  <2>2. 0 \in 0 .. M /\ \A k \in 1 .. M : k \in 0 .. M /\ k # 0  OBVIOUS
  <2> QED BY <2>1, <2>2
<1>10. /\ \A k \in 0 .. M : h[k] \in States
       /\ \A k \in 1 .. M : h[k - 1] \in States /\ h[k] = Next1(h[k - 1], k)
  <2> DEFINE T == {k \in 0 .. M : h[k] \in States}
  <2>1. 0 \in T  BY <1>2, <1>9
  <2>2. ASSUME NEW k \in 1 .. M, h[k - 1] \in States PROVE h[k] = Next1(h[k - 1], k)
    <3>1. k = 1 => h[k - 1] = first  BY <1>9
    <3> QED BY <1>4, <1>9, <2>2, <3>1
  <2>3. \A k \in 1 .. M : k - 1 \in T => k \in T  BY <1>3, <2>2
  <2>4. \A k \in 0 .. M : k \in T
    <3> HIDE DEF T
    <3> QED BY <2>1, <2>3, Upto
  <2>5. \A k \in 1 .. M : k - 1 \in 0 .. M  OBVIOUS
  <2> QED BY <2>2, <2>4, <2>5
<1>11. PICK lanes \in Lanes : h[M] = [lanes |-> lanes, queue |-> <<>>]
  <2>1. h[M] \in States  BY <1>10
  <2> QED BY <2>1 DEF States
<1>12. ASSUME NEW l \in LaneIds
       PROVE  \E o, part, at, len : LaneOf(p, levels, M, l, lanes[l], o, part, at, len)
  <2> DEFINE o == [k \in 0 .. M |-> h[k].lanes[l]]
             part == [k \in 1 .. M |-> Part(p, levels, k, l)]
             at == [k \in 0 .. M |-> Len(o[k])]
             len == [k \in 1 .. M |-> Len(part[k])]
  <2>1. o \in [0 .. M -> Seq(E)]
    <3>1. \A k \in 0 .. M : h[k].lanes[l] \in Seq(E)  BY <1>10 DEF States
    <3> HIDE DEF E
    <3> QED BY <3>1
  <2>2. part \in [1 .. M -> Seq(E)]
    <3>1. \A k \in 1 .. M : Part(p, levels, k, l) \in Seq(E)  BY PartIs
    <3> HIDE DEF E
    <3> QED BY <3>1
  <2>3. o[0] = <<>>
    <3>1. 0 \in 0 .. M  OBVIOUS
    <3>2. h[0].lanes[l] = <<>>  BY <1>9 DEF first, NoLanes
    <3> QED BY <3>1, <3>2
  <2>4. ASSUME NEW k \in 1 .. M PROVE o[k] = o[k - 1] \o part[k]
    <3>1. k \in 0 .. M /\ k - 1 \in 0 .. M  OBVIOUS
    <3>2. h[k].lanes = Add(h[k - 1].lanes, k)
      <4>1. h[k] = Next1(h[k - 1], k)  BY <1>10
      <4> HIDE DEF Add
      <4> QED BY <4>1 DEF Next1
    <3>3. h[k].lanes[l] = h[k - 1].lanes[l] \o Part(p, levels, k, l)  BY <3>2
    <3> QED BY <3>1, <3>3
  <2>5. o[M] = lanes[l]  BY <1>11
  <2>6. \A k \in 1 .. M : part[k] = Part(p, levels, k, l)  OBVIOUS
  <2> HIDE DEF o, part, E
  <2>7. Grows(E, M, o, part, at, len)  BY <2>1, <2>2, <2>3, <2>4 DEF Grows
  <2> HIDE DEF at, len
  <2> QED BY <2>5, <2>6, <2>7 DEF LaneOf, E
<1>13. Emitted(p, levels, M, lanes)  BY <1>11, <1>12 DEF Emitted
<1>14. M = 0 => lanes = NoLanes  BY <1>9, <1>11 DEF first
<1> QED BY <1>1, <1>11, <1>13, <1>14 DEF first
------------------------------------------------------------------------------
(* Barriers *)

IsBarrier(e) == e.kind = "barrier"

\* Of the parts of a list, all but the first begin with a barrier and none has
\* another.
Fenced(M, part, len) ==
  \A h \in 1 .. M : /\ \A q \in 1 .. len[h] : IsBarrier(part[h][q]) <=> h # 1 /\ q = 1
                    /\ h # 1 => len[h] >= 1

\* Position x is in part m, behind its barrier, or at the end of the part.
Within(at, m, x) == at[m - 1] <= x /\ (m # 1 => at[m - 1] + 1 <= x) /\ x <= at[m]

\* So many barriers are before the end of part m as parts precede it.
LEMMA BarrierCount ==
  ASSUME NEW E, NEW M \in Nat, NEW o, NEW part, NEW at, NEW len, Grows(E, M, o, part, at, len),
         Fenced(M, part, len), NEW m \in 1 .. M, NEW x \in Nat, Within(at, m, x)
  PROVE  Barriers(o[M], x) = m - 1
<1> SUFFICES ASSUME at[m - 1] <= x, m # 1 => at[m - 1] + 1 <= x, x <= at[m]
             PROVE  Barriers(o[M], x) = m - 1
  BY DEF Within
<1> DEFINE S == {q \in 1 .. x : o[M][q].kind = "barrier"}
           f == [h \in 2 .. m |-> at[h - 1] + 1]
<1>1. at \in [0 .. M -> Nat] /\ len \in [1 .. M -> Nat] /\ \A k \in 1 .. M : at[k] = at[k - 1] + len[k]
  <2> HIDE DEF S, f
  <2>1. at \in [0 .. M -> Nat] /\ len \in [1 .. M -> Nat]  BY Lengths
  <2>2. ASSUME NEW k \in 1 .. M PROVE at[k] = at[k - 1] + len[k]  BY Lengths
  <2> QED BY <2>1, <2>2
<1>2. \A g, h \in 1 .. M : g < h => at[g - 1] + len[g] <= at[h - 1]  BY PartsInOrder
<1>3. Laid(M, M, o, part, at, len)
  <2>1. M \in 0 .. M  OBVIOUS
  <2> QED BY <2>1, Appended
<1>4. ASSUME NEW h \in 2 .. m
      PROVE  h \in 1 .. M /\ h # 1 /\ h - 1 \in 0 .. M /\ at[h - 1] \in Nat /\ len[h] >= 1 /\ 1 \in 1 .. len[h]
  <2>1. h \in 1 .. M /\ h # 1 /\ h - 1 \in 0 .. M  OBVIOUS
  <2>2. at[h - 1] \in Nat /\ len[h] \in Nat /\ len[h] >= 1  BY <1>1, <2>1 DEF Fenced
  <2>3. PICK n \in Nat : n = len[h] /\ n >= 1  BY <2>2
  <2>4. 1 \in 1 .. n  BY <2>3
  <2> QED BY <2>1, <2>2, <2>3, <2>4
<1>5. ASSUME NEW h \in 2 .. m PROVE f[h] \in S
  <2>1. PICK a \in Nat : a = at[h - 1]  BY <1>4
  <2>2. f[h] = a + 1  BY <2>1
  <2>3. o[M][a + 1] = part[h][1] /\ IsBarrier(part[h][1])  BY <1>3, <1>4, <2>1 DEF Laid, Fenced
  <2>4. a + 1 <= x
    <3>1. CASE h = m  BY <1>4, <2>1, <3>1
    <3>2. CASE h # m
      <4>1. h < m  BY <3>2
      <4>2. PICK n \in Nat : n = len[h] /\ n >= 1  BY <1>1, <1>4
      <4>3. m - 1 \in 0 .. M  OBVIOUS
      <4>4. PICK b \in Nat : b = at[m - 1]  BY <1>1, <4>3
      <4>5. a + n <= b /\ b <= x  BY <1>2, <1>4, <2>1, <4>1, <4>2, <4>4
      <4> QED BY <4>2, <4>5
    <3> QED BY <3>1, <3>2
  <2>5. a + 1 \in 1 .. x  BY <2>4
  <2> HIDE DEF f
  <2> QED BY <2>2, <2>3, <2>5 DEF IsBarrier
<1>6. ASSUME NEW g \in 2 .. m, NEW h \in 2 .. m, g < h PROVE f[g] < f[h]
  <2>1. PICK a \in Nat, b \in Nat, n \in Nat : a = at[g - 1] /\ b = at[h - 1] /\ n = len[g] /\ n >= 1
    BY <1>1, <1>4
  <2>2. a + n <= b  BY <1>2, <1>4, <1>6, <2>1
  <2>3. f[g] = a + 1 /\ f[h] = b + 1  BY <2>1
  <2> HIDE DEF f
  <2> QED BY <2>1, <2>2, <2>3
<1>7. ASSUME NEW q \in S PROVE \E h \in 2 .. m : f[h] = q
  <2>1. PICK y \in 1 .. x : y = q /\ IsBarrier(o[M][y])  BY DEF IsBarrier
  <2>2. PICK c \in Nat : c = at[m]  BY <1>1
  <2>3. PICK d \in Nat : d = at[M]
    <3>1. M \in 0 .. M  OBVIOUS
    <3> QED BY <1>1, <3>1
  <2>4. c <= d
    <3>1. at[m - 1] + len[m] <= at[M]  BY <1>3 DEF Laid
    <3> QED BY <1>1, <2>2, <2>3, <3>1
  <2>5. x <= c  BY <2>2
  <2>6. y \in 1 .. d  BY <2>4, <2>5
  <2>7. PICK i \in 1 .. M : \E r \in 1 .. len[i] : y = at[i - 1] + r  BY <1>3, <2>3, <2>6 DEF Laid
  <2>8. PICK r \in 1 .. len[i] : y = at[i - 1] + r  BY <2>7
  <2>9. IsBarrier(part[i][r])  BY <1>3, <2>1, <2>8 DEF Laid
  <2>10. i # 1 /\ r = 1  BY <2>9 DEF Fenced
  <2>11. PICK a \in Nat : a = at[i - 1]
    <3>1. i - 1 \in 0 .. M  OBVIOUS
    <3> QED BY <1>1, <3>1
  <2>12. i <= m
    <3>1. CASE m < i
      <4>1. at[m - 1] + len[m] <= at[i - 1]  BY <1>2, <3>1
      <4>2. c <= a  BY <1>1, <2>2, <2>11, <4>1
      <4>3. y = a + 1  BY <2>8, <2>10, <2>11
      <4> HIDE DEF S, f
      <4> QED BY <2>5, <4>2, <4>3
    <3> QED BY <3>1
  <2>13. i \in 2 .. m  BY <2>10, <2>12
  <2>14. f[i] = a + 1 /\ y = a + 1  BY <2>8, <2>10, <2>11, <2>13
  <2> QED BY <2>1, <2>13, <2>14
<1> HIDE DEF f
<1>8. f \in Bijection(2 .. m, S)
  <2>0. f = [h \in 2 .. m |-> f[h]]  BY DEF f
  <2>1. f \in [2 .. m -> S]
    <3> HIDE DEF S
    <3> QED BY <2>0, <1>5
  <2>2. \A g, h \in 2 .. m : f[g] = f[h] => g = h
    <3> SUFFICES ASSUME NEW g \in 2 .. m, NEW h \in 2 .. m, f[g] = f[h] PROVE g = h  OBVIOUS
    <3>1. f[g] \in Nat /\ f[h] \in Nat  BY <1>5
    <3>2. ~(g < h) /\ ~(h < g)
      <4> HIDE DEF S
      <4> QED BY <1>6, <3>1
    <3>3. g \in Int /\ h \in Int  OBVIOUS
    <3> HIDE DEF S
    <3> QED BY <3>2, <3>3
  <2> HIDE DEF S
  <2> QED BY <2>1, <2>2, <1>7 DEF Bijection, Injection, Surjection, IsInjective
<1>9. IsFiniteSet(2 .. m) /\ Cardinality(2 .. m) = m - 1
  <2>1. IsFiniteSet(2 .. m) /\ Cardinality(2 .. m) = IF 2 > m THEN 0 ELSE m - 2 + 1
    <3>1. 2 \in Int /\ m \in Int  OBVIOUS
    <3> QED BY <3>1, FS_Interval
  <2> QED BY <2>1
<1>10. Cardinality(S) = m - 1
  <2> HIDE DEF S
  <2> QED BY <1>8, <1>9, FS_Bijection DEF ExistsBijection
<1> QED BY <1>10 DEF Barriers, S

\* The part of level m, of instructions in D, is out behind d barriers.
PartOK(D, m, out, part, d) ==
  /\ Len(out) \in Nat /\ Len(part) = d + Len(out)
  /\ \A q \in 1 .. Len(out) : d + q \in 1 .. Len(part) /\ part[d + q] = out[q]
  /\ \A q \in 1 .. Len(out) : out[q] \in TileEntries(D)
  /\ \A q \in 1 .. Len(part) : (m # 1 /\ q = 1 /\ part[q] = Barrier)
                               \/ \E r \in 1 .. Len(out) : q = d + r
  /\ m # 1 => part[1] = Barrier

\* A part is the level's entries, with a barrier in front but for the first.
LEMMA PartLength ==
  ASSUME NEW p, Straight(p), NEW levels, NEW M \in Nat, Phased(p, Work(p), levels, M),
         NEW m \in 1 .. M, NEW l \in LaneIds,
         NEW out, out = Out(p, levels, m)[l], NEW part, part = Part(p, levels, m, l),
         NEW d, d = (IF m = 1 THEN 0 ELSE 1)
  PROVE  PartOK(Members(levels, m), m, out, part, d)
<1> USE DEF PartOK
<1> DEFINE E == Entries(p)
           T == TileEntries(Members(levels, m))
<1>1. out \in Seq(T) /\ out \in Seq(E)  BY PartIs
<1> HIDE DEF E, T
<1>2. PICK n \in Nat : n = Len(out)  BY <1>1, LenProperties
<1>3. \A q \in 1 .. n : out[q] \in T  BY <1>1, <1>2, ElementOfSeq
<1>4. CASE m = 1
  <2>1. part = out /\ d = 0  BY <1>4 DEF Part
  <2>2. \A q \in 1 .. n : 0 + q = q  OBVIOUS
  <2>3. 0 + n = n  OBVIOUS
  <2> QED BY <1>2, <1>3, <1>4, <2>1, <2>2, <2>3 DEF T
<1>5. CASE m # 1
  <2>1. part = <<Barrier>> \o out /\ d = 1  BY <1>5 DEF Part
  <2>2. <<Barrier>> \in Seq(E) /\ Len(<<Barrier>>) = 1 /\ <<Barrier>>[1] = Barrier
    <3>1. Barrier \in E  BY DEF E, Entries
    <3> QED BY <3>1
  <2>3. /\ Len(part) = 1 + n
        /\ \A q \in 1 .. 1 + n : part[q] = IF q <= 1 THEN <<Barrier>>[q] ELSE out[q - 1]
    <3>1. PICK b \in Seq(E) : b = <<Barrier>> /\ Len(b) = 1  BY <2>2
    <3>2. Len(b \o out) = Len(b) + Len(out)
          /\ \A q \in 1 .. Len(b) + Len(out) : (b \o out)[q] = IF q <= Len(b) THEN b[q] ELSE out[q - Len(b)]
      BY <1>1, ConcatProperties
    <3> QED BY <1>2, <2>1, <3>1, <3>2
  <2>4. part[1] = Barrier
    <3>1. 1 \in 1 .. 1 + n /\ 1 <= 1  OBVIOUS
    <3> QED BY <2>2, <2>3, <3>1
  <2>5. \A q \in 1 .. n : 1 + q \in 1 .. 1 + n /\ part[1 + q] = out[q]
    <3>1. \A q \in 1 .. n : 1 + q \in 1 .. 1 + n /\ ~(1 + q <= 1) /\ (1 + q) - 1 = q  OBVIOUS
    <3> QED BY <2>3, <3>1
  <2>6. \A q \in 1 .. 1 + n : q = 1 \/ \E r \in 1 .. n : q = 1 + r
    <3> SUFFICES ASSUME NEW q \in 1 .. 1 + n, q # 1 PROVE \E r \in 1 .. n : q = 1 + r  OBVIOUS
    <3>1. q - 1 \in 1 .. n /\ q = 1 + (q - 1)  OBVIOUS
    <3> QED BY <3>1
  <2> QED BY <1>2, <1>3, <1>5, <2>1, <2>3, <2>4, <2>5, <2>6 DEF T
<1> QED BY <1>4, <1>5

\* Where the levels' own entries are in lane l's stream s, and that they have
\* one barrier before them for each earlier level.
LaneOK(p, levels, M, l, s, base) ==
  /\ \A m \in 1 .. M : \A q \in 1 .. Len(Out(p, levels, m)[l]) :
       /\ base[m] + q \in 1 .. Len(s)
       /\ s[base[m] + q] = Out(p, levels, m)[l][q]
       /\ Barriers(s, base[m] + q) = m - 1
  /\ \A x \in 1 .. Len(s) : s[x].kind = "tile" =>
       \E m \in 1 .. M : \E q \in 1 .. Len(Out(p, levels, m)[l]) : x = base[m] + q
  /\ M # 0 => Barriers(s, Len(s)) = M - 1

\* In a lane, the entries of level m are behind m - 1 barriers.
LEMMA LaneSpots ==
  ASSUME NEW p, Straight(p), NEW levels, NEW M \in Nat, Phased(p, Work(p), levels, M),
         NEW l \in LaneIds, NEW s, NEW o, NEW part, NEW at, NEW len,
         LaneOf(p, levels, M, l, s, o, part, at, len)
  PROVE  \E base : base \in [1 .. M -> Nat] /\ LaneOK(p, levels, M, l, s, base)
<1> DEFINE E == Entries(p)
           out(m) == Out(p, levels, m)[l]
           d(m) == IF m = 1 THEN 0 ELSE 1
           base == [m \in 1 .. M |-> at[m - 1] + d(m)]
<1>1. /\ Grows(E, M, o, part, at, len) /\ o[M] = s
      /\ \A m \in 1 .. M : part[m] = Part(p, levels, m, l)
  BY DEF LaneOf
<1> HIDE DEF E
<1>2. at \in [0 .. M -> Nat] /\ len \in [1 .. M -> Nat]  BY <1>1, Lengths
<1>3. \A m \in 1 .. M : at[m] = at[m - 1] + len[m]  BY <1>1, Lengths
<1>4. Laid(M, M, o, part, at, len) /\ at[M] = Len(s)
  <2>1. M \in 0 .. M  OBVIOUS
  <2> QED BY <1>1, <2>1, Appended DEF Grows
<1>5. \A m \in 1 .. M : len[m] = Len(part[m])  BY <1>1 DEF Grows
<1>6. ASSUME NEW m \in 1 .. M
      PROVE  /\ Len(out(m)) \in Nat /\ len[m] = d(m) + Len(out(m))
             /\ \A q \in 1 .. Len(out(m)) : d(m) + q \in 1 .. len[m] /\ part[m][d(m) + q] = out(m)[q]
             /\ \A q \in 1 .. Len(out(m)) : out(m)[q] \in TileEntries(Members(levels, m))
             /\ \A q \in 1 .. len[m] : (m # 1 /\ q = 1 /\ part[m][q] = Barrier)
                                       \/ \E r \in 1 .. Len(out(m)) : q = d(m) + r
             /\ m # 1 => part[m][1] = Barrier
  <2>1. part[m] = Part(p, levels, m, l) /\ len[m] = Len(part[m])  BY <1>1, <1>5
  <2>2. PICK a, b, c : a = out(m) /\ b = part[m] /\ c = d(m)  OBVIOUS
  <2>3. PartOK(Members(levels, m), m, a, b, c)  BY <2>1, <2>2, PartLength
  <2> HIDE DEF out, d
  <2> QED BY <2>1, <2>2, <2>3 DEF PartOK
<1>7. \A m \in 1 .. M : \A e \in TileEntries(Members(levels, m)) : ~IsBarrier(e)
  BY DEF TileEntries, TileEntry, IsBarrier
<1> HIDE DEF out
<1>8. Fenced(M, part, len)
  <2> SUFFICES ASSUME NEW h \in 1 .. M
               PROVE  /\ \A q \in 1 .. len[h] : IsBarrier(part[h][q]) <=> h # 1 /\ q = 1
                      /\ h # 1 => len[h] >= 1
    BY DEF Fenced
  <2>1. PICK n \in Nat : n = Len(out(h)) /\ len[h] = d(h) + n  BY <1>6
  <2>2. ASSUME NEW q \in 1 .. len[h] PROVE IsBarrier(part[h][q]) <=> h # 1 /\ q = 1
    <3>1. CASE h # 1 /\ q = 1
      <4>1. part[h][q] = Barrier  BY <1>6, <3>1
      <4> QED BY <3>1, <4>1 DEF IsBarrier, Barrier
    <3>2. CASE ~(h # 1 /\ q = 1)
      <4>1. PICK r \in 1 .. Len(out(h)) : q = d(h) + r  BY <1>6, <3>2
      <4>2. part[h][q] \in TileEntries(Members(levels, h))  BY <1>6, <4>1
      <4> QED BY <1>7, <3>2, <4>2
    <3> QED BY <3>1, <3>2
  <2>3. h # 1 => len[h] >= 1  BY <2>1
  <2> QED BY <2>2, <2>3
<1>9. ASSUME NEW m \in 1 .. M, NEW q \in 1 .. Len(out(m))
      PROVE  /\ base[m] + q \in 1 .. Len(s)
             /\ s[base[m] + q] = out(m)[q]
             /\ Barriers(s, base[m] + q) = m - 1
  <2>0. m - 1 \in 0 .. M  OBVIOUS
  <2>1. PICK a \in Nat, n \in Nat, c \in 0 .. 1 : a = at[m - 1] /\ n = Len(out(m)) /\ c = d(m)
    BY <1>2, <1>6, <2>0
  <2>2. base[m] = a + c  BY <2>1
  <2>3. c + q \in 1 .. len[m] /\ part[m][c + q] = out(m)[q] /\ len[m] = c + n  BY <1>6, <2>1
  <2>4. a + (c + q) \in 1 .. Len(s) /\ s[a + (c + q)] = out(m)[q]
    BY <1>1, <1>4, <2>1, <2>3 DEF Laid
  <2>10. q \in 1 .. n  BY <2>1
  <2>5. (a + c) + q = a + (c + q)
    <3> HIDE DEF base, d
    <3> QED BY <2>10
  <2>6. m # 1 => c = 1  BY <2>1
  <2>7. PICK b \in Nat : b = at[m] /\ b = a + (c + n)  BY <1>2, <1>3, <2>1, <2>3
  <2>8. PICK x \in Nat : x = a + (c + q) /\ a <= x /\ (m # 1 => a + 1 <= x) /\ x <= b
    <3>1. q \in 1 .. n  BY <2>1
    <3> QED BY <2>6, <2>7, <3>1
  <2> HIDE DEF base, d
  <2>11. Within(at, m, x)  BY <2>1, <2>7, <2>8 DEF Within
  <2>12. Grows(E, M, o, part, at, len)  BY <1>1
  <2>9. Barriers(o[M], x) = m - 1  BY <1>8, <2>11, <2>12, BarrierCount
  <2> QED BY <1>1, <2>2, <2>4, <2>5, <2>8, <2>9
<1>10. ASSUME NEW x \in 1 .. Len(s), s[x].kind = "tile"
       PROVE  \E m \in 1 .. M : \E q \in 1 .. Len(out(m)) : x = base[m] + q
  <2>1. PICK m \in 1 .. M : \E r \in 1 .. len[m] : x = at[m - 1] + r  BY <1>4 DEF Laid
  <2>2. PICK r \in 1 .. len[m] : x = at[m - 1] + r  BY <2>1
  <2>3. s[x] = part[m][r]  BY <1>1, <1>4, <2>2 DEF Laid
  <2>4. part[m][r] # Barrier  BY <1>10, <2>3 DEF Barrier
  <2>5. PICK q \in 1 .. Len(out(m)) : r = d(m) + q  BY <1>6, <2>4
  <2>6. PICK a \in Nat, c \in 0 .. 1 : a = at[m - 1] /\ c = d(m)
    <3>1. m - 1 \in 0 .. M  OBVIOUS
    <3>2. d(m) \in 0 .. 1  OBVIOUS
    <3>3. at[m - 1] \in Nat
      <4> HIDE DEF base, d
      <4> QED BY <1>2, <3>1
    <3> HIDE DEF base, d
    <3> QED BY <3>2, <3>3
  <2>7. base[m] = a + c /\ q \in Nat
    <3>1. Len(out(m)) \in Nat  BY <1>6
    <3> QED BY <2>6, <3>1
  <2>8. x = a + (c + q)  BY <2>2, <2>5, <2>6
  <2> HIDE DEF base, d
  <2>9. x = (a + c) + q  BY <2>6, <2>7, <2>8
  <2> QED BY <2>7, <2>9
<1>11. ASSUME M # 0 PROVE Barriers(s, Len(s)) = M - 1
  <2>1. M \in 1 .. M /\ M - 1 \in 0 .. M /\ M \in 0 .. M  BY <1>11
  <2>2. PICK a \in Nat, b \in Nat, n \in Nat : a = at[M - 1] /\ b = at[M] /\ n = len[M]  BY <1>2, <2>1
  <2>3. b = a + n  BY <1>3, <2>1, <2>2
  <2>4. M # 1 => n >= 1  BY <1>8, <2>1, <2>2 DEF Fenced
  <2>5. a <= b /\ (M # 1 => a + 1 <= b) /\ b <= b  BY <2>3, <2>4
  <2> HIDE DEF base, d
  <2>7. Within(at, M, b)  BY <2>2, <2>5 DEF Within
  <2>8. Grows(E, M, o, part, at, len)  BY <1>1
  <2>6. Barriers(o[M], b) = M - 1  BY <1>8, <2>1, <2>7, <2>8, BarrierCount
  <2> QED BY <1>1, <1>4, <2>2, <2>6
<1>12. base \in [1 .. M -> Nat]
  <2>1. \A m \in 1 .. M : m - 1 \in 0 .. M /\ d(m) \in Nat  OBVIOUS
  <2>2. \A m \in 1 .. M : at[m - 1] + d(m) \in Nat
    <3> HIDE DEF d
    <3> QED BY <1>2, <2>1
  <2> HIDE DEF d
  <2> QED BY <2>2
<1> HIDE DEF base
<1>13. LaneOK(p, levels, M, l, s, base)  BY <1>9, <1>10, <1>11 DEF LaneOK, out
<1> QED BY <1>12, <1>13
------------------------------------------------------------------------------
(* Schedules *)

LevelSet(p, level, m) == {i \in Work(p) : level[i] = m}

\* The lanes S run the program p in M levels, with a barrier between them.
Scheduled(p, S, M, level) ==
  /\ S \in [LaneIds -> Seq(Entries(p))]
  /\ level \in [Work(p) -> 1 .. M]
  /\ \A m \in 1 .. M : Free(p, LevelSet(p, level, m))
  /\ \A i, k \in Work(p) : i < k => level[i] <= level[k]
  /\ \A i \in Work(p) : \A t \in 0 .. NTiles(p[i]) - 1 : \E l, x : RunAt(S, l, x, i, t)
  /\ \A l, x : \A i \in Work(p) : \A t \in Nat :
       RunAt(S, l, x, i, t) => Barriers(S[l], x) = level[i] - 1
  /\ \A l, x, m, y : \A i, k \in Work(p) : \A t \in Nat :
       /\ RunAt(S, l, x, i, t) /\ RunAt(S, m, y, k, t) /\ level[i] = level[k]
       /\ Joined(p, LevelSet(p, level, level[i]), i, k)
       => InOrder(l, x, i, m, y, k)
  /\ \A l, m \in LaneIds : Barriers(S[l], Len(S[l])) = Barriers(S[m], Len(S[m]))

Bases(p, levels, M, lanes, base) ==
  \A l \in LaneIds : base[l] \in [1 .. M -> Nat] /\ LaneOK(p, levels, M, l, lanes[l], base[l])

\* What a stream runs is what one of its levels runs, and the other way round.
LEMMA FromLevel ==
  ASSUME NEW p, Straight(p), NEW levels, NEW M \in Nat, Phased(p, Work(p), levels, M),
         NEW lanes, NEW base, Bases(p, levels, M, lanes, base),
         NEW l, NEW x, NEW i, NEW t, RunAt(lanes, l, x, i, t)
  PROVE  \E m \in 1 .. M : \E q \in Nat :
           /\ x = base[l][m] + q /\ RunAt(Out(p, levels, m), l, q, i, t)
           /\ i \in Members(levels, m) /\ Barriers(lanes[l], x) = m - 1
<1>1. l \in LaneIds /\ x \in 1 .. Len(lanes[l]) /\ Runs(lanes[l][x], i, t)  BY DEF RunAt
<1>2. LaneOK(p, levels, M, l, lanes[l], base[l])  BY <1>1 DEF Bases
<1>3. lanes[l][x].kind = "tile"  BY <1>1 DEF Runs
<1>4. PICK m \in 1 .. M : \E q \in 1 .. Len(Out(p, levels, m)[l]) : x = base[l][m] + q
  BY <1>1, <1>2, <1>3 DEF LaneOK
<1>5. PICK q \in 1 .. Len(Out(p, levels, m)[l]) : x = base[l][m] + q  BY <1>4
<1>6. lanes[l][x] = Out(p, levels, m)[l][q] /\ Barriers(lanes[l], x) = m - 1
  BY <1>2, <1>5 DEF LaneOK
<1>7. RunAt(Out(p, levels, m), l, q, i, t)  BY <1>1, <1>6 DEF RunAt
<1>8. i \in Members(levels, m) /\ q \in Nat
  <2>1. PICK s \in Seq(TileEntries(Members(levels, m))) : s = Out(p, levels, m)[l]  BY <1>1, PartIs
  <2>2. Len(s) \in Nat  BY LenProperties
  <2>3. PICK n \in Nat : n = Len(s)  BY <2>2
  <2>4. q \in 1 .. n  BY <2>1, <2>3
  <2>5. s[q] \in TileEntries(Members(levels, m))  BY <2>3, <2>4, ElementOfSeq
  <2>6. Runs(s[q], i, t)  BY <1>1, <1>6, <2>1
  <2>7. i \in Members(levels, m)  BY <2>5, <2>6 DEF TileEntries, TileEntry, Runs
  <2> QED BY <2>4, <2>7
<1> QED BY <1>5, <1>6, <1>7, <1>8

\* What a level runs is in the stream.
LEMMA ToStream ==
  ASSUME NEW p, NEW levels, NEW M \in Nat, NEW lanes, NEW base, Bases(p, levels, M, lanes, base),
         NEW m \in 1 .. M, NEW l, NEW q, NEW i, NEW t, RunAt(Out(p, levels, m), l, q, i, t)
  PROVE  RunAt(lanes, l, base[l][m] + q, i, t)
<1>1. l \in LaneIds /\ q \in 1 .. Len(Out(p, levels, m)[l]) /\ Runs(Out(p, levels, m)[l][q], i, t)
  BY DEF RunAt
<1>2. LaneOK(p, levels, M, l, lanes[l], base[l])  BY <1>1 DEF Bases
<1> QED BY <1>1, <1>2 DEF LaneOK, RunAt

\* The lanes after the last level schedule the program.
LEMMA EmittedScheduled ==
  ASSUME NEW p, Straight(p), NEW levels, NEW M \in Nat, Phased(p, Work(p), levels, M),
         NEW lanes, Emitted(p, levels, M, lanes), M = 0 => lanes = NoLanes
  PROVE  \E level : Scheduled(p, lanes, M, level)
<1> DEFINE W == Work(p)
           In(m) == Members(levels, m)
           level == [i \in W |-> CHOOSE m \in 1 .. M : i \in In(m)]
           Base(l, b) == b \in [1 .. M -> Nat] /\ LaneOK(p, levels, M, l, lanes[l], b)
           base == [l \in LaneIds |-> CHOOSE b : Base(l, b)]
<1>1. Bases(p, levels, M, lanes, base)
  <2>1. ASSUME NEW l \in LaneIds PROVE \E b : Base(l, b)
    <3>1. PICK o, part, at, len : LaneOf(p, levels, M, l, lanes[l], o, part, at, len)  BY DEF Emitted
    <3> QED BY <3>1, LaneSpots
  <2>2. \A l \in LaneIds : base[l] = CHOOSE b : Base(l, b)  OBVIOUS
  <2>3. \A l \in LaneIds : Base(l, base[l])
    <3> HIDE DEF Base, base
    <3> QED BY <2>1, <2>2
  <2> HIDE DEF base
  <2> QED BY <2>3 DEF Bases
<1> HIDE DEF base
<1>2. W \in SUBSET Nat /\ W \subseteq 1 .. Len(p)  BY WorkIs
<1>3. \A m \in 1 .. M : In(m) \subseteq W /\ Free(p, In(m)) /\ PackOK(p, In(m), Out(p, levels, m))
  BY LevelPacked
<1>4. /\ \A i \in W : \E m \in 1 .. M : i \in In(m)
      /\ \A g, h \in 1 .. M : g < h => \A i \in In(g), k \in In(h) : i < k
  BY DEF Phased
<1> HIDE DEF W, In
<1>5. \A i \in W : level[i] \in 1 .. M /\ i \in In(level[i])
  <2> SUFFICES ASSUME NEW i \in W PROVE level[i] \in 1 .. M /\ i \in In(level[i])  OBVIOUS
  <2>1. level[i] = CHOOSE m \in 1 .. M : i \in In(m)  OBVIOUS
  <2> QED BY <2>1, <1>4
<1>6. level \in [W -> 1 .. M]  BY <1>5
<1> HIDE DEF level
<1>7. ASSUME NEW g \in 1 .. M, NEW h \in 1 .. M, NEW i \in W, i \in In(g), i \in In(h) PROVE g = h
  <2>1. ~(i < i)
    <3>1. i \in Nat  BY <1>2
    <3> QED BY <3>1
  <2>2. ~(g < h) /\ ~(h < g)  BY <1>4, <1>7, <2>1
  <2> QED BY <2>2
<1>8. \A m \in 1 .. M : LevelSet(p, level, m) = In(m)
  <2> SUFFICES ASSUME NEW m \in 1 .. M PROVE LevelSet(p, level, m) = In(m)  OBVIOUS
  <2>2. LevelSet(p, level, m) = {i \in W : level[i] = m}  BY DEF LevelSet, W
  <2> QED BY <2>2, <1>3, <1>5, <1>7
<1>9. \A m \in 1 .. M : Free(p, LevelSet(p, level, m))  BY <1>3, <1>8
<1>10. ASSUME NEW i \in W, NEW k \in W, i < k PROVE level[i] <= level[k]
  <2>1. PICK a \in 1 .. M, b \in 1 .. M : a = level[i] /\ b = level[k] /\ i \in In(a) /\ k \in In(b)
    BY <1>5
  <2>2. b < a => k < i  BY <1>4, <2>1
  <2>3. i \in Nat /\ k \in Nat  BY <1>2
  <2>4. ~(b < a)  BY <2>2, <2>3, <1>10
  <2> QED BY <2>1, <2>4
<1>11. ASSUME NEW i \in W, NEW t \in 0 .. NTiles(p[i]) - 1 PROVE \E l, x : RunAt(lanes, l, x, i, t)
  <2>1. PICK m \in 1 .. M : i \in In(m)  BY <1>4
  <2>2. PICK l, q : RunAt(Out(p, levels, m), l, q, i, t)  BY <1>3, <2>1 DEF PackOK
  <2>3. RunAt(lanes, l, base[l][m] + q, i, t)  BY <1>1, <2>2, ToStream
  <2> QED BY <2>3
<1>12. ASSUME NEW l, NEW x, NEW i \in W, NEW t \in Nat, RunAt(lanes, l, x, i, t)
       PROVE  \E q \in Nat : /\ x = base[l][level[i]] + q
                             /\ RunAt(Out(p, levels, level[i]), l, q, i, t)
                             /\ Barriers(lanes[l], x) = level[i] - 1
  <2>1. PICK m \in 1 .. M : \E q \in Nat :
           /\ x = base[l][m] + q /\ RunAt(Out(p, levels, m), l, q, i, t)
           /\ i \in In(m) /\ Barriers(lanes[l], x) = m - 1
    BY <1>1, <1>12, FromLevel DEF In
  <2>2. m = level[i]  BY <1>5, <1>7, <2>1
  <2> QED BY <2>1, <2>2
<1>13. ASSUME NEW l, NEW x, NEW m, NEW y, NEW i \in W, NEW k \in W, NEW t \in Nat,
              RunAt(lanes, l, x, i, t), RunAt(lanes, m, y, k, t), level[i] = level[k],
              Joined(p, LevelSet(p, level, level[i]), i, k)
       PROVE  InOrder(l, x, i, m, y, k)
  <2>1. PICK g \in 1 .. M : g = level[i] /\ g = level[k] /\ i \in In(g) /\ k \in In(g)  BY <1>5, <1>13
  <2>2. PICK q \in Nat : x = base[l][g] + q /\ RunAt(Out(p, levels, g), l, q, i, t)
    BY <1>12, <1>13, <2>1
  <2>3. PICK r \in Nat : y = base[m][g] + r /\ RunAt(Out(p, levels, g), m, r, k, t)
    BY <1>12, <1>13, <2>1
  <2>4. Joined(p, In(g), i, k)  BY <1>8, <1>13, <2>1
  <2>5. InOrder(l, q, i, m, r, k)  BY <1>3, <2>1, <2>2, <2>3, <2>4 DEF PackOK
  <2>6. l \in LaneIds  BY <1>13 DEF RunAt
  <2>7. PICK b \in Nat : b = base[l][g]  BY <1>1, <2>6 DEF Bases
  <2>8. x = b + q /\ (l = m => y = b + r)  BY <2>2, <2>3, <2>7
  <2>9. l = m /\ (i = k => q = r) /\ (i < k => q < r)  BY <2>5 DEF InOrder
  <2>10. i = k => x = y  BY <2>8, <2>9
  <2>11. q < r => x < y
    <3>1. q < r => b + q < b + r  OBVIOUS
    <3> QED BY <3>1, <2>8, <2>9
  <2> QED BY <2>9, <2>10, <2>11 DEF InOrder
<1>14. ASSUME NEW l \in LaneIds, NEW m \in LaneIds
       PROVE  Barriers(lanes[l], Len(lanes[l])) = Barriers(lanes[m], Len(lanes[m]))
  <2>1. CASE M = 0  BY <2>1 DEF NoLanes
  <2>2. CASE M # 0  BY <1>1, <2>2 DEF Bases, LaneOK
  <2> QED BY <2>1, <2>2
<1>15. \A l, x : \A i \in W : \A t \in Nat : RunAt(lanes, l, x, i, t) => Barriers(lanes[l], x) = level[i] - 1
  BY <1>12
<1>16. lanes \in [LaneIds -> Seq(Entries(p))]  BY DEF Emitted
<1>17. Scheduled(p, lanes, M, level)
  BY <1>6, <1>9, <1>10, <1>11, <1>13, <1>14, <1>15, <1>16 DEF Scheduled, W
<1> QED BY <1>17

\* A straight program has no region jobs: its root is all there is.
LEMMA NothingQueued ==
  ASSUME NEW p, Len(p) \in Nat, NEW root, root.queue = <<>>
  PROVE  DrainQueue(p, root).streams = root.lanes
<1> DEFINE N == Len(p)
           Serve(st) ==
             IF st.queue = <<>> THEN st
             ELSE ScheduleRegion(p, [st EXCEPT !.queue = Tail(@)], Head(st.queue))
           Is(f) == f = [k \in 0 .. N |-> IF k = 0 THEN root ELSE Serve(f[k - 1])]
           h == CHOOSE f : Is(f)
<1>1. DrainQueue(p, root).streams = h[N].lanes  BY DEF DrainQueue
<1>2. Serve(root) = root  OBVIOUS
<1> HIDE DEF Serve
<1>3. Is([k \in 0 .. N |-> root])
  <2> DEFINE f == [k \in 0 .. N |-> root]
  <2>1. \A k \in 0 .. N : k = 0 \/ k - 1 \in 0 .. N  OBVIOUS
  <2>2. \A k \in 0 .. N : root = IF k = 0 THEN root ELSE Serve(f[k - 1])  BY <1>2, <2>1
  <2> QED BY <2>2
<1>4. Is(h)
  <2>1. \E g : Is(g)  BY <1>3
  <2> HIDE DEF Is
  <2> QED BY <2>1
<1> HIDE DEF h, N
<1>5. N \in Nat  BY DEF N
<1>6. h[0] = root /\ \A k \in 1 .. N : h[k] = Serve(h[k - 1])
  <2>1. \A k \in 0 .. N : h[k] = IF k = 0 THEN root ELSE Serve(h[k - 1])  BY <1>4
  <2>2. 0 \in 0 .. N /\ \A k \in 1 .. N : k \in 0 .. N /\ k # 0  BY <1>5
  <2> QED BY <2>1, <2>2
<1> DEFINE T == {k \in 0 .. N : h[k] = root}
<1>7. 0 \in T  BY <1>5, <1>6
<1>8. \A k \in 1 .. N : k - 1 \in T => k \in T  BY <1>2, <1>6
<1>9. \A k \in 0 .. N : k \in T
  <2> HIDE DEF T
  <2> QED BY <1>5, <1>7, <1>8, Upto
<1>10. h[N] = root
  <2>1. N \in T  BY <1>5, <1>9
  <2> QED BY <2>1
<1> QED BY <1>1, <1>10

\* A schedule of empty lanes is one of no work, and as good with a barrier each.
LEMMA EmptyScheduled ==
  ASSUME NEW p, Straight(p), NEW M, NEW level, NEW S, Scheduled(p, S, M, level),
         \A l \in LaneIds : S[l] = <<>>
  PROVE  Scheduled(p, [l \in LaneIds |-> <<Barrier>>], M, level)
<1>1. \A l, x, i, t : ~RunAt(S, l, x, i, t)
  <2> SUFFICES ASSUME NEW l, NEW x, NEW i, NEW t, RunAt(S, l, x, i, t) PROVE FALSE  OBVIOUS
  <2>1. x \in 1 .. Len(<<>>)  BY DEF RunAt
  <2>2. 1 .. Len(<<>>) = {}  OBVIOUS
  <2> QED BY <2>1, <2>2
<1>2. Work(p) = {}
  <2> SUFFICES ASSUME NEW i \in Work(p) PROVE FALSE  OBVIOUS
  <2>1. p[i].n \in Nat  BY DEF Straight, Plain, Work
  <2>2. NTiles(p[i]) \in Nat \ {0}  BY <2>1, TilesCounted
  <2>3. 0 \in 0 .. NTiles(p[i]) - 1  BY <2>2
  <2> QED BY <1>1, <2>3 DEF Scheduled
<1> DEFINE B == [l \in LaneIds |-> <<Barrier>>]
<1>3. \A l, m \in LaneIds : Barriers(B[l], Len(B[l])) = Barriers(B[m], Len(B[m]))  OBVIOUS
<1>6. B \in [LaneIds -> Seq(Entries(p))]
  <2>1. Barrier \in Entries(p)  BY DEF Entries
  <2> HIDE DEF B
  <2>2. <<Barrier>> \in Seq(Entries(p))  BY <2>1
  <2> QED BY <2>2 DEF B
<1> HIDE DEF B
<1>4. /\ level \in [Work(p) -> 1 .. M]
      /\ \A m \in 1 .. M : Free(p, LevelSet(p, level, m))
  BY DEF Scheduled
<1>5. Scheduled(p, B, M, level)  BY <1>2, <1>3, <1>4, <1>6 DEF Scheduled
<1> QED BY <1>5 DEF B

\* schedule_program on a straight program.
LEMMA StreamsScheduled ==
  ASSUME NEW p, Straight(p)
  PROVE  \E M, level : Scheduled(p, StreamsOf(p), M, level)
<1> DEFINE levels == BuildLevels(p, Indices(SubList(1, Len(p))))
           first == [lanes |-> NoLanes, queue |-> <<>>]
<1>1. Len(p) \in Nat /\ \A i \in 1 .. Len(p) : ~IsRegion(p[i])  BY WorkIs
<1>2. PICK M \in Nat : Phased(p, Work(p), levels, M) /\ Len(levels) = M
  <2> HIDE DEF levels
  <2> QED BY <1>1, LevelsBuilt DEF levels
<1>3. ScheduleRoot(p, Len(p)) = NeverEmpty(EmitLevels(p, first, levels))
  BY DEF ScheduleRoot, ScheduleRange, NoLanes
<1> HIDE DEF levels
<1>4. PICK lanes : /\ Emitted(p, levels, M, lanes) /\ (M = 0 => lanes = NoLanes)
                   /\ EmitLevels(p, first, levels) = [lanes |-> lanes, queue |-> <<>>]
  BY <1>2, LevelsEmitted
<1> HIDE DEF first
<1>5. PICK level : Scheduled(p, lanes, M, level)  BY <1>2, <1>4, EmittedScheduled
<1> DEFINE root == ScheduleRoot(p, Len(p))
           B == [l \in LaneIds |-> <<Barrier>>]
<1>6. root.queue = <<>> /\ (root.lanes = lanes \/ (root.lanes = B /\ \A l \in LaneIds : lanes[l] = <<>>))
  <2>1. root = NeverEmpty([lanes |-> lanes, queue |-> <<>>])  BY <1>3, <1>4
  <2> HIDE DEF root
  <2> QED BY <2>1 DEF NeverEmpty
<1>7. StreamsOf(p) = DrainQueue(p, root).streams  BY DEF StreamsOf, ScheduleProgram
<1> HIDE DEF root
<1>8. StreamsOf(p) = root.lanes  BY <1>1, <1>6, <1>7, NothingQueued
<1>9. CASE root.lanes = lanes  BY <1>5, <1>8, <1>9
<1>10. CASE root.lanes = B /\ \A l \in LaneIds : lanes[l] = <<>>
  BY <1>5, <1>8, <1>10, EmptyScheduled
<1> QED BY <1>6, <1>9, <1>10
------------------------------------------------------------------------------
(* The theorems *)

StreamsInv == seg \in Seq(Catalogue) /\ streams = StreamsOf(seg)

\* The programs the lowering emits here are straight.
LEMMA CatalogueIsStraight ==
  ASSUME NEW p \in Seq(Catalogue) PROVE Straight(p)
<1>1. Len(p) \in Nat /\ \A i \in 1 .. Len(p) : p[i] \in Catalogue  BY LenProperties, ElementOfSeq
<1> QED BY <1>1, CatalogueStraight DEF Straight, Plain

\* The streams are always those of the program as it stands.
THEOREM StreamsCurrent == LSpec => []StreamsInv
<1>1. LInit => StreamsInv  BY DEF LInit, StreamsInv
<1>2. StreamsInv /\ [LNext]_allVars => StreamsInv'
  <2> SUFFICES ASSUME StreamsInv, [LNext]_allVars PROVE StreamsInv'  OBVIOUS
  <2>1. CASE \E ins \in Catalogue : Emit(ins)
    <3>1. PICK ins \in Catalogue : Emit(ins)  BY <2>1
    <3>2. seg' \in Seq(Catalogue)  BY <3>1, AppendProperties DEF StreamsInv, Emit
    <3> QED BY <3>1, <3>2 DEF StreamsInv, Emit
  <2>2. CASE SplitNext
    <3>1. seg' = seg /\ streams' = streams  BY <2>2 DEF SplitNext, Extend, Cut
    <3> QED BY <3>1 DEF StreamsInv
  <2>3. CASE UNCHANGED allVars  BY <2>3 DEF allVars, vars, StreamsInv
  <2> QED BY <2>1, <2>2, <2>3 DEF LNext
<1> QED BY <1>1, <1>2, PTL DEF LSpec

\* Some levels schedule the program in the streams.
Current == \E M, level : Straight(seg) /\ Scheduled(seg, streams, M, level)

\* Hence they schedule it.
LEMMA InvCurrent == StreamsInv => Current
<1> SUFFICES ASSUME StreamsInv PROVE Current  OBVIOUS
<1>1. Straight(seg)  BY CatalogueIsStraight DEF StreamsInv
<1>2. PICK M, level : Scheduled(seg, StreamsOf(seg), M, level)  BY <1>1, StreamsScheduled
<1> QED BY <1>1, <1>2 DEF Current, StreamsInv

\* The places of a tile are the spots that run it.
LEMMA PlacesAre ==
  ASSUME NEW M, NEW level, Scheduled(seg, streams, M, level), NEW i, NEW t, NEW x
  PROVE  /\ x \in Places(i, t) => x = <<x[1], x[2]>> /\ RunAt(streams, x[1], x[2], i, t)
         /\ \A l, q : RunAt(streams, l, q, i, t) => <<l, q>> \in Places(i, t)
<1>1. \A l \in LaneIds : DOMAIN streams[l] = 1 .. Len(streams[l])
  <2> SUFFICES ASSUME NEW l \in LaneIds PROVE DOMAIN streams[l] = 1 .. Len(streams[l])  OBVIOUS
  <2>1. streams[l] \in Seq(Entries(seg))  BY DEF Scheduled
  <2> QED BY <2>1, LenProperties
<1>2. Places(i, t) = UNION {{<<l, pos>> : pos \in {q \in DOMAIN streams[l] : Runs(streams[l][q], i, t)}} : l \in LaneIds}
  BY DEF Places
<1>3. ASSUME x \in Places(i, t) PROVE x = <<x[1], x[2]>> /\ RunAt(streams, x[1], x[2], i, t)
  <2>1. PICK l \in LaneIds : x \in {<<l, pos>> : pos \in {q \in DOMAIN streams[l] : Runs(streams[l][q], i, t)}}
    BY <1>2, <1>3
  <2>2. PICK pos \in DOMAIN streams[l] : x = <<l, pos>> /\ Runs(streams[l][pos], i, t)  BY <2>1
  <2> QED BY <2>2, <1>1 DEF RunAt
<1>4. ASSUME NEW l, NEW q, RunAt(streams, l, q, i, t) PROVE <<l, q>> \in Places(i, t)
  <2>1. l \in LaneIds /\ q \in DOMAIN streams[l] /\ Runs(streams[l][q], i, t)  BY <1>1, <1>4 DEF RunAt
  <2>2. <<l, q>> \in {<<l, pos>> : pos \in {r \in DOMAIN streams[l] : Runs(streams[l][r], i, t)}}  BY <2>1
  <2> QED BY <1>2, <2>1, <2>2
<1> QED BY <1>3, <1>4

\* The tiles of an instruction are numbered from 0.
LEMMA TileNat == ASSUME NEW i \in Steps, Straight(seg), NEW t \in Tiles(i)
  PROVE i \in Work(seg) /\ t \in Nat /\ t \in 0 .. NTiles(seg[i]) - 1
<1>1. i \in Work(seg) /\ i \in 1 .. Len(seg)  BY DEF Steps, Work, prog
<1>2. seg[i].n \in Nat  BY <1>1 DEF Straight, Plain
<1>3. NTiles(seg[i]) \in Nat \ {0}  BY <1>2, TilesCounted
<1>4. t \in 0 .. NTiles(seg[i]) - 1  BY DEF Tiles, prog
<1> QED BY <1>1, <1>3, <1>4

\* A schedule runs every tile once.
LEMMA CurrentCovers == Current => TilesCovered
<1> SUFFICES ASSUME Current, NEW i \in Steps, NEW t \in Tiles(i) PROVE Cardinality(Places(i, t)) = 1
  BY DEF TilesCovered
<1>1. PICK M, level : Straight(seg) /\ Scheduled(seg, streams, M, level)  BY DEF Current
<1>2. i \in Work(seg) /\ t \in Nat /\ t \in 0 .. NTiles(seg[i]) - 1  BY <1>1, TileNat
<1>3. PICK l, q : RunAt(streams, l, q, i, t)  BY <1>1, <1>2 DEF Scheduled
<1>4. <<l, q>> \in Places(i, t)  BY <1>1, <1>3, PlacesAre
<1>5. ASSUME NEW x \in Places(i, t) PROVE x = <<l, q>>
  <2>1. x = <<x[1], x[2]>> /\ RunAt(streams, x[1], x[2], i, t)  BY <1>1, PlacesAre
  <2>2. Joined(seg, LevelSet(seg, level, level[i]), i, i)  BY DEF Joined
  <2>3. InOrder(x[1], x[2], i, l, q, i)  BY <1>1, <1>2, <1>3, <2>1, <2>2 DEF Scheduled
  <2> QED BY <2>1, <2>3 DEF InOrder
<1>6. Places(i, t) = {<<l, q>>}  BY <1>4, <1>5
<1> QED BY <1>6, FS_Singleton

\* A schedule has the same barriers in every lane.
LEMMA CurrentUniform == Current => UniformBarriers
<1> SUFFICES ASSUME Current PROVE UniformBarriers  OBVIOUS
<1>1. PICK M, level : Scheduled(seg, streams, M, level)  BY DEF Current
<1> QED BY <1>1 DEF Scheduled, UniformBarriers, Phase

\* A schedule keeps the order of conflicting tiles: levels follow the program, and
\* what conflicts within a level is joined in a chain.
LEMMA CurrentOrdered == Current /\ Unviewed(seg) => ConflictsOrdered
<1> SUFFICES ASSUME Current, Unviewed(seg), NEW i \in Steps, NEW k \in Steps, i < k,
                    NEW s \in Tiles(i), NEW t \in Tiles(k), Clash(seg[i], s, seg[k], t),
                    NEW x \in Places(i, s), NEW y \in Places(k, t)
             PROVE  Ordered(x, y)
  BY DEF ConflictsOrdered, prog
<1>1. PICK M, level : Straight(seg) /\ Scheduled(seg, streams, M, level)  BY DEF Current
<1>2. i \in Work(seg) /\ s \in Nat  BY <1>1, TileNat
<1>3. k \in Work(seg) /\ t \in Nat  BY <1>1, TileNat
<1>4. RunAt(streams, x[1], x[2], i, s)  BY <1>1, PlacesAre
<1>5. RunAt(streams, y[1], y[2], k, t)  BY <1>1, PlacesAre
<1>6. level[i] \in 1 .. M /\ level[k] \in 1 .. M /\ level[i] <= level[k]
  BY <1>1, <1>2, <1>3 DEF Scheduled
<1>7. Phase(x[1], x[2]) = level[i] - 1 /\ Phase(y[1], y[2]) = level[k] - 1
  BY <1>1, <1>2, <1>3, <1>4, <1>5 DEF Scheduled, Phase
<1>8. CASE level[i] = level[k]
  <2> DEFINE D == LevelSet(seg, level, level[i])
  <2>1. i \in D /\ k \in D  BY <1>2, <1>3, <1>8 DEF LevelSet
  <2>2. Free(seg, D)  BY <1>1, <1>6 DEF Scheduled
  <2> HIDE DEF D
  <2>3. s = t /\ Joined(seg, D, i, k)  BY <1>1, <2>1, <2>2, ClashJoined DEF Straight
  <2>4. InOrder(x[1], x[2], i, y[1], y[2], k)
    BY <1>1, <1>2, <1>3, <1>4, <1>5, <1>8, <2>3 DEF Scheduled, D
  <2> QED BY <2>4 DEF InOrder, Ordered
<1>9. CASE level[i] # level[k]
  <2>1. level[i] - 1 < level[k] - 1  BY <1>6, <1>9
  <2> QED BY <1>7, <2>1 DEF Ordered
<1> QED BY <1>8, <1>9

\* For every program, number of lanes and costs, the streams of schedule_program run
\* each tile of each instruction exactly once.
THEOREM EveryTileOnce == LSpec => []TilesCovered
<1>1. StreamsInv => TilesCovered  BY InvCurrent, CurrentCovers
<1> QED BY <1>1, StreamsCurrent, PTL

\* Every lane of every schedule has the same number of barriers: none waits for one
\* that another does not reach.
THEOREM BarriersUniform == LSpec => []UniformBarriers
<1>1. StreamsInv => UniformBarriers  BY InvCurrent, CurrentUniform
<1> QED BY <1>1, StreamsCurrent, PTL

\* Tiles that touch a common element keep the program's order on every interleaving
\* of the lanes, if no elementwise instruction reads through a folded gather (the
\* case the ViewedOperands run refutes).
THEOREM ProgramOrder ==
  ASSUME \A ins \in Catalogue : IsMap(ins) => ~ins.view
  PROVE  LSpec => []ConflictsOrdered
<1>1. StreamsInv => Unviewed(seg)
  <2> SUFFICES ASSUME StreamsInv PROVE Unviewed(seg)  OBVIOUS
  <2>1. \A i \in 1 .. Len(seg) : seg[i] \in Catalogue  BY ElementOfSeq DEF StreamsInv
  <2> QED BY <2>1 DEF Unviewed
<1>2. StreamsInv => ConflictsOrdered  BY <1>1, InvCurrent, CurrentOrdered
<1> QED BY <1>2, StreamsCurrent, PTL
------------------------------------------------------------------------------
(* The splitter, while the program grows *)

\* Where phases start does not depend on what comes later.
LEMMA StartsKept ==
  ASSUME NEW S, NEW p \in Seq(S), NEW ins \in S
  PROVE  \A k \in 1 .. Len(p) : PhaseStart(Append(p, ins))[k] = PhaseStart(p)[k]
<1> DEFINE n == Len(p)
           q == Append(p, ins)
           f == PhaseStart(p)
           g == PhaseStart(q)
           Next1(r, s, k) == IF \E i \in s .. k - 1 : Boundary(r[i], r[k]) THEN k ELSE s
           T == {k \in 0 .. n : k = 0 \/ (g[k] = f[k] /\ f[k] \in 1 .. k)}
<1>1. n \in Nat /\ Len(q) = n + 1 /\ \A i \in 1 .. n : q[i] = p[i]  BY AppendProperties, LenProperties
<1>2. \A k \in 1 .. n : f[k] = IF k = 1 THEN 1 ELSE Next1(p, f[k - 1], k)  BY <1>1, PhaseStartIs
<1>3. \A k \in 1 .. n : g[k] = IF k = 1 THEN 1 ELSE Next1(q, g[k - 1], k)
  <2>1. \A k \in 1 .. n : k \in 1 .. Len(q)  BY <1>1
  <2>2. Len(q) \in Nat  BY <1>1
  <2> HIDE DEF q, n
  <2> QED BY <2>1, <2>2, PhaseStartIs
<1> HIDE DEF n, q, f, g
<1>4. 0 \in T  BY <1>1
<1>5. ASSUME NEW k \in 1 .. n, k - 1 \in T PROVE k \in T
  <2>1. CASE k = 1  BY <1>1, <1>2, <1>3, <2>1
  <2>2. CASE k # 1
    <3>1. g[k - 1] = f[k - 1] /\ f[k - 1] \in 1 .. k - 1  BY <1>5, <2>2
    <3>2. PICK s \in 1 .. k - 1 : s = f[k - 1]  BY <3>1
    <3>3. \A i \in s .. k - 1 : q[i] = p[i]  BY <1>1, <3>2
    <3>4. q[k] = p[k]  BY <1>1
    <3>5. Next1(q, s, k) = Next1(p, s, k)  BY <3>3, <3>4
    <3>6. Next1(p, s, k) \in 1 .. k  BY <1>1, <3>2
    <3> HIDE DEF Next1
    <3>7. f[k] = Next1(p, s, k) /\ g[k] = Next1(q, s, k)  BY <1>2, <1>3, <2>2, <3>1, <3>2
    <3> QED BY <3>5, <3>6, <3>7
  <2> QED BY <2>1, <2>2
<1>6. \A k \in 0 .. n : k \in T
  <2> HIDE DEF T
  <2> QED BY <1>1, <1>4, <1>5, Upto
<1>7. \A k \in 1 .. n : k \in 0 .. n /\ k # 0  BY <1>1
<1> QED BY <1>6, <1>7 DEF n, q, f, g

SplitInv == seg \in Seq(Catalogue) /\ IInv /\ Follows

\* One more instruction to come disturbs nothing that was decided.
LEMMA EmitKeeps ==
  ASSUME SplitInv, NEW ins \in Catalogue, Emit(ins)
  PROVE  SplitInv'
<1> USE DEF SplitInv, IInv
<1>1. /\ seg \in Seq(Catalogue) /\ Len(seg) \in Nat /\ j \in 1 .. Len(seg) + 1 /\ j > Len(seg)
      /\ seg' = Append(seg, ins) /\ Len(seg) < MaxLen
      /\ UNCHANGED <<j, start, cuts, readers, writers>>
  BY LenProperties DEF TypeOK, Emit
<1>2. /\ seg' \in Seq(Catalogue) /\ Len(seg') = Len(seg) + 1
      /\ \A i \in 1 .. Len(seg) : seg'[i] = seg[i]
  BY <1>1, AppendProperties
<1>3. PICK n \in Nat : n = Len(seg) /\ j = n + 1  BY <1>1
<1>4. \A i \in 1 .. j - 1 : seg'[i] = seg[i]  BY <1>2, <1>3
<1>5. TypeOK'
  <2>1. seg' \in Programs  BY <1>1, ProgramsGrow DEF TypeOK
  <2>2. j' \in 1 .. Len(seg') + 1  BY <1>1, <1>2, <1>3
  <2> QED BY <1>1, <2>1, <2>2 DEF TypeOK
<1>6. start \in 1 .. j /\ cuts \subseteq 1 .. j /\ j \in Nat  BY <1>3 DEF TypeOK
<1>7. TablesExact'
  <2>1. \A i \in start .. j - 1 : seg'[i] = seg[i]  BY <1>4, <1>6
  <2> QED BY <1>1, <2>1 DEF TablesExact
<1>8. Separated'
  <2>1. \A k \in 1 .. j - 1 : \A i \in 1 .. k - 1 : i \in 1 .. j - 1  BY <1>6
  <2>2. \A k \in 1 .. j - 1 : \A i \in 1 .. k - 1 : Boundary(seg'[i], seg'[k]) => \E c \in cuts : i < c /\ c <= k
    BY <1>4, <2>1 DEF Separated
  <2> QED BY <1>1, <2>2 DEF Separated
<1>9. Justified'
  <2>1. \A c \in cuts \ {1} : c \in 1 .. j - 1
    <3>1. \A c \in cuts : c <= start /\ c \in 1 .. j  BY <1>6
    <3>2. j > 1 => start < j  BY DEF TypeOK
    <3> QED BY <3>1, <3>2, <1>6
  <2>2. \A c \in cuts \ {1} : \A i \in 1 .. c - 1 : i \in 1 .. j - 1  BY <1>6, <2>1
  <2>3. \A c \in cuts \ {1} : \E i \in 1 .. c - 1 :
           Boundary(seg'[i], seg'[c]) /\ \A d \in cuts : d <= i \/ d >= c
    BY <1>4, <2>1, <2>2 DEF Justified
  <2> QED BY <1>1, <2>3 DEF Justified
<1>10. \A k \in 1 .. j - 1 : PhaseStart(seg')[k] = PhaseStart(seg)[k]
  <2>1. \A k \in 1 .. n : PhaseStart(seg')[k] = PhaseStart(seg)[k]  BY <1>1, <1>3, StartsKept
  <2> QED BY <1>3, <2>1
<1>11. Follows'
  <2>1. j # 1 => j - 1 \in 1 .. j - 1  BY <1>6
  <2>2. start' = IF j' = 1 THEN 1 ELSE PhaseStart(seg')[j' - 1]
    BY <1>1, <1>10, <2>1 DEF Follows
  <2>3. cuts' = {1} \cup {PhaseStart(seg')[k] : k \in 1 .. j' - 1}  BY <1>1, <1>10 DEF Follows
  <2> QED BY <2>2, <2>3 DEF Follows
<1>12. \A c \in cuts' : c <= start'  BY <1>1
<1> QED BY <1>2, <1>5, <1>7, <1>8, <1>9, <1>11, <1>12

\* The splitter's invariant holds however the program grows while it is split.
THEOREM SplitInductive == LSpec => []SplitInv
<1>1. LInit => SplitInv
  <2> SUFFICES ASSUME LInit PROVE SplitInv  OBVIOUS
  <2>1. Init /\ seg = <<>>  BY DEF LInit
  <2>2. IInv  BY <2>1, InitInv
  <2>3. Follows
    <3>1. 1 .. j - 1 = {}  BY <2>1 DEF Init
    <3> QED BY <2>1, <3>1 DEF Init, Follows
  <2> QED BY <2>1, <2>2, <2>3 DEF SplitInv
<1>2. SplitInv /\ [LNext]_allVars => SplitInv'
  <2> SUFFICES ASSUME SplitInv, [LNext]_allVars PROVE SplitInv'  OBVIOUS
  <2>1. CASE \E ins \in Catalogue : Emit(ins)  BY <2>1, EmitKeeps
  <2>2. CASE SplitNext
    <3>1. Extend \/ Cut  BY <2>2 DEF SplitNext
    <3>2. IInv' /\ Follows'  BY <3>1, ExtendInv, CutInv, FollowsStep DEF SplitInv
    <3>3. seg' = seg  BY <3>1 DEF Extend, Cut
    <3> QED BY <3>2, <3>3 DEF SplitInv
  <2>3. CASE UNCHANGED allVars
    <3>1. UNCHANGED vars  BY <2>3 DEF allVars
    <3>2. IInv'
      BY <3>1 DEF vars, SplitInv, IInv, TypeOK, TablesExact, Separated, Justified, Boundary
    <3> QED BY <3>1, <3>2 DEF SplitInv, vars, Follows
  <2> QED BY <2>1, <2>2, <2>3 DEF LNext
<1> QED BY <1>1, <1>2, PTL DEF LSpec

\* Whatever the lowering emits and when, the barriers of _phases are where a
\* cross-lane dependency asks for one, and only there: those of the direct
\* definition.
THEOREM SplitAsDirect == LSpec => [](Separated /\ Justified /\ SameAsDirect)
<1>1. SplitInv => Separated /\ Justified /\ SameAsDirect  BY FollowsDirect DEF SplitInv, IInv
<1> QED BY <1>1, SplitInductive, PTL
=============================================================================
