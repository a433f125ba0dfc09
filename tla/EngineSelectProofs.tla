------------------------- MODULE EngineSelectProofs -------------------------
(***************************************************************************)
(* The residency probe never over-counts, for every launch size, every     *)
(* capacity and every bound of the leader's watch loop; and the megakernel *)
(* is only chosen where its barrier is sound, for every device and every   *)
(* setting of the variables that OclRuntime::Create reads (apart from the  *)
(* lane count one can force).                                              *)
(***************************************************************************)
EXTENDS EngineSelect, FiniteSetTheorems, TLAPS
------------------------------------------------------------------------------
(* The probe *)

\* Sets of groups are finite, and a subset has no more members.
LEMMA GroupSets ==
  ASSUME NEW S, S \subseteq Groups, NEW T, T \subseteq S
  PROVE  /\ IsFiniteSet(S) /\ Cardinality(S) \in Nat
         /\ Cardinality(T) \in Nat /\ Cardinality(T) <= Cardinality(S)
<1>1. IsFiniteSet(S)
  BY GroupsFinite, FS_Subset
<1>2. IsFiniteSet(T) /\ Cardinality(T) <= Cardinality(S)
  BY <1>1, FS_Subset
<1> QED BY <1>1, <1>2, FS_CardinalityType

\* One more member adds one.
LEMMA OneMore ==
  ASSUME NEW S, S \subseteq Groups, NEW g \in Groups, g \notin S
  PROVE  Cardinality(S \cup {g}) = Cardinality(S) + 1
  BY GroupSets, FS_AddElement

LEMMA InitIInv == Init => IInv
<1> SUFFICES ASSUME Init PROVE IInv
  OBVIOUS
<1>1. Holders = {} /\ Resident = {}
  BY DEF Init, Holders, Resident
<1>2. Cardinality(Holders) = 0 /\ Cardinality(Resident) = 0
  BY <1>1, FS_EmptySet
<1>3. TypeOK
  BY LoopBounds DEF Init, TypeOK, PCs
<1> QED
  BY <1>1, <1>2, <1>3, CapacityPositive
  DEF Init, IInv, LockInv, GateInv, Critical, HoldersStayResident,
      CountWithinResidency

LEMMA StepTypeOK == IInv /\ [Next]_vars => TypeOK'
<1> SUFFICES ASSUME IInv, [Next]_vars PROVE TypeOK'
  OBVIOUS
<1> USE DEF TypeOK, PCs, Goto, IInv
<1>1. ASSUME NEW g \in Groups, Admit(g) PROVE TypeOK'
  BY <1>1 DEF Admit
<1>2. ASSUME NEW g \in Groups, Acquire(g) PROVE TypeOK'
  BY <1>2 DEF Acquire
<1>3. ASSUME NEW g \in Groups, Check(g) \/ Take(g) \/ Unlock(g) PROVE TypeOK'
  BY <1>3 DEF Check, Take, Unlock
<1>4. ASSUME NEW g \in Groups, Watch(g) PROVE TypeOK'
  BY <1>4 DEF Watch
<1>5. ASSUME NEW g \in Groups,
             StopWatching(g) \/ Close(g) \/ Reunlock(g) \/ Hold(g)
      PROVE TypeOK'
  BY <1>5 DEF StopWatching, Close, Reunlock, Hold
<1>6. CASE UNCHANGED vars
  BY <1>6 DEF vars
<1> QED
  BY <1>1, <1>2, <1>3, <1>4, <1>5, <1>6 DEF Next, GroupStep, Terminated

\* The lock excludes: at most one leader is between its atomic_cmpxchg and
\* its atomic_xchg, and the lock word says so.
LEMMA StepLockInv == IInv /\ [Next]_vars => LockInv'
<1> SUFFICES ASSUME IInv, [Next]_vars PROVE LockInv'
  OBVIOUS
<1> USE DEF TypeOK, Goto, IInv, LockInv, Critical
<1>1. ASSUME NEW g \in Groups, Admit(g) PROVE LockInv'
  BY <1>1 DEF Admit
<1>2. ASSUME NEW g \in Groups, Acquire(g) PROVE LockInv'
  BY <1>2 DEF Acquire
<1>3. ASSUME NEW g \in Groups, Check(g) \/ Take(g) \/ Unlock(g) PROVE LockInv'
  BY <1>3 DEF Check, Take, Unlock
<1>4. ASSUME NEW g \in Groups, Watch(g) \/ StopWatching(g) \/ Hold(g) PROVE LockInv'
  BY <1>4 DEF Watch, StopWatching, Hold
<1>5. ASSUME NEW g \in Groups, Close(g) \/ Reunlock(g) PROVE LockInv'
  BY <1>5 DEF Close, Reunlock
<1>6. CASE UNCHANGED vars
  BY <1>6 DEF vars
<1> QED
  BY <1>1, <1>2, <1>3, <1>4, <1>5, <1>6 DEF Next, GroupStep, Terminated

\* A leader about to count itself still has the gate open: the lock keeps the
\* closing leader out.
LEMMA StepGateInv == IInv /\ [Next]_vars => GateInv'
<1> SUFFICES ASSUME IInv, [Next]_vars PROVE GateInv'
  OBVIOUS
<1> USE DEF TypeOK, Goto, IInv, GateInv
<1>1. ASSUME NEW g \in Groups, Admit(g) \/ Acquire(g) PROVE GateInv'
  BY <1>1 DEF Admit, Acquire
<1>2. ASSUME NEW g \in Groups, Check(g) \/ Take(g) \/ Unlock(g) PROVE GateInv'
  BY <1>2 DEF Check, Take, Unlock
<1>3. ASSUME NEW g \in Groups, Watch(g) \/ StopWatching(g) \/ Hold(g) PROVE GateInv'
  BY <1>3 DEF Watch, StopWatching, Hold
<1>4. ASSUME NEW g \in Groups, Close(g) PROVE GateInv'
  BY <1>4 DEF Close, LockInv, Critical
<1>5. ASSUME NEW g \in Groups, Reunlock(g) PROVE GateInv'
  BY <1>5 DEF Reunlock
<1>6. CASE UNCHANGED vars
  BY <1>6 DEF vars
<1> QED
  BY <1>1, <1>2, <1>3, <1>4, <1>5, <1>6 DEF Next, GroupStep, Terminated

\* The device never keeps more groups than it has room for.
LEMMA StepResident == IInv /\ [Next]_vars => Cardinality(Resident') <= Capacity
<1> SUFFICES ASSUME IInv, [Next]_vars PROVE Cardinality(Resident') <= Capacity
  OBVIOUS
<1> USE DEF TypeOK, Goto, IInv, Resident
<1>0. Resident \subseteq Groups /\ Cardinality(Resident) \in Nat
  BY GroupSets
<1>1. ASSUME NEW g \in Groups, Admit(g) PROVE Cardinality(Resident') <= Capacity
  <2>1. Resident' = Resident \cup {g} /\ g \notin Resident
    BY <1>1 DEF Admit
  <2>2. Cardinality(Resident') = Cardinality(Resident) + 1
    BY <1>0, <2>1, OneMore
  <2> QED BY <1>0, <1>1, <2>2, CapacityPositive DEF Admit
<1>2. ASSUME Resident' \subseteq Resident PROVE Cardinality(Resident') <= Capacity
  <2>1. Cardinality(Resident') \in Nat /\ Cardinality(Resident') <= Cardinality(Resident)
    BY <1>0, <1>2, GroupSets
  <2> QED BY <1>0, <2>1, CapacityPositive
<1>3. ASSUME NEW g \in Groups, GroupStep(g) PROVE Resident' \subseteq Resident
  <2>1. CASE Acquire(g) \/ Check(g) \/ Take(g) \/ Unlock(g)
    BY <2>1 DEF Acquire, Check, Take, Unlock
  <2>2. CASE Watch(g) \/ StopWatching(g) \/ Close(g) \/ Reunlock(g) \/ Hold(g)
    BY <2>2 DEF Watch, StopWatching, Close, Reunlock, Hold
  <2> QED BY <1>3, <2>1, <2>2 DEF GroupStep
<1>4. CASE UNCHANGED vars
  BY <1>2, <1>4 DEF vars
<1> QED BY <1>1, <1>2, <1>3, <1>4 DEF Next, Terminated

\* A group that is counted stays resident until the gate is closed.
LEMMA StepHolders == IInv /\ [Next]_vars => HoldersStayResident'
<1> SUFFICES ASSUME IInv, [Next]_vars PROVE HoldersStayResident'
  OBVIOUS
<1> USE DEF TypeOK, Goto, IInv, HoldersStayResident, Holders, Resident
<1>1. ASSUME NEW g \in Groups, Admit(g) \/ Acquire(g) PROVE HoldersStayResident'
  BY <1>1 DEF Admit, Acquire
<1>2. ASSUME NEW g \in Groups, Check(g) \/ Take(g) PROVE HoldersStayResident'
  BY <1>2 DEF Check, Take
<1>3. ASSUME NEW g \in Groups, Unlock(g) PROVE HoldersStayResident'
  BY <1>3 DEF Unlock
<1>4. ASSUME NEW g \in Groups, Watch(g) \/ StopWatching(g) \/ Close(g)
      PROVE HoldersStayResident'
  BY <1>4 DEF Watch, StopWatching, Close
<1>5. ASSUME NEW g \in Groups, Reunlock(g) \/ Hold(g) PROVE HoldersStayResident'
  BY <1>5 DEF Reunlock, Hold, GateInv
<1>6. CASE UNCHANGED vars
  BY <1>6 DEF vars
<1> QED
  BY <1>1, <1>2, <1>3, <1>4, <1>5, <1>6 DEF Next, GroupStep, Terminated

\* d[2] counts exactly the groups that took a ticket.
LEMMA StepCount == IInv /\ [Next]_vars => count' = Cardinality(Holders')
<1> SUFFICES ASSUME IInv, [Next]_vars PROVE count' = Cardinality(Holders')
  OBVIOUS
<1> USE DEF TypeOK, Goto, IInv, Holders
<1>1. ASSUME NEW g \in Groups, Take(g) PROVE count' = Cardinality(Holders')
  <2>1. ticket[g] = NoTicket
    BY <1>1 DEF Take, GateInv
  <2>2. Holders' = Holders \cup {g} /\ g \notin Holders
    BY <1>1, <2>1, NoTicketApart DEF Take
  <2> QED BY <1>1, <2>2, OneMore DEF Take
<1>2. ASSUME UNCHANGED <<count, ticket>> PROVE count' = Cardinality(Holders')
  BY <1>2
<1> QED
  BY <1>1, <1>2 DEF Next, GroupStep, Terminated, vars, Admit, Acquire, Check,
     Unlock, Watch, StopWatching, Close, Reunlock, Hold

\* Nobody is counted who does not hold one of the Capacity slots.
LEMMA StepWithin == IInv /\ [Next]_vars => CountWithinResidency'
<1> SUFFICES ASSUME IInv, [Next]_vars PROVE CountWithinResidency'
  OBVIOUS
<1>1. ASSUME NEW g \in Groups, Take(g) PROVE CountWithinResidency'
  <2>1. gate' = 1
    BY <1>1 DEF Take, Goto, IInv, GateInv
  <2>2. Holders' \subseteq Resident' /\ Resident' \subseteq Groups
    BY <2>1, StepHolders DEF HoldersStayResident, Resident
  <2>3. /\ Cardinality(Holders') \in Nat /\ Cardinality(Resident') \in Nat
        /\ Cardinality(Holders') <= Cardinality(Resident')
    BY <2>2, GroupSets
  <2>4. Cardinality(Resident') <= Capacity /\ count' = Cardinality(Holders')
    BY StepResident, StepCount
  <2> QED BY <2>3, <2>4, CapacityPositive DEF CountWithinResidency
<1>2. ASSUME UNCHANGED count PROVE CountWithinResidency'
  BY <1>2 DEF IInv, CountWithinResidency
<1> QED
  BY <1>1, <1>2 DEF Next, GroupStep, Terminated, vars, Admit, Acquire, Check,
     Unlock, Watch, StopWatching, Close, Reunlock, Hold

\* The inductive invariant: mutual exclusion, an open gate for whoever is
\* about to count itself, and the count of the holders.
THEOREM Inductive == Spec => []IInv
<1>1. IInv /\ [Next]_vars => IInv'
  BY StepTypeOK, StepLockInv, StepGateInv, StepHolders, StepResident, StepCount,
     StepWithin DEF IInv
<1> QED BY <1>1, InitIInv, PTL DEF Spec

\* vmo_discover reports at most the residency of the device, for a launch of
\* any size: sizing the megakernel by the count (runtime.cc, Create) cannot
\* ask for a lane the device has no room for.
THEOREM NeverOvercounts == Spec => []CountWithinResidency
<1>1. IInv => CountWithinResidency
  BY DEF IInv
<1> QED BY <1>1, Inductive, PTL

\* While groups are still being counted, every group counted so far is
\* resident: the count is of simultaneous residents.
THEOREM MeasuresSimultaneousResidency == Spec => []HoldersStayResident
<1>1. IInv => HoldersStayResident
  BY DEF IInv
<1> QED BY <1>1, Inductive, PTL

\* The count is final once the gate is closed, so the host reads the value
\* that settled.
THEOREM FinalCount == Spec => CountFrozen
<1>1. IInv /\ [Next]_vars => [gate = 0 => count' = count]_vars
  <2> SUFFICES ASSUME IInv, [Next]_vars, gate = 0 PROVE count' = count
    OBVIOUS
  <2>1. ASSUME NEW g \in Groups, Take(g) PROVE FALSE
    BY <2>1 DEF Take, Goto, IInv, GateInv
  <2> QED
    BY <2>1 DEF Next, GroupStep, Terminated, vars, Admit, Acquire, Check,
       Unlock, Watch, StopWatching, Close, Reunlock, Hold
<1> QED BY <1>1, Inductive, PTL DEF Spec, CountFrozen
------------------------------------------------------------------------------
(* Creating a client *)

\* While a client is created the probe does only what Discovery says it does.
LEMMA ProbeIsDiscovery == [ENext]_<<vars, engineVars>> => [Next]_vars
<1> SUFFICES ASSUME [ENext]_<<vars, engineVars>> PROVE [Next]_vars
  OBVIOUS
<1>1. ASSUME NEW g \in Groups, ProbeStep(g) \/ ProbeAdmit(g) PROVE Next
  BY <1>1 DEF ProbeStep, ProbeAdmit, Next
<1>2. CASE SelectEngine \/ ReadCount \/ ProbeFails \/ SizeLanes
  BY <1>2 DEF SelectEngine, ReadCount, ProbeFails, SizeLanes
<1> QED BY <1>1, <1>2 DEF ENext

\* Creating a client implements the probe, so that what is proved of the probe
\* alone holds here too.
THEOREM ImplementsProbe == ESpec => Spec
<1>1. EInit => Init
  BY DEF EInit
<1> QED BY <1>1, ProbeIsDiscovery, PTL DEF ESpec, Spec

\* What has been settled at each stage.
Settled ==
  /\ measured_res \in 0 .. Capacity
  /\ stage = "select" => measured_res = 0
  /\ ~device.is_gpu => measured_res = 0 /\ stage # "probe"
  /\ stage \in {"probe", "size", "ready"} =>
       /\ engine \in {"auto", "host", "mega"}
       /\ engine = "host" \/ (engine = "auto" /\ NeedsHost)
            => host_dispatch /\ ~hybrid_forces_hd
       /\ engine = "mega" => device.has_device_fence
       /\ hybrid_forces_hd => ~NeedsHost
       /\ traced => host_dispatch
  /\ stage = "ready" =>
       /\ ngroups \in Nat /\ ngroups >= 1
       /\ measured_res > 0 /\ ~lanes_forced => ngroups <= measured_res

LEMMA InitSettled == EInit => Settled
  BY CapacityPositive DEF EInit, Settled

LEMMA StepSettled ==
  Settled /\ CountWithinResidency /\ TypeOK /\ [ENext]_<<vars, engineVars>> => Settled'
<1> SUFFICES ASSUME Settled, CountWithinResidency, TypeOK, [ENext]_<<vars, engineVars>>
             PROVE  Settled'
  OBVIOUS
<1> USE DEF Settled, NeedsHost
<1>1. CASE SelectEngine
  <2>0. PICK e \in {"auto", "host", "mega"}, mm_hybrid \in BOOLEAN, vm_trace \in BOOLEAN :
          LET asked == e = "host" \/ (e = "auto" /\ NeedsHost)
          IN /\ engine' = e
             /\ stage' = IF e = "mega" /\ ~device.has_device_fence THEN "refused"
                         ELSE IF device.is_gpu THEN "probe" ELSE "size"
             /\ hybrid_forces_hd' = (mm_hybrid /\ ~asked /\ ~NeedsHost)
             /\ host_dispatch' = (asked \/ mm_hybrid \/ vm_trace)
             /\ traced' = vm_trace
    BY <1>1, Zenon DEF SelectEngine
  <2>1. UNCHANGED <<device, measured_res>> /\ measured_res = 0
    BY <1>1 DEF SelectEngine
  <2>2. /\ stage' \in {"refused", "probe", "size"} /\ (~device.is_gpu => stage' # "probe")
        /\ (stage' # "refused" /\ e = "mega" => device.has_device_fence)
    BY <2>0
  <2>3. /\ e = "host" \/ (e = "auto" /\ NeedsHost) => host_dispatch' /\ ~hybrid_forces_hd'
        /\ hybrid_forces_hd' => ~NeedsHost
        /\ traced' => host_dispatch'
    BY <2>0, Zenon
  <2>4. NeedsHost' <=> NeedsHost
    BY <2>1
  <2> QED BY <2>0, <2>1, <2>2, <2>3, <2>4
<1>2. CASE ReadCount
  <2>1. measured_res' \in 0 .. Capacity
    BY <1>2, CapacityPositive DEF ReadCount, CountWithinResidency, TypeOK
  <2> QED BY <1>2, <2>1 DEF ReadCount
<1>3. CASE ProbeFails
  BY <1>3 DEF ProbeFails
<1>4. CASE SizeLanes
  <2>1. CASE ngroups' = Sized /\ UNCHANGED lanes_forced
    <3>1. Sized \in Nat /\ Sized >= 1 /\ (measured_res > 0 => Sized <= measured_res)
      BY <1>4, ComputeUnitsPositive, CapacityPositive DEF SizeLanes, Sized
    <3> QED BY <1>4, <2>1, <3>1 DEF SizeLanes
  <2>2. CASE \E n \in VmLanes : ngroups' = AtLeastOne(n) /\ lanes_forced' = TRUE
    <3>1. ngroups' \in Nat /\ ngroups' >= 1
      BY <2>2, VmLanesInt DEF AtLeastOne
    <3> QED BY <1>4, <2>2, <3>1 DEF SizeLanes
  <2> QED BY <1>4, <2>1, <2>2 DEF SizeLanes
<1>5. ASSUME NEW g \in Groups, ProbeStep(g) \/ ProbeAdmit(g) PROVE Settled'
  BY <1>5 DEF ProbeStep, ProbeAdmit, engineVars
<1>6. CASE UNCHANGED <<vars, engineVars>>
  BY <1>6 DEF engineVars
<1> QED BY <1>1, <1>2, <1>3, <1>4, <1>5, <1>6 DEF ENext

\* The probe's bound carries over to the lane count, and every way to the
\* megakernel leads past the tests for fences, for PJRT_OCL_ENGINE and for
\* tracing, the one that Load takes for a single program among them.
THEOREM MegakernelSound == ESpec => []MegakernelFits
<1>1. ESpec => []IInv
  BY ImplementsProbe, Inductive, PTL
<1>2. IInv => CountWithinResidency /\ TypeOK
  BY DEF IInv
<1>3. Settled => MegakernelFits
  <2> SUFFICES ASSUME Settled, stage = "ready"
               PROVE  /\ ngroups >= 1
                      /\ \A routable \in BOOLEAN : ~RunsOnHost(routable) =>
                           /\ device.has_device_fence
                           /\ engine # "host" /\ ~traced
                           /\ (measured_res > 0 /\ ~lanes_forced) => ngroups <= Capacity
    BY DEF MegakernelFits
  <2>1. ngroups >= 1 /\ ((measured_res > 0 /\ ~lanes_forced) => ngroups <= Capacity)
    BY CapacityPositive DEF Settled
  <2>2. ASSUME NEW routable \in BOOLEAN, ~RunsOnHost(routable)
        PROVE  device.has_device_fence /\ engine # "host" /\ ~traced
    BY <2>2 DEF Settled, NeedsHost, RunsOnHost
  <2> QED BY <2>1, <2>2
<1> QED BY <1>1, <1>2, <1>3, InitSettled, StepSettled, PTL DEF ESpec
=============================================================================
