----------------------------- MODULE SpinBarrier -----------------------------
(***************************************************************************)
(* vmo_barrier (kernels/vm_common.cl), the spin barrier every lane of the  *)
(* vm2 megakernel calls, with the device's admission of work-groups.       *)
(*                                                                         *)
(* Only the leader work-item of a lane touches the barrier words, so one   *)
(* process per lane models it.  A step is one access to bar[0] or bar[1]:  *)
(*                                                                         *)
(*   Arrive  release fence                                                 *)
(*   Load    phase = load(bar[1])                                          *)
(*   Inc     atomic_inc(bar[0]), and the test for the last arrival         *)
(*   Reset   bar[0] = 0                   (last arrival)                   *)
(*   Flip    atomic_inc(bar[1])           (last arrival)                   *)
(*   Spin    the loop's load sees a value other than phase                 *)
(*   Leave   acquire fence, back to the interpreter                        *)
(*                                                                         *)
(* A work-group is admitted when a slot is free and keeps it until the     *)
(* kernel returns: nothing preempts it.                                    *)
(***************************************************************************)
EXTENDS Naturals, FiniteSets

CONSTANTS
  Lanes,       \* the work-groups of the launch (nlanes of them)
  NBarriers,   \* barriers in every lane's stream
  PhaseMod,    \* bar[1] is a uint: it counts modulo PhaseMod (2^32)
  Capacity     \* work-groups the device keeps resident at once

ASSUME LanesFinite      == IsFiniteSet(Lanes) /\ Lanes # {}
ASSUME NBarriersNat     == NBarriers \in Nat
ASSUME PhaseModTwo      == PhaseMod \in Nat /\ PhaseMod >= 2
ASSUME CapacityPositive == Capacity \in Nat \ {0}

VARIABLES
  pc,          \* where each lane's leader is
  arrivals,    \* bar[0]
  phase,       \* bar[1]
  myPhase,     \* the leader's private copy of bar[1]
  barrier_i,   \* barriers each lane has passed (vm2's barrier_i)
  round        \* history: phase flips since the launch

ctlVars == <<pc, arrivals, phase, myPhase, barrier_i, round>>

nlanes == Cardinality(Lanes)

\* Work-groups the device has started and not retired.
Resident == {l \in Lanes : pc[l] \notin {"queued", "done"}}

\* LaunchKernel zeroes bar before it enqueues the kernel.
Init ==
  /\ pc        = [l \in Lanes |-> "queued"]
  /\ arrivals  = 0
  /\ phase     = 0
  /\ myPhase   = [l \in Lanes |-> 0]
  /\ barrier_i = [l \in Lanes |-> 0]
  /\ round     = 0

Goto(l, from, to) == pc[l] = from /\ pc' = [pc EXCEPT ![l] = to]

\* The device starts a queued work-group when it has room for one more.
Admit(l) ==
  /\ Cardinality(Resident) < Capacity
  /\ Goto(l, "queued", "work")
  /\ UNCHANGED <<arrivals, phase, myPhase, barrier_i, round>>

\* The lane's tile entries of this phase are over and its stream goes on with
\* a barrier: join the group's work-items and release their stores.
Arrive(l) ==
  /\ barrier_i[l] < NBarriers
  /\ Goto(l, "work", "load")
  /\ UNCHANGED <<arrivals, phase, myPhase, barrier_i, round>>

Load(l) ==
  /\ Goto(l, "load", "inc")
  /\ myPhase' = [myPhase EXCEPT ![l] = phase]
  /\ UNCHANGED <<arrivals, phase, barrier_i, round>>

Inc_OffByOne(l) ==
  /\ Goto(l, "inc", IF arrivals = nlanes - 2 THEN "reset" ELSE "spin")
  /\ arrivals' = arrivals + 1
  /\ UNCHANGED <<phase, myPhase, barrier_i, round>>

Inc(l) ==
  /\ Goto(l, "inc", IF arrivals = nlanes - 1 THEN "reset" ELSE "spin")
  /\ arrivals' = arrivals + 1
  /\ UNCHANGED <<phase, myPhase, barrier_i, round>>

Reset_Missing(l) ==
  /\ Goto(l, "reset", "flip")
  /\ UNCHANGED <<arrivals, phase, myPhase, barrier_i, round>>

Reset(l) ==
  /\ Goto(l, "reset", "flip")
  /\ arrivals' = 0
  /\ UNCHANGED <<phase, myPhase, barrier_i, round>>

Flip_Lost(l) ==
  /\ Goto(l, "flip", "leave")
  /\ round' = round + 1
  /\ UNCHANGED <<arrivals, phase, myPhase, barrier_i>>

Flip(l) ==
  /\ Goto(l, "flip", "leave")
  /\ phase' = IF phase = PhaseMod - 1 THEN 0 ELSE phase + 1
  /\ round' = round + 1
  /\ UNCHANGED <<arrivals, myPhase, barrier_i>>

Spin_NoCompare(l) ==
  /\ Goto(l, "spin", "leave")
  /\ UNCHANGED <<arrivals, phase, myPhase, barrier_i, round>>

Spin(l) ==
  /\ phase # myPhase[l]
  /\ Goto(l, "spin", "leave")
  /\ UNCHANGED <<arrivals, phase, myPhase, barrier_i, round>>

Leave(l) ==
  /\ Goto(l, "leave", "work")
  /\ barrier_i' = [barrier_i EXCEPT ![l] = @ + 1]
  /\ UNCHANGED <<arrivals, phase, myPhase, round>>

\* The root stream is exhausted: the work-group returns and frees its slot.
Finish(l) ==
  /\ barrier_i[l] = NBarriers
  /\ Goto(l, "work", "done")
  /\ UNCHANGED <<arrivals, phase, myPhase, barrier_i, round>>

BarrierStep(l) ==
  \/ Arrive(l) \/ Load(l) \/ Inc(l) \/ Reset(l) \/ Flip(l) \/ Spin(l)
  \/ Leave(l)

LaneStep(l) == BarrierStep(l) \/ Finish(l)

AllDone == \A l \in Lanes : pc[l] = "done"

\* The launch is over: the queue's next command may run.
Terminated == AllDone /\ UNCHANGED ctlVars

Next == (\E l \in Lanes : Admit(l) \/ LaneStep(l)) \/ Terminated

Spec == Init /\ [][Next]_ctlVars

\* A resident work-group keeps running and a free slot is given away: the
\* device is an occupancy-bound machine.  Queued groups get no more than that.
Fairness ==
  /\ \A l \in Lanes : WF_ctlVars(LaneStep(l))
  /\ \A l \in Lanes : WF_ctlVars(Admit(l))

FairSpec == Spec /\ Fairness
------------------------------------------------------------------------------
(* Properties *)

PCs == {"queued", "work", "load", "inc", "reset", "flip", "spin", "leave", "done"}

TypeOK ==
  /\ pc \in [Lanes -> PCs]
  /\ arrivals \in Nat
  /\ phase \in 0 .. PhaseMod - 1
  /\ myPhase \in [Lanes -> 0 .. PhaseMod - 1]
  /\ barrier_i \in [Lanes -> 0 .. NBarriers]
  /\ round \in Nat

\* Past bar[0]'s increment of the current barrier.
HasArrived(l) == pc[l] \in {"spin", "reset", "flip", "leave"}

\* No lane gets past a barrier before every lane has arrived at it, however
\* the two barrier words are reused: a lane that has passed barrier k finds
\* every other lane at least at barrier k (vmo_barrier's whole contract, on
\* which every cross-lane read of the megakernel relies).
NoLaneAhead ==
  \A l, m \in Lanes :
    barrier_i[l] <= barrier_i[m] + (IF HasArrived(m) THEN 1 ELSE 0)

\* Nobody increments bar[0] between the last arrival's increment and its
\* reset: the reset never destroys an arrival at the next barrier.
ResetLosesNoArrival ==
  \A l \in Lanes : pc[l] = "reset" =>
    /\ arrivals = nlanes
    /\ \A m \in Lanes \ {l} : pc[m] = "spin" /\ barrier_i[m] = barrier_i[l]

\* A spinning lane's private phase is the current one or the one before: the
\* word cannot wrap around to the value a lane still waits to see change.
NoLostWakeup ==
  \A l \in Lanes : (pc[l] = "spin" /\ barrier_i[l] < round) => phase # myPhase[l]

\* Every lane of a launch that fits the device runs to its end: no lane spins
\* forever (docs/decisions.md #9 sizes the launch for exactly this).
Completes == (nlanes <= Capacity) => <>AllDone

\* How the code's state shows as the abstract one's: arriving is the increment
\* of bar[0], passing is the return to the interpreter.
arrived == [l \in Lanes |-> barrier_i[l] + (IF HasArrived(l) THEN 1 ELSE 0)]

PB == INSTANCE PhaseBarrier WITH passed <- barrier_i

\* vmo_barrier implements PhaseBarrier.
RefinesPhaseBarrier == PB!Spec

\* ... and on a device with room for the launch also its progress.
RefinesFairPhaseBarrier == PB!FairSpec

(* The inductive invariant behind them (BarrierProofs) *)

\* Where each lane is relative to the number of flips.
LaneInv(l) ==
  /\ pc[l] \in {"queued", "work", "load", "inc", "reset", "flip", "done"}
       => barrier_i[l] = round
  /\ pc[l] \in {"inc", "reset", "flip"} => myPhase[l] = phase
  /\ pc[l] = "spin" =>
       \/ barrier_i[l] = round     /\ myPhase[l] = phase
       \/ barrier_i[l] + 1 = round /\ myPhase[l] # phase
  /\ pc[l] = "leave" => barrier_i[l] + 1 = round
  /\ pc[l] \in {"load", "inc", "reset", "flip", "spin", "leave"}
       => barrier_i[l] < NBarriers

\* Lanes counted in bar[0] for the current barrier.
Waiting == {l \in Lanes : pc[l] \in {"spin", "reset"} /\ barrier_i[l] = round}

LastInv ==
  \A l \in Lanes : pc[l] \in {"reset", "flip"} =>
    \A m \in Lanes \ {l} : pc[m] = "spin" /\ barrier_i[m] = round

CountInv ==
  arrivals = IF \E l \in Lanes : pc[l] = "flip" THEN 0 ELSE Cardinality(Waiting)

\* bar[0] counts exactly the lanes waiting at the current barrier, which are
\* one flip behind nobody: the strengthening that makes the rest inductive.
IInv == TypeOK /\ (\A l \in Lanes : LaneInv(l)) /\ LastInv /\ CountInv
==============================================================================
