------------------------------ MODULE Discovery ------------------------------
(***************************************************************************)
(* vmo_discover (kernels/vm_common.cl): ProbeResidency launches vm2 with   *)
(* far more work-groups than the device can hold and reads d[2], the       *)
(* number of groups it saw resident at once.  The megakernel is later      *)
(* launched with at most that many lanes, so that its spin barrier cannot  *)
(* wait for a group the device has not started.                            *)
(*                                                                         *)
(* d[0] is a lock, d[1] the gate (1 = open), d[2] the count.  One process  *)
(* per work-group (its leader), one step per access to the three words.    *)
(***************************************************************************)
EXTENDS Naturals, FiniteSets

CONSTANTS
  Groups,      \* the work-groups of the probe launch
  Capacity,    \* work-groups the device keeps resident at once
  MaxIter,     \* bound of the leader's watch loop (50000000)
  StableGoal,  \* unchanged readings that end it early (100000)
  NoTicket     \* the initial value of t, 0xFFFFFFFF

ASSUME GroupsFinite     == IsFiniteSet(Groups) /\ Groups # {}
ASSUME CapacityPositive == Capacity \in Nat \ {0}
ASSUME LoopBounds       == MaxIter \in Nat /\ StableGoal \in Nat
ASSUME NoTicketApart    == NoTicket \notin Nat

VARIABLES
  pc,          \* where each group's leader is
  lock,        \* d[0]
  gate,        \* d[1]
  count,       \* d[2]
  ticket,      \* t
  watch        \* the watch loop's i, last and stable (ticket 0 only)

vars == <<pc, lock, gate, count, ticket, watch>>

Resident == {g \in Groups : pc[g] \notin {"queued", "exit"}}
Holders  == {g \in Groups : ticket[g] # NoTicket}

\* ProbeResidency's init[3] = {0, 1, 0}.
Init ==
  /\ pc     = [g \in Groups |-> "queued"]
  /\ lock   = 0
  /\ gate   = 1
  /\ count  = 0
  /\ ticket = [g \in Groups |-> NoTicket]
  /\ watch  = [i |-> 0, last |-> 1, stable |-> 0]

Goto(g, from, to) == pc[g] = from /\ pc' = [pc EXCEPT ![g] = to]

Admit(g) ==
  /\ Cardinality(Resident) < Capacity
  /\ Goto(g, "queued", "lock")
  /\ UNCHANGED <<lock, gate, count, ticket, watch>>

\* atomic_cmpxchg(&d[0], 0, 1) succeeds, on the way in or on the way out.
Acquire(g) ==
  /\ lock = 0
  /\ lock' = 1
  /\ \/ Goto(g, "lock", "check")
     \/ Goto(g, "relock", "close")
  /\ UNCHANGED <<gate, count, ticket, watch>>

Check_Ungated(g) ==
  /\ Goto(g, "check", "take")
  /\ UNCHANGED <<lock, gate, count, ticket, watch>>

Check(g) ==
  /\ Goto(g, "check", IF gate = 1 THEN "take" ELSE "unlock")
  /\ UNCHANGED <<lock, gate, count, ticket, watch>>

Take(g) ==
  /\ Goto(g, "take", "unlock")
  /\ ticket' = [ticket EXCEPT ![g] = count]
  /\ count' = count + 1
  /\ UNCHANGED <<lock, gate, watch>>

\* Release the lock: ticket 0 watches the count, the other holders keep their
\* slot until the gate closes, the rest return at once.
Unlock(g) ==
  /\ Goto(g, "unlock", IF ticket[g] = 0 THEN "watch"
                       ELSE IF ticket[g] = NoTicket THEN "exit" ELSE "hold")
  /\ lock' = 0
  /\ UNCHANGED <<gate, count, ticket, watch>>

Watching == watch.i < MaxIter /\ watch.stable < StableGoal

\* One turn of the watch loop.
Watch(g) ==
  /\ pc[g] = "watch"
  /\ Watching
  /\ watch' = [i      |-> watch.i + 1,
               last   |-> count,
               stable |-> IF count = watch.last THEN watch.stable + 1 ELSE 0]
  /\ UNCHANGED <<pc, lock, gate, count, ticket>>

StopWatching(g) ==
  /\ ~Watching
  /\ Goto(g, "watch", "relock")
  /\ UNCHANGED <<lock, gate, count, ticket, watch>>

Close_LeavesOpen(g) ==
  /\ Goto(g, "close", "reunlock")
  /\ UNCHANGED <<lock, gate, count, ticket, watch>>

Close(g) ==
  /\ Goto(g, "close", "reunlock")
  /\ gate' = 0
  /\ UNCHANGED <<lock, count, ticket, watch>>

Reunlock(g) ==
  /\ Goto(g, "reunlock", "exit")
  /\ lock' = 0
  /\ UNCHANGED <<gate, count, ticket, watch>>

Hold_NoWait(g) ==
  /\ Goto(g, "hold", "exit")
  /\ UNCHANGED <<lock, gate, count, ticket, watch>>

\* A holder's spin loop sees the gate closed.
Hold(g) ==
  /\ gate = 0
  /\ Goto(g, "hold", "exit")
  /\ UNCHANGED <<lock, gate, count, ticket, watch>>

GroupStep(g) ==
  \/ Acquire(g) \/ Check(g) \/ Take(g) \/ Unlock(g) \/ Watch(g)
  \/ StopWatching(g) \/ Close(g) \/ Reunlock(g) \/ Hold(g)

AllExited == \A g \in Groups : pc[g] = "exit"

Terminated == AllExited /\ UNCHANGED vars

Next == (\E g \in Groups : Admit(g) \/ GroupStep(g)) \/ Terminated

Spec == Init /\ [][Next]_vars
------------------------------------------------------------------------------
(* Properties *)

PCs == {"queued", "lock", "check", "take", "unlock", "watch", "relock",
        "close", "reunlock", "hold", "exit"}

TypeOK ==
  /\ pc \in [Groups -> PCs]
  /\ lock \in {0, 1}
  /\ gate \in {0, 1}
  /\ count \in Nat
  /\ ticket \in [Groups -> Nat \cup {NoTicket}]
  /\ watch \in [i : Nat, last : Nat, stable : Nat]

\* The measurement never promises more co-resident groups than the device
\* has: lanes sized by it all start before any of them has to finish.
CountWithinResidency == count <= Capacity

\* What makes it a measurement of SIMULTANEOUS residency: nobody who was
\* counted gives its slot back while others can still be counted (otherwise
\* the device backfills the slot and the count inflates).
HoldersStayResident == gate = 1 => Holders \subseteq Resident

\* Once the gate is closed the count is final, so the value the host reads is
\* the one ticket 0 saw settle.
CountFrozen == [][gate = 0 => count' = count]_vars

(* The inductive invariant behind CountWithinResidency (EngineSelectProofs) *)

Critical == {"check", "take", "unlock", "close", "reunlock"}

LockInv ==
  \A g \in Groups : pc[g] \in Critical =>
    /\ lock = 1
    /\ \A h \in Groups \ {g} : pc[h] \notin Critical

GateInv ==
  \A g \in Groups :
    /\ pc[g] = "take" => gate = 1
    /\ pc[g] = "reunlock" => gate = 0
    /\ pc[g] \in {"queued", "lock", "check", "take"} => ticket[g] = NoTicket

IInv ==
  /\ TypeOK
  /\ LockInv
  /\ GateInv
  /\ HoldersStayResident
  /\ Cardinality(Resident) <= Capacity
  /\ count = Cardinality(Holders)
  /\ CountWithinResidency
==============================================================================
