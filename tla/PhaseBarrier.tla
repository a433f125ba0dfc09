---------------------------- MODULE PhaseBarrier ----------------------------
(***************************************************************************)
(* What the cross-work-group barrier of the megakernel promises.  A        *)
(* program is a fixed sequence of phases; every lane (one persistent       *)
(* work-group) runs its share of a phase, arrives at the barrier that ends *)
(* it and passes that barrier once every lane has arrived at it.           *)
(* SpinBarrier is the code's implementation and is shown to refine this.   *)
(***************************************************************************)
EXTENDS Naturals

CONSTANTS
  Lanes,       \* the lanes of one launch
  NBarriers    \* barriers in every lane's stream

VARIABLES
  arrived,     \* arrived[l]: barriers lane l has arrived at
  passed       \* passed[l]: barriers lane l has got past

vars == <<arrived, passed>>

Init ==
  /\ arrived = [l \in Lanes |-> 0]
  /\ passed  = [l \in Lanes |-> 0]

Arrive(l) ==
  /\ arrived[l] = passed[l]
  /\ arrived[l] < NBarriers
  /\ arrived' = [arrived EXCEPT ![l] = @ + 1]
  /\ UNCHANGED passed

Pass(l) ==
  /\ passed[l] < arrived[l]
  /\ \A m \in Lanes : arrived[m] >= arrived[l]
  /\ passed' = [passed EXCEPT ![l] = @ + 1]
  /\ UNCHANGED arrived

Next == \E l \in Lanes : Arrive(l) \/ Pass(l)

Spec == Init /\ [][Next]_vars

Fairness == \A l \in Lanes : WF_vars(Arrive(l)) /\ WF_vars(Pass(l))

FairSpec == Spec /\ Fairness
=============================================================================
