---------------------------- MODULE BarrierFences ----------------------------
(***************************************************************************)
(* What the fences of vmo_barrier order: under OpenCL 2.0's own memory     *)
(* model, and on the GPU that docs/decisions.md #1 describes, whose        *)
(* work-groups have private caches over one coherent memory.               *)
(*                                                                         *)
(* A lane's stores of phase k are not atomic, so another lane may read     *)
(* them only if they HAPPEN BEFORE the read.  cur[l][m] = n says: the      *)
(* stores of lane m's first n phases happen before what lane l does next.  *)
(* The rules are those of fences around relaxed atomics:                   *)
(*   - a release fence fixes what the lane's later atomic writes publish;  *)
(*   - an atomic increment publishes that, and passes on what the word     *)
(*     already carried (it continues the release sequence);                *)
(*   - a plain store carries nothing and ends the release sequence;        *)
(*   - what a lane's atomics read becomes ordered before it only at its    *)
(*     next acquire fence.                                                 *)
(* atomic_inc is an OpenCL 1.x atomic: relaxed, device scope.              *)
(*                                                                         *)
(* The caches do their worst: a store stays private until the release      *)
(* fence writes it back, and a load may hit what the cache held after the  *)
(* last acquire fence for as long as there is no other.  A cache that      *)
(* writes back or evicts by itself only shows more.                        *)
(***************************************************************************)
EXTENDS SpinBarrier

VARIABLES
  cur,     \* cur[l][m]: phases of m ordered before l's next access
  acq,     \* acq[l][m]: what l's next acquire fence will add
  rel,     \* rel[l][m]: what l's atomic writes publish
  msg,     \* msg[i]: what the current value of bar[i] carries, i \in {0, 1}
  mem,     \* mem[m]: phases of m whose stores have reached coherent memory
  line     \* line[l][m]: phases of m no load by l can miss: its cache lines
           \* are at least that young

viewVars == <<cur, acq, rel, msg>>

memVars == <<mem, line>>

vars == <<ctlVars, viewVars, memVars>>

View == [Lanes -> Nat]

Nothing == [m \in Lanes |-> 0]

Join(v, w) == [m \in Lanes |-> IF v[m] >= w[m] THEN v[m] ELSE w[m]]

FInit ==
  /\ Init
  /\ cur = [l \in Lanes |-> Nothing]
  /\ acq = [l \in Lanes |-> Nothing]
  /\ rel = [l \in Lanes |-> Nothing]
  /\ msg = [i \in {0, 1} |-> Nothing]
  /\ mem = Nothing
  /\ line = [l \in Lanes |-> Nothing]

ReleaseFence_LocalOnly(l) ==
  LET done == [cur[l] EXCEPT ![l] = barrier_i[l] + 1]
  IN /\ cur' = [cur EXCEPT ![l] = done]
     /\ acq' = [acq EXCEPT ![l] = Join(@, done)]
     /\ UNCHANGED <<rel, msg>>

\* The phase's stores, then VMO_FENCE_DEV_REL.
ReleaseFence(l) ==
  LET done == [cur[l] EXCEPT ![l] = barrier_i[l] + 1]
  IN /\ cur' = [cur EXCEPT ![l] = done]
     /\ acq' = [acq EXCEPT ![l] = Join(@, done)]
     /\ rel' = [rel EXCEPT ![l] = done]
     /\ UNCHANGED msg

\* A relaxed load of bar[i].
RelaxedLoad(l, i) ==
  /\ acq' = [acq EXCEPT ![l] = Join(@, msg[i])]
  /\ UNCHANGED <<cur, rel, msg>>

\* atomic_inc(&bar[i]).
RelaxedInc(l, i) ==
  /\ acq' = [acq EXCEPT ![l] = Join(@, msg[i])]
  /\ msg' = [msg EXCEPT ![i] = Join(@, rel[l])]
  /\ UNCHANGED <<cur, rel>>

\* bar[i] = 0.
PlainStore(i) ==
  /\ msg' = [msg EXCEPT ![i] = Nothing]
  /\ UNCHANGED <<cur, acq, rel>>

\* VMO_FENCE_DEV_ACQ.
AcquireFence(l) ==
  /\ cur' = [cur EXCEPT ![l] = Join(@, acq[l])]
  /\ UNCHANGED <<acq, rel, msg>>

\* What the release fence does to the caches: the lane's stores go out ...
WriteBack(l) ==
  /\ mem' = [mem EXCEPT ![l] = barrier_i[l] + 1]
  /\ UNCHANGED line

Invalidate_Skipped(l) == UNCHANGED memVars

\* ... and the acquire fence: the next loads come from coherent memory.
Invalidate(l) ==
  /\ line' = [line EXCEPT ![l] = mem]
  /\ UNCHANGED mem

FArrive(l) == Arrive(l) /\ ReleaseFence(l)   /\ WriteBack(l)
FLoad(l)   == Load(l)   /\ RelaxedLoad(l, 1) /\ UNCHANGED memVars
FInc(l)    == Inc(l)    /\ RelaxedInc(l, 0)  /\ UNCHANGED memVars
FReset(l)  == Reset(l)  /\ PlainStore(0)     /\ UNCHANGED memVars
FFlip(l)   == Flip(l)   /\ RelaxedInc(l, 1)  /\ UNCHANGED memVars
FSpin(l)   == Spin(l)   /\ RelaxedLoad(l, 1) /\ UNCHANGED memVars
FLeave(l)  == Leave(l)  /\ AcquireFence(l)   /\ Invalidate(l)

FNext ==
  \/ \E l \in Lanes :
       \/ FArrive(l) \/ FLoad(l) \/ FInc(l) \/ FReset(l) \/ FFlip(l)
       \/ FSpin(l) \/ FLeave(l)
       \/ (Admit(l) \/ Finish(l)) /\ UNCHANGED viewVars /\ UNCHANGED memVars
  \/ Terminated /\ UNCHANGED viewVars /\ UNCHANGED memVars

FSpec == FInit /\ [][FNext]_vars

\* With the fairness of SpinBarrier: fences take no part in scheduling.
FFairSpec == FSpec /\ Fairness
------------------------------------------------------------------------------
(* Properties *)

\* After barrier k a lane may read anything any lane stored before it
\* ("device-scope acquire/release fences ... plain reads coherent, in spec",
\* docs/decisions.md #1).  So it is with two lanes; with three it is not, and
\* no run checks it: a lane that waits learns from the phase word only what
\* the flipping lane published before its own increment.
PayloadOrdered ==
  \A l, m \in Lanes : pc[l] = "work" => cur[l][m] >= barrier_i[l]

\* Who the fences do order at every barrier: the stores of the lane that
\* flips the phase are ordered before every lane's next phase, and that lane
\* may read what everybody stored.  With two lanes this is all there is.
FlipperOrdered ==
  \A l \in Lanes : pc[l] = "flip" =>
    /\ rel[l][l] = barrier_i[l] + 1
    /\ \A m \in Lanes : acq[l][m] = barrier_i[l] + 1

\* What a schedule may rely on from one barrier to the next, the buffers of a
\* loop's carry being its tightest case: they change roles at every barrier.  A
\* lane in phase k reads what every lane stored in phases before k, nothing
\* staler, and nobody has gone on to a later phase, whose stores it must not
\* see.  One barrier gives the read after the write and the write after the
\* read at once.
FreshReads ==
  \A l, m \in Lanes : pc[l] = "work" =>
    line[l][m] >= barrier_i[l] /\ barrier_i[m] <= barrier_i[l]

(* The inductive invariant behind them (BarrierProofs) *)

\* Between the release fence and the return.
InBarrier(l) == pc[l] \in {"load", "inc", "spin", "reset", "flip", "leave"}

\* Phases whose stores the lane has released.
Released(m) == barrier_i[m] + (IF InBarrier(m) THEN 1 ELSE 0)

Within(v) == \A m \in Lanes : v[m] <= Released(m)

ViewsOK ==
  /\ cur \in [Lanes -> View] /\ acq \in [Lanes -> View] /\ rel \in [Lanes -> View]
  /\ msg \in [{0, 1} -> View]

\* Nobody is told of stores that were not released.
ViewsWithin ==
  /\ \A l \in Lanes : Within(cur[l]) /\ Within(acq[l]) /\ Within(rel[l])
  /\ \A i \in {0, 1} : Within(msg[i])

\* A lane in the barrier publishes its own phase with what it writes next.
OwnReleased ==
  \A l \in Lanes : InBarrier(l) =>
    rel[l][l] >= barrier_i[l] + 1 /\ acq[l][l] >= barrier_i[l] + 1

\* Until the counter is reset it carries the phases of all that it counts.
CounterCarries ==
  (\A l \in Lanes : pc[l] # "flip") => \A m \in Waiting : msg[0][m] >= round + 1

\* The last arrival read the counter after everybody's increment.
LastHeard ==
  \A l \in Lanes : pc[l] \in {"reset", "flip"} => \A m \in Lanes : acq[l][m] >= round + 1

\* Coherent memory holds what was released, and a lane that has left a barrier
\* has dropped what its cache held before.
Coherent ==
  /\ mem = [m \in Lanes |-> Released(m)]
  /\ line \in [Lanes -> View]
  /\ \A l, m \in Lanes : line[l][m] >= barrier_i[l]

FIInv == ViewsOK /\ ViewsWithin /\ OwnReleased /\ CounterCarries /\ LastHeard /\ Coherent
==============================================================================
