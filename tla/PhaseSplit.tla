----------------------------- MODULE PhaseSplit -----------------------------
(***************************************************************************)
(* _phases (python/pjrt_ocl/scheduler.py): where the scheduler puts the    *)
(* barriers of a straight run of instructions.  One step handles one       *)
(* instruction.  A phase is a contiguous run, so the list of phases is the *)
(* set of positions a phase starts at.                                     *)
(*                                                                         *)
(* The code compares an instruction only with the members of the current   *)
(* phase that its two hash tables return, not with the whole phase, and    *)
(* claims this makes no difference; Justified and Separated together say   *)
(* so, and SameAsDirect says it literally.                                 *)
(***************************************************************************)
EXTENDS VMProgram, FiniteSets

CONSTANTS
  Programs,    \* the runs of instructions considered
  Buffers      \* the buffers they use

ASSUME ProgramsListed ==
  \A p \in Programs :
    /\ Len(p) \in Nat /\ DOMAIN p = 1 .. Len(p)
    /\ \A i \in 1 .. Len(p) : Reads(p[i]) \cup Writes(p[i]) \subseteq Buffers

VARIABLES
  seg,         \* the run being split
  j,           \* next instruction
  start,       \* where the current phase starts
  cuts,        \* where every phase so far starts
  readers,     \* ph_readers: buffer -> members of the phase that read it
  writers      \* ph_writers

vars == <<seg, j, start, cuts, readers, writers>>

Empty == [b \in Buffers |-> {}]

Init ==
  /\ seg \in Programs
  /\ j = 1 /\ start = 1 /\ cuts = {1}
  /\ readers = Empty /\ writers = Empty

Candidates_WritersOnly(ins) ==
  UNION {writers[b] : b \in Reads(ins) \cup Writes(ins)}

\* cand: the members of the current phase that share a buffer with ins.
Candidates(ins) ==
  (UNION {writers[b] : b \in Reads(ins) \cup Writes(ins)})
    \cup (UNION {readers[b] : b \in Writes(ins)})

NeedsBarrier == \E i \in Candidates(seg[j]) : Boundary(seg[i], seg[j])

\* track(j) on top of the tables r and w.
Track(r, w) ==
  /\ readers' = [b \in Buffers |-> r[b] \cup (IF b \in Reads(seg[j]) THEN {j} ELSE {})]
  /\ writers' = [b \in Buffers |-> w[b] \cup (IF b \in Writes(seg[j]) THEN {j} ELSE {})]

Extend ==
  /\ j <= Len(seg) /\ ~NeedsBarrier
  /\ Track(readers, writers)
  /\ j' = j + 1
  /\ UNCHANGED <<seg, start, cuts>>

Cut_KeepsTables ==
  /\ j <= Len(seg) /\ NeedsBarrier
  /\ Track(readers, writers)
  /\ start' = j /\ cuts' = cuts \cup {j}
  /\ j' = j + 1
  /\ UNCHANGED seg

Cut ==
  /\ j <= Len(seg) /\ NeedsBarrier
  /\ Track(Empty, Empty)
  /\ start' = j /\ cuts' = cuts \cup {j}
  /\ j' = j + 1
  /\ UNCHANGED seg

Split == j > Len(seg) /\ UNCHANGED vars

Next == Extend \/ Cut \/ Split

Spec == Init /\ [][Next]_vars
------------------------------------------------------------------------------
(* Properties *)

TypeOK ==
  /\ seg \in Programs
  /\ j \in 1 .. Len(seg) + 1
  /\ start \in 1 .. j /\ (j > 1 => start < j)
  /\ cuts \subseteq 1 .. j /\ start \in cuts
  /\ readers \in [Buffers -> SUBSET (1 .. j - 1)]
  /\ writers \in [Buffers -> SUBSET (1 .. j - 1)]

\* A dependency that crosses lanes always has a barrier between its two ends,
\* however far apart they are and whatever was scheduled in between.
Separated ==
  \A k \in 1 .. j - 1 : \A i \in 1 .. k - 1 :
    Boundary(seg[i], seg[k]) => \E c \in cuts : i < c /\ c <= k

\* No barrier is there for nothing: each one separates an instruction from one
\* of the phase that ends there (a barrier costs every lane a full sync).
Justified ==
  \A c \in cuts \ {1} : \E i \in 1 .. c - 1 :
    /\ Boundary(seg[i], seg[c])
    /\ \A d \in cuts : d <= i \/ d >= c

\* "equivalent to testing it against all of `cur`" (the comment on the tables).
SameAsDirect ==
  j > Len(seg) => cuts = {1} \cup {PhaseStart(seg)[k] : k \in 1 .. Len(seg)}

\* The tables hold exactly the current phase, the strengthening that makes
\* Separated inductive (PhaseSplitProofs).
TablesExact ==
  \A b \in Buffers :
    /\ readers[b] = {i \in start .. j - 1 : b \in Reads(seg[i])}
    /\ writers[b] = {i \in start .. j - 1 : b \in Writes(seg[i])}

IInv ==
  /\ TypeOK
  /\ TablesExact
  /\ \A c \in cuts : c <= start
  /\ Separated
  /\ Justified
=============================================================================
