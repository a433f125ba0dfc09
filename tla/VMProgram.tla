----------------------------- MODULE VMProgram -----------------------------
(***************************************************************************)
(* The tensor program (docs/vmprogram.md) as the scheduler sees it: a flat *)
(* list of instructions over numbered buffers.  Control instructions name  *)
(* sub-lists of the same list by range.                                    *)
(*                                                                         *)
(* Opcodes are abstracted to what the scheduler and the engines tell       *)
(* apart: "ew" (elementwise, TILE_EW), "shaped" (every other tile op),     *)
(* "nop", "while", "for" and "if".                                         *)
(***************************************************************************)
EXTENDS Naturals, Sequences

CONSTANTS
  TileSize,    \* elements per tile (TILE_SIZE)
  Fuse         \* PJRT_OCL_FUSE: may elementwise chains share a phase?

ASSUME TileSizePositive == TileSize \in Nat \ {0}
ASSUME FuseBoolean      == Fuse \in BOOLEAN

\* Operand slot left unused; buffers are numbered from 1.
NoBuf == 0

NoRange == [start |-> 1, len |-> 0]

SubList(start, len) == [start |-> start, len |-> len]

Indices(r) == [k \in 1 .. r.len |-> r.start + k - 1]

\* One instruction.  fn says what is computed, view that operand a is read
\* through a folded gather (broadcast, transpose, ...), disjoint names the
\* concatenation whose slice this scatter writes and off where.
Compute(op, fn, dst, a, b, n) ==
  [op |-> op, fn |-> fn, dst |-> dst, a |-> a, b |-> b, n |-> n,
   view |-> FALSE, disjoint |-> 0, off |-> 0,
   x |-> NoRange, y |-> NoRange, trips |-> 0]

Ew(fn, dst, a, b, n)     == Compute("ew", fn, dst, a, b, n)
Shaped(fn, dst, a, b, n) == Compute("shaped", fn, dst, a, b, n)
Viewed(ins)              == [ins EXCEPT !.view = TRUE]
Slice(dst, a, n, off, group) ==
  [Shaped("copy", dst, a, NoBuf, n) EXCEPT !.off = off, !.disjoint = group]

Nop == Compute("nop", "none", NoBuf, NoBuf, NoBuf, 0)

\* OP_WHILE: x the cond sub-list, y the body; dst the loop flag.
While(flag, cond, body) ==
  [Nop EXCEPT !.op = "while", !.dst = flag, !.x = cond, !.y = body]

\* OP_IF: x the then sub-list, y the else; dst the branch flag.
If(flag, then, else) ==
  [Nop EXCEPT !.op = "if", !.dst = flag, !.x = then, !.y = else]

\* OP_FOR: y the body.
For(trips, body) == [Nop EXCEPT !.op = "for", !.trips = trips, !.y = body]

IsRegion(ins) == ins.op \in {"while", "for", "if"}
IsMap(ins)    == ins.op = "ew"

\* n_tiles of the instruction's task.
NTiles(ins) == IF ins.n <= TileSize THEN 1 ELSE (ins.n + TileSize - 1) \div TileSize

(* Dependency analysis *)

Reads(ins)  == IF ins.op = "nop" THEN {} ELSE {ins.a, ins.b} \ {NoBuf}
Writes(ins) == IF ins.op = "nop" THEN {} ELSE {ins.dst} \ {NoBuf}

SameGroup(p, q) == p.disjoint # 0 /\ p.disjoint = q.disjoint

\* Does q, later in the list, depend on p?  Read-after-write, write-after-
\* write (not between slices of one concatenation) and write-after-read.
Depends(p, q) ==
  LET pw == IF SameGroup(p, q) THEN Writes(p) \ Writes(q) ELSE Writes(p)
      qw == IF SameGroup(p, q) THEN Writes(q) \ Writes(p) ELSE Writes(q)
  IN \/ Reads(q) \cap pw # {}
     \/ qw \cap pw # {}
     \/ Reads(p) \cap qw # {}

CrossLane_AnyMap(p, q) == Depends(p, q) /\ ~(IsMap(p) /\ IsMap(q))

\* ... through an edge a barrier has to publish?  Two elementwise ops of one
\* element count are said to chain lane-locally, tile by tile.
CrossLane(p, q) ==
  Depends(p, q) /\ ~(/\ IsMap(p) /\ IsMap(q)
                     /\ p.n = q.n
                     /\ Writes(p) \cap Writes(q) = {})

\* Must p and q, in this order, be in different phases?
Boundary(p, q) == IF Fuse THEN CrossLane(p, q) ELSE Depends(p, q)

\* PhaseStart(seg)[k]: where the phase of the k-th instruction of the straight
\* run seg starts.  A phase ends at the first instruction that needs a barrier
\* after some member of it.  (PhaseSplit has the code's way to compute it.)
PhaseStart(seg) ==
  LET f[k \in 1 .. Len(seg)] ==
        IF k = 1 THEN 1
        ELSE IF \E i \in f[k - 1] .. k - 1 : Boundary(seg[i], seg[k])
             THEN k ELSE f[k - 1]
  IN f

(* What a tile touches (vmo_exec_tiles), for stating what may not overlap *)

\* Does ins touch buffer b beyond the elements of its own tile?  Everything
\* but a plain elementwise access does.
Spread(ins, b) == ~IsMap(ins) \/ (ins.view /\ b = ins.a)

\* Do tile s of p and tile t of q touch an element that one of them writes?
Clash(p, s, q, t) ==
  \E b \in (Writes(p) \cap (Reads(q) \cup Writes(q))) \cup (Reads(p) \cap Writes(q)) :
    /\ s = t \/ Spread(p, b) \/ Spread(q, b)
    /\ SameGroup(p, q) => b \in Reads(p) \cup Reads(q)
=============================================================================
