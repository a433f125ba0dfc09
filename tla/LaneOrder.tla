----------------------------- MODULE LaneOrder -----------------------------
(***************************************************************************)
(* A straight-line program on its way through the scheduler: the lowering  *)
(* emits one more instruction (ctx.emit), _phases looks at it, and the     *)
(* lane streams, which are rebuilt for every program, are checked against  *)
(* the program itself.                                                     *)
(***************************************************************************)
EXTENDS Scheduler, PhaseSplit

CONSTANTS
  Catalogue,   \* the instructions the lowering may emit
  MaxLen       \* bound on the program's length

\* No instruction of a straight-line program is a region, and what writes a slice
\* of a concatenation reads something else.
ASSUME CatalogueStraight ==
  \A ins \in Catalogue :
    /\ ins.op \in {"ew", "shaped", "nop"} /\ ins.n \in Nat
    /\ ins.disjoint # 0 => ins.op = "shaped" /\ ins.dst \notin {ins.a, ins.b}

\* The runs considered are closed under emitting one more instruction.
ASSUME ProgramsGrow ==
  \A p \in Programs : \A ins \in Catalogue :
    Len(p) < MaxLen => Append(p, ins) \in Programs

VARIABLE streams

prog == seg

allVars == <<vars, streams>>

StreamsOf(p) == ScheduleProgram(p, Len(p)).streams

LInit == seg = <<>> /\ Init /\ streams = StreamsOf(<<>>)

\* _fuse_views folds a gather into its readers only if nothing later writes
\* the gather's source.
KeepsViews(ins) ==
  \A k \in 1 .. Len(prog) : prog[k].view => prog[k].a # ins.dst

Emit(ins) ==
  /\ j > Len(seg) /\ Len(seg) < MaxLen
  /\ KeepsViews(ins)
  /\ seg' = Append(seg, ins)
  /\ streams' = StreamsOf(seg')
  /\ UNCHANGED <<j, start, cuts, readers, writers>>

SplitNext == (Extend \/ Cut) /\ UNCHANGED streams

LNext == (\E ins \in Catalogue : Emit(ins)) \/ SplitNext

LSpec == LInit /\ [][LNext]_allVars
------------------------------------------------------------------------------
(* Where a tile of an instruction runs *)

Barriers(stream, pos) == Cardinality({q \in 1 .. pos : stream[q].kind = "barrier"})

Phase(l, pos) == Barriers(streams[l], pos)

\* The places (lane, position) whose entry runs tile t of instruction i.
Places(i, t) ==
  UNION {{<<l, pos>> : pos \in {q \in DOMAIN streams[l] : Runs(streams[l][q], i, t)}} : l \in LaneIds}

Tiles(i) == 0 .. NTiles(prog[i]) - 1

Steps == {i \in 1 .. Len(prog) : prog[i].op # "nop"}

\* x is over before y starts: an earlier phase, or the same lane's same phase
\* further up its stream.
Ordered(x, y) ==
  \/ Phase(x[1], x[2]) < Phase(y[1], y[2])
  \/ x[1] = y[1] /\ x[2] < y[2]
------------------------------------------------------------------------------
(* Properties *)

\* Every tile of every instruction is run exactly once, by one lane
\* (_check_coverage of vmreader.py states it for one schedule).
TilesCovered ==
  \A i \in Steps : \A t \in Tiles(i) : Cardinality(Places(i, t)) = 1

\* Every lane has the same barriers: a lane with one less would hang the rest
\* ("every lane must contain the same barrier sequence", docs/vmprogram.md).
UniformBarriers ==
  \A l, m \in LaneIds : Phase(l, Len(streams[l])) = Phase(m, Len(streams[m]))

\* Two tile executions that touch a common element keep the program's order on
\* every interleaving of the lanes: there is a barrier between them, or one
\* lane runs both in that order ("output tile T reads only input tile T, so a
\* lane that owns tile T produces everything it needs", _cross_lane_dep).
ConflictsOrdered ==
  \A i, k \in Steps : i < k =>
    \A s \in Tiles(i), t \in Tiles(k) :
      Clash(prog[i], s, prog[k], t) =>
        \A x \in Places(i, s), y \in Places(k, t) : Ordered(x, y)
=============================================================================
