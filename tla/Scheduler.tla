----------------------------- MODULE Scheduler -----------------------------
(***************************************************************************)
(* schedule_program (python/pjrt_ocl/scheduler.py): from a tensor program  *)
(* to one stream of entries per lane.  A stream is the lane's root walk    *)
(* followed by the sub-ranges its control entries name.                    *)
(*                                                                         *)
(* Costs are positive integers, so the float arithmetic of the packing is  *)
(* exact here.                                                             *)
(***************************************************************************)
EXTENDS VMProgram, FiniteSets, SequencesExt

CONSTANTS
  NLanes,      \* PJRT_OCL_NLANES
  EwCost,      \* unit_cost(TILE_EW)
  ShapedCost   \* unit_cost of every other tile op

ASSUME NLanesPositive == NLanes \in Nat \ {0}
ASSUME CostsPositive  == {EwCost, ShapedCost} \subseteq Nat \ {0}

LaneIds == 1 .. NLanes

UnitCost(ins) == IF IsMap(ins) THEN EwCost ELSE ShapedCost

CeilDiv(m, n) == (m + n - 1) \div n

Sum(seq) == FoldLeft(+, 0, seq)

\* The elements of a finite set, sorted by a strict order.
Ranked(S, before(_, _)) ==
  [k \in 1 .. Cardinality(S) |->
     CHOOSE x \in S : Cardinality({y \in S : before(y, x)}) = k - 1]

Ascending(S) == Ranked(S, <)

(* Entries *)

Barrier == [kind |-> "barrier"]

\* Tiles lo .. hi - 1 of instruction task.
TileEntry(task, lo, hi) == [kind |-> "tile", task |-> task, lo |-> lo, hi |-> hi]

Runs(entry, i, t) ==
  entry.kind = "tile" /\ entry.task = i /\ entry.lo <= t /\ t < entry.hi

\* x and y are the lane's own ranges, patched once the sub-lists are placed.
ControlEntry(ins) ==
  [kind |-> ins.op, flag |-> ins.dst, x |-> NoRange, y |-> NoRange,
   trips |-> ins.trips]

(* Levels *)

\* A run of instruction indices cut where the phases start.
CutAt(seg, starts) ==
  [i \in 1 .. Len(starts) |->
     [region  |-> FALSE,
      members |-> SubSeq(seg, starts[i],
                         IF i = Len(starts) THEN Len(seg) ELSE starts[i + 1] - 1)]]

\* _phases: the run seg cut into phases.
Phases(prog, seg) ==
  CutAt(seg, Ascending(ToSet(PhaseStart([k \in 1 .. Len(seg) |-> prog[seg[k]]]))))

\* _build_levels: phases of compute instructions, and each control
\* instruction a level of its own.
BuildLevels(prog, idxs) ==
  LET Flush(acc) == acc.levels \o Phases(prog, acc.seg)
      Take(acc, i) ==
        IF IsRegion(prog[i])
        THEN [levels |-> Append(Flush(acc), [region |-> TRUE, members |-> <<i>>]),
              seg    |-> <<>>]
        ELSE IF prog[i].op = "nop" THEN acc
        ELSE [acc EXCEPT !.seg = Append(@, i)]
      taken[k \in 0 .. Len(idxs)] ==
        IF k = 0 THEN [levels |-> <<>>, seg |-> <<>>] ELSE Take(taken[k - 1], idxs[k])
  IN Flush(taken[Len(idxs)])

(* One compute phase *)

\* _map_chains: the elementwise instructions maps of a phase, grouped by the
\* reads of what another one of them writes.  The groups of the code's union-find
\* are the least sets that hold both ends of an edge or none.
MapChains(prog, maps) ==
  LET WritesBuf(b) == {i \in maps : b \in Writes(prog[i])}
      Edges == {e \in maps \X maps :
                  \E b \in Reads(prog[e[2]]) : WritesBuf(b) # {} /\ e[1] = Max(WritesBuf(b))}
      Closed(c) == \A e \in Edges : e[1] \in c <=> e[2] \in c
      groups == {c \in (SUBSET maps) \ {{}} : Closed(c)}
  IN {c \in groups : \A d \in groups : d \subseteq c => d = c}

\* A unit is a chain of tasks that share their tile ranges.
Unit(prog, tids) ==
  LET tiles == NTiles(prog[tids[1]])
  IN [tids |-> tids, tiles |-> tiles,
      cost |-> Len(tids) * tiles * UnitCost(prog[tids[1]])]

\* Shaped instructions are units by themselves and come first.
Units(prog, members) ==
  LET shaped == Ascending({i \in ToSet(members) : ~IsMap(prog[i])})
      chains == MapChains(prog, {i \in ToSet(members) : IsMap(prog[i])})
      heads  == Ascending({Min(c) : c \in chains})
      Chain(h) == CHOOSE c \in chains : h \in c
  IN [k \in 1 .. Len(shaped) |-> Unit(prog, <<shaped[k]>>)]
       \o [k \in 1 .. Len(heads) |-> Unit(prog, Ascending(Chain(heads[k])))]

TotalCost(units) ==
  LET total[k \in 0 .. Len(units)] == IF k = 0 THEN 0 ELSE total[k - 1] + units[k].cost
  IN total[Len(units)]

\* The parts a unit's tiles are split into: its share of the cost, in lanes.
Parts(units, u) ==
  LET want == CeilDiv(NLanes * units[u].cost, TotalCost(units))
  IN IF want < units[u].tiles THEN want ELSE units[u].tiles

Chunk_DropRemainder(units, u, p) ==
  LET size == units[u].tiles \div Parts(units, u)
  IN [uid |-> u, lo |-> size * (p - 1), hi |-> size * p,
      cost |-> (units[u].cost \div units[u].tiles) * size]

\* The p-th of them.
Chunk(units, u, p) ==
  LET tiles == units[u].tiles
      Lo(q) == (tiles * q) \div Parts(units, u)
  IN [uid |-> u, lo |-> Lo(p - 1), hi |-> Lo(p),
      cost |-> (units[u].cost \div tiles) * (Lo(p) - Lo(p - 1))]

Chunks(units) ==
  UNION {{Chunk(units, u, p) : p \in 1 .. Parts(units, u)} : u \in 1 .. Len(units)}

\* Longest processing time first; ties by unit, then by tile.
Before(c, d) ==
  \/ c.cost > d.cost
  \/ c.cost = d.cost /\ c.uid < d.uid
  \/ c.cost = d.cost /\ c.uid = d.uid /\ c.lo < d.lo

\* The whole chain of a chunk.
ChunkRun(units, c) ==
  [k \in 1 .. Len(units[c.uid].tids) |-> TileEntry(units[c.uid].tids[k], c.lo, c.hi)]

LeastLoaded(load) ==
  CHOOSE l \in LaneIds : \A m \in LaneIds : \/ load[l] < load[m]
                                            \/ load[l] = load[m] /\ l <= m

\* _pack_units: what each lane runs in the phase, list-scheduled onto the
\* least-loaded lane.
PackUnits(units) ==
  LET chunks == Ranked(Chunks(units), Before)
      Place(acc, c) ==
        LET least == LeastLoaded(acc.load)
        IN [out  |-> [acc.out  EXCEPT ![least] = @ \o ChunkRun(units, c)],
            load |-> [acc.load EXCEPT ![least] = @ + c.cost]]
      placed[k \in 0 .. Len(chunks)] ==
        IF k = 0 THEN [out  |-> [l \in LaneIds |-> <<>>], load |-> [l \in LaneIds |-> 0]]
        ELSE Place(placed[k - 1], chunks[k])
  IN placed[Len(chunks)].out

(* Streams: st.lanes is what has been emitted, st.queue the region jobs *)

Concat(lanes, more) == [l \in LaneIds |-> lanes[l] \o more[l]]

Everywhere(e) == [l \in LaneIds |-> <<e>>]

EmitPhase(prog, st, members) ==
  [st EXCEPT !.lanes = Concat(@, PackUnits(Units(prog, members)))]

EmitControl(prog, st, i) ==
  [lanes |-> Concat(st.lanes, Everywhere(ControlEntry(prog[i]))),
   queue |-> Append(st.queue, [ins |-> i,
                               at  |-> [l \in LaneIds |-> Len(st.lanes[l]) + 1]])]

EmitLevel(prog, st, level) ==
  IF level.region THEN EmitControl(prog, st, level.members[1])
  ELSE EmitPhase(prog, st, level.members)

EmitLevels_IdleLanesSkip(prog, st, levels) ==
  LET Busy(acc) == [l \in LaneIds |-> IF acc.lanes[l] = <<>> THEN <<>> ELSE <<Barrier>>]
      emitted[k \in 0 .. Len(levels)] ==
        IF k = 0 THEN st
        ELSE LET acc == emitted[k - 1]
             IN EmitLevel(prog, IF k = 1 THEN acc
                                ELSE [acc EXCEPT !.lanes = Concat(@, Busy(acc))], levels[k])
  IN emitted[Len(levels)]

\* A barrier in every lane.
Synced(st) == [st EXCEPT !.lanes = Concat(@, Everywhere(Barrier))]

\* Levels with a barrier between them.
EmitLevels(prog, st, levels) ==
  LET emitted[k \in 0 .. Len(levels)] ==
        IF k = 0 THEN st
        ELSE EmitLevel(prog, IF k = 1 THEN st ELSE Synced(emitted[k - 1]), levels[k])
  IN emitted[Len(levels)]

\* schedule_range: a sub-list.  Its closing barrier is the interpreter's
\* business.
ScheduleRange(prog, st, r) == EmitLevels(prog, st, BuildLevels(prog, Indices(r)))

\* The entry of a control instruction gets, in every lane, the lane's own
\* ranges: st1 is st after the first sub-list, st2 after the second.
Patched(st, st1, st2, job) ==
  LET Between(s, t, l) == SubList(Len(s.lanes[l]) + 1, Len(t.lanes[l]) - Len(s.lanes[l]))
  IN [st2 EXCEPT !.lanes =
        [l \in LaneIds |-> [@[l] EXCEPT ![job.at[l]].x = Between(st, st1, l),
                                        ![job.at[l]].y = Between(st1, st2, l)]]]

PlaceSecond(prog, st, st1, job) ==
  Patched(st, st1, ScheduleRange(prog, st1, prog[job.ins].y), job)

\* schedule_region: place both sub-lists of a control instruction.
ScheduleRegion(prog, st, job) ==
  PlaceSecond(prog, st, ScheduleRange(prog, st, prog[job.ins].x), job)

NeverEmpty(st) ==
  IF \A l \in LaneIds : st.lanes[l] = <<>>
  THEN [st EXCEPT !.lanes = [l \in LaneIds |-> <<Barrier>>]]
  ELSE st

\* The root's streams, never empty in every lane.
ScheduleRoot(prog, mainLen) ==
  NeverEmpty(ScheduleRange(prog, [lanes |-> [l \in LaneIds |-> <<>>], queue |-> <<>>],
                           SubList(1, mainLen)))

\* The region jobs are served first in, first out; every instruction queues at
\* most one.
DrainQueue(prog, root) ==
  LET Serve(st) ==
        IF st.queue = <<>> THEN st
        ELSE ScheduleRegion(prog, [st EXCEPT !.queue = Tail(@)], Head(st.queue))
      served[k \in 0 .. Len(prog)] == IF k = 0 THEN root ELSE Serve(served[k - 1])
  IN [streams  |-> served[Len(prog)].lanes,
      rootLens |-> [l \in LaneIds |-> Len(root.lanes[l])]]

\* schedule_program.
ScheduleProgram(prog, mainLen) == DrainQueue(prog, ScheduleRoot(prog, mainLen))
=============================================================================
