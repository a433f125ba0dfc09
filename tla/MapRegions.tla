------------------------------ MODULE MapRegions ------------------------------
(***************************************************************************)
(* _fuse_region (python/pjrt_ocl/lowering.py): runs of elementwise f32     *)
(* instructions of one phase become one instruction that keeps what is     *)
(* between them in registers (slots), with one result.                     *)
(***************************************************************************)
EXTENDS Fusions

CONSTANTS
  RegionSlots,     \* PJRT_OCL_REGION_SLOTS
  RegionMaxIn,     \* _REGION_MAXIN, inputs of a region in a loop body
  RegionLoopMin    \* PJRT_OCL_REGION_LOOP_MIN, its least length

ASSUME RegionSizes == {RegionSlots, RegionMaxIn, RegionLoopMin} \subseteq Nat \ {0}

RegionKind ==
  {"add", "subtract", "multiply", "divide", "maximum", "minimum", "negate", "exponential",
   "log", "sqrt", "rsqrt", "tanh", "abs", "affine"}

\* _region_operands, in order.
RegionOperands(ins) == IF ins.op \in Binary THEN <<ins.a, ins.b>> ELSE <<ins.a>>

\* _region_eligible
RegionEligible(ctx, ins) ==
  /\ ins.op \in RegionKind
  /\ DType(ctx, ins.dst) = "f32"
  /\ \A b \in Range1(RegionOperands(ins)) : DType(ctx, b) = "f32"
  /\ ins.av = NoView /\ ins.bv = NoView

(* Phases, as the scheduler forms them (_phases, _build_levels) *)

IsMap(ins) == ins.op \in Elementwise

CrossLane(p, q) ==
  Conflict(p, q) /\ ~(IsMap(p) /\ IsMap(q) /\ p.n = q.n /\ p.dst # q.dst)

\* The instructions of the list's range, NOPs left out.
InSpan(ctx, from, to) ==
  SelectSeq([k \in 1 .. to - from |-> from + k - 1], LAMBDA i : ~IsNop(ctx.instrs[i]))

\* For every member of seg, the place in seg where its phase starts; a
\* control instruction is a phase of its own.
StartsIn(ctx, seg) ==
  LET Ins(k) == ctx.instrs[seg[k]]
      f[k \in DOMAIN seg] ==
        IF k = 1 THEN k
        ELSE LET start == f[k - 1]
             IN IF \/ Ins(k).op \in Control \/ Ins(k - 1).op \in Control
                   \/ \E i \in start .. k - 1 : CrossLane(Ins(i), Ins(k))
                THEN k ELSE start
  IN f

\* Bodies of the loops; branches and conditions are not looked at.
Bodies(ctx) ==
  {ctx.instrs[i].p.body : i \in {k \in DOMAIN ctx.instrs :
     ctx.instrs[k].op \in {"while", "for"} /\ ctx.instrs[k].p.body.len > 0}}

\* _region_phase_map_scoped: the phase of each instruction of the root and of
\* the loop bodies, named by its first instruction.
PhaseOf(ctx, mainLen) ==
  LET Scope(from, to) ==
        LET seg == InSpan(ctx, from, to)
            f   == StartsIn(ctx, seg)
        IN [i \in Range1(seg) |-> seg[f[Position(seg, i)]]]
      rest == UNION {{<<i, Scope(r.start, r.start + r.len)[i]>> :
                        i \in Range1(InSpan(ctx, r.start, r.start + r.len))} : r \in Bodies(ctx)}
      root == Scope(1, mainLen + 1)
  IN [i \in DOMAIN root \cup {e[1] : e \in rest} |->
        IF i \in DOMAIN root THEN root[i] ELSE (CHOOSE e \in rest : e[1] = i)[2]]

InLoopBody(ctx, i) == \E r \in Bodies(ctx) : i \in r.start .. r.start + r.len - 1

(* Slots *)

\* _region_slots: slot of each input and each member's result, a slot being
\* free once its value is not read again; out is read at the end.  members is
\* a sequence of instructions.
SlotsOf(members, inputs, out) ==
  LET k == Len(members)
      Uses(b) == {i \in 1 .. k : b \in Range1(RegionOperands(members[i]))}
      LastUse(b) == IF b = out THEN k + 1
                    ELSE IF Uses(b) = {} THEN 0 ELSE CHOOSE i \in Uses(b) : \A j \in Uses(b) : j <= i
      After[i \in 0 .. k] ==
        IF i = 0 THEN [slot |-> [b \in Range1(inputs) |-> Position(inputs, b)],
                       active |-> Range1(inputs)]
        ELSE LET before == After[i - 1]
                 alive  == {b \in before.active : LastUse(b) >= i}
                 taken  == {before.slot[b] : b \in alive}
                 s == CHOOSE s \in 1 .. Cardinality(taken) + 1 :
                        s \notin taken /\ \A t \in 1 .. s - 1 : t \in taken
             IN [slot   |-> (members[i].dst :> s) @@ before.slot,
                 active |-> alive \cup {members[i].dst}]
  IN After[k].slot

Fits(members, inputs, out, maxIn) ==
  /\ Len(inputs) <= maxIn
  /\ \A s \in Range1(SlotsOf(members, inputs, out)) : s <= RegionSlots

\* What the members read from outside, in the order they read it.
InputsOf(members) ==
  LET made == {members[i].dst : i \in DOMAIN members}
      Step[i \in 0 .. Len(members)] ==
        IF i = 0 THEN <<>>
        ELSE LET old == Step[i - 1]
                 ops == RegionOperands(members[i])
                 new == SelectSeq(ops, LAMBDA b : b \notin made \cup Range1(old))
             IN old \o IF Len(new) = 2 /\ new[1] = new[2] THEN <<new[1]>> ELSE new
  IN Step[Len(members)]

Members(ctx, idxs) == [k \in DOMAIN idxs |-> ctx.instrs[idxs[k]]]

Sorted(S) == SelectSeq([k \in 1 .. (IF S = {} THEN 0 ELSE CHOOSE m \in S : \A i \in S : i <= m) |-> k],
                       LAMBDA i : i \in S)

(* Forming regions *)

\* Reads of what another eligible member of the phase alone writes.
Joined(ctx, phase, elig) ==
  {<<w, j>> \in elig \X elig :
     /\ ctx.instrs[w].dst \in ReadsOf(ctx.instrs[j])
     /\ Once(ctx.instrs, ctx.instrs[w].dst)
     /\ phase[w] = phase[j]}

RECURSIVE Components(_, _)
\* The classes of the partition comps united along the edges.
Components(comps, edges) ==
  IF edges = {} THEN comps
  ELSE LET e   == CHOOSE e \in edges : TRUE
           hit == {c \in comps : e[1] \in c \/ e[2] \in c}
       IN Components((comps \ hit) \cup {UNION hit}, edges \ {e})

\* Members whose result is an output or read from outside the component.
LiveOuts(ctx, comp) ==
  {m \in comp : \/ ctx.instrs[m].dst \in Outs(ctx)
                \/ Readers(ctx.instrs, ctx.instrs[m].dst) \ comp # {}}

RECURSIVE FanIn(_, _, _, _)
\* cone_of: m and what it is computed from in the component, short of the
\* results in stop.
FanIn(ctx, comp, seen, stop) ==
  LET more == {w \in comp : \E m \in seen :
                 /\ ctx.instrs[w].dst \in Range1(RegionOperands(ctx.instrs[m]))
                 /\ ctx.instrs[w].dst \notin stop}
  IN IF more \subseteq seen THEN seen ELSE FanIn(ctx, comp, seen \cup more, stop)

\* _output_cones: one region per live result; what several of them need stays
\* as it is.
OutputCones(ctx, comp) ==
  LET outs == LiveOuts(ctx, comp)
      live == Dst(ctx, outs)
      Cone(o, stop) == FanIn(ctx, comp, {o}, stop \ {ctx.instrs[o].dst})
      shared == {m \in comp \ outs :
                   Cardinality({o \in outs : m \in Cone(o, live)}) > 1}
  IN {[members |-> Sorted(Cone(o, live \cup Dst(ctx, shared))), out |-> ctx.instrs[o].dst] :
        o \in outs}

\* _finalize_sub: the one result of sub that what follows reads.
SubOut(ctx, sub, later, out) ==
  {b \in {ctx.instrs[m].dst : m \in Range1(sub)} :
     b = out \/ \E o \in Range1(later) : b \in ReadsOf(ctx.instrs[o])}

RECURSIVE SplitFrom(_, _, _, _, _)
\* _split_region: consecutive parts of the members that fit; cur is the part
\* begun.  The result is a set: of the sequence of parts, or empty.
SplitFrom(ctx, cur, rest, out, maxIn) ==
  LET Fit(idxs) == Fits(Members(ctx, idxs), InputsOf(Members(ctx, idxs)), out, maxIn)
      trial == Append(cur, Head(rest))
      cut   == SubOut(ctx, cur, rest, out)
  IN CASE rest = <<>> -> {<<[members |-> cur, out |-> out]>>}
       [] rest # <<>> /\ Fit(trial) -> SplitFrom(ctx, trial, Tail(rest), out, maxIn)
       [] rest # <<>> /\ ~Fit(trial) ->
            IF cur = <<>> \/ Cardinality(cut) # 1 \/ ~Fit(<<Head(rest)>>) THEN {}
            ELSE {<<[members |-> cur, out |-> TheOne(cut)]>> \o more :
                    more \in SplitFrom(ctx, <<Head(rest)>>, Tail(rest), out, maxIn)}

\* _emit_region
EmitRegion(ctx, part) ==
  LET members == Members(ctx, part.members)
      inputs  == InputsOf(members)
      slot    == SlotsOf(members, inputs, part.out)
      Word(ins) ==
        LET ops == RegionOperands(ins)
        IN [fn |-> ins.op, d |-> slot[ins.dst], x |-> slot[ops[1]], y |-> slot[ops[Len(ops)]],
            s |-> IF ins.op = "affine" THEN ins.p.s ELSE 0,
            t |-> IF ins.op = "affine" THEN ins.p.t ELSE 0]
      at == CHOOSE m \in Range1(part.members) : ctx.instrs[m].dst = part.out
  IN Replace(Kill(ctx, Range1(part.members)), at,
             Instr("map_region", part.out, inputs[1], inputs[IF Len(inputs) > 1 THEN 2 ELSE 1],
                   members[1].n,
                   [inputs |-> inputs, out |-> slot[part.out],
                    micros |-> [k \in DOMAIN members |-> Word(members[k])]]))

RECURSIVE EmitParts(_, _)
EmitParts(ctx, parts) ==
  IF parts = <<>> THEN ctx ELSE EmitParts(EmitRegion(ctx, Head(parts)), Tail(parts))

\* A cone turned into regions, unless it is too short, cannot be split or
\* would only be split into single instructions.
FuseCone(ctx, cone, inBody) ==
  LET parts == SplitFrom(ctx, <<>>, cone.members, cone.out, IF inBody THEN RegionMaxIn ELSE 2)
  IN IF \/ Len(cone.members) < (IF inBody THEN Larger(2, RegionLoopMin) ELSE 2)
        \/ parts = {}
        \/ \E ps \in parts : \A k \in DOMAIN ps : Len(ps[k].members) < 2
     THEN ctx ELSE EmitParts(ctx, TheOne(parts))

RECURSIVE FuseCones(_, _, _)
FuseCones(ctx, cones, inBody) ==
  IF cones = {} THEN ctx
  ELSE LET c == CHOOSE c \in cones : TRUE
       IN FuseCones(FuseCone(ctx, c, inBody), cones \ {c}, inBody)

FuseComponent(ctx, comp) ==
  LET inBody == InLoopBody(ctx, Least(comp))
      outs   == LiveOuts(ctx, comp)
  IN CASE \/ Cardinality(comp) < 2
          \/ \E m \in comp : ctx.instrs[m].n # ctx.instrs[Least(comp)].n -> ctx
       [] inBody -> FuseCones(ctx, OutputCones(ctx, comp), TRUE)
       [] OTHER  -> IF Cardinality(outs) # 1 THEN ctx
                    ELSE FuseCone(ctx, [members |-> Sorted(comp),
                                        out |-> ctx.instrs[TheOne(outs)].dst], FALSE)

RECURSIVE FuseComponents(_, _)
FuseComponents(ctx, comps) ==
  IF comps = {} THEN ctx
  ELSE LET c == CHOOSE c \in comps : \A d \in comps : Least(c) <= Least(d)
       IN FuseComponents(FuseComponent(ctx, c), comps \ {c})

FuseRegion(ctx, mainLen) ==
  LET phase == PhaseOf(ctx, mainLen)
      elig  == {i \in DOMAIN phase : /\ RegionEligible(ctx, ctx.instrs[i])
                                     /\ Once(ctx.instrs, ctx.instrs[i].dst)}
  IN FuseComponents(ctx, Components({{i} : i \in elig}, Joined(ctx, phase, elig)))
=============================================================================
