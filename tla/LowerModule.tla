----------------------------- MODULE LowerModule -----------------------------
(***************************************************************************)
(* lower_module (python/pjrt_ocl/lowering.py): the root operations of a    *)
(* program are lowered in order, then the queued blocks of its loops and   *)
(* branches, and then the list is rewritten pass by pass.  What the list   *)
(* computes is defined by running it as vmreader.execute does.             *)
(*                                                                         *)
(* A finished list without control is also run tile by tile in any order   *)
(* the scheduler may choose: a tile may run as soon as nothing unfinished  *)
(* before its instruction conflicts with it.  What an instruction reads is *)
(* taken from its declared read set, so a handler or a pass that declares  *)
(* too little, tiles that overlap and slices of a concatenation that are   *)
(* not disjoint all show in the results.                                   *)
(***************************************************************************)
EXTENDS RegionLowering, PatternFusions, MapRegions

CONSTANTS
  Programs,    \* source programs; refused: the handlers document that they refuse it
  LoopBound    \* iterations after which a loop counts as endless

ASSUME LoopBoundNat == LoopBound \in Nat

VARIABLES
  prog,      \* the program
  ctx,       \* the lowering context
  rest,      \* root operations still to lower
  mainLen,   \* length of the root list, -1 before it is complete
  pass,      \* passes made over the list
  mem,       \* device memory, once the list runs tile by tile
  todo       \* tiles of each instruction still to run

lowering == <<prog, ctx, rest, mainLen, pass>>
running  == <<mem, todo>>
vars     == <<lowering, running>>

(* Running the list *)

RECURSIVE RunRange(_, _, _, _), RunWhile(_, _, _, _, _), RunFor(_, _, _, _, _)

RunWhile(dts, instrs, ins, m, n) ==
  LET tested == RunRange(dts, instrs, ins.p.cond, m)
  IN IF tested[ins.dst][0] = 0 \/ n = 0 THEN tested
     ELSE RunWhile(dts, instrs, ins, RunRange(dts, instrs, ins.p.body, tested), n - 1)

RunFor(dts, instrs, ins, m, n) ==
  IF n = 0 THEN m ELSE RunFor(dts, instrs, ins, RunRange(dts, instrs, ins.p.body, m), n - 1)

\* run_range
RunRange(dts, instrs, span, m) ==
  IF span.len = 0 THEN m
  ELSE LET ins == instrs[span.start]
           after == CASE ins.op = "while" -> RunWhile(dts, instrs, ins, m, LoopBound)
                      [] ins.op = "for"   -> RunFor(dts, instrs, ins, m, ins.p.trips)
                      [] ins.op = "if"    ->
                           RunRange(dts, instrs, IF m[ins.dst][0] # 0 THEN ins.p.then ELSE ins.p.other, m)
                      [] OTHER            -> RunInstr(dts, ins, m)
       IN RunRange(dts, instrs, Span(span.start + 1, span.start + span.len), after)

\* Constants and arguments in place.
Loaded(c, p) ==
  LET Const(b) == {k \in Range1(c.consts) : k.buf = b}
  IN [b \in 0 .. Newest(c) |->
        IF Const(b) # {} THEN (TheOne(Const(b))).data
        ELSE IF b \in Range1(c.inputs) THEN p.x[Position(c.inputs, b)]
        ELSE [i \in 0 .. Elems(c, b) - 1 |-> LeftOver]]

\* execute
Execute(c, p, len) ==
  LET m == RunRange(Dts(c), c.instrs, [start |-> 1, len |-> len], Loaded(c, p))
  IN [k \in DOMAIN c.outputs |-> m[c.outputs[k]]]

(* Lowering *)

RECURSIVE WithArguments(_, _)
\* The arguments' buffers come first.
WithArguments(c, args) ==
  IF args = <<>> THEN c
  ELSE LET d == NewBuffer(c, Count(c, Head(args)), Kind(c, Head(args)))
       IN WithArguments([Bind(d, Head(args), Newest(d)) EXCEPT !.inputs = Append(@, Newest(d))],
                        Tail(args))

Init ==
  /\ prog \in Programs
  /\ ctx = WithArguments(NewContext(prog.ty, Definitions(prog)), prog.args)
  /\ rest = prog.ops
  /\ mainLen = -1
  /\ pass = 0
  /\ mem = <<>>
  /\ todo = <<>>

InRoot == mainLen = -1 /\ ~ctx.err

LowerRootOp ==
  /\ InRoot /\ rest # <<>>
  /\ ctx' = LowerOp(ctx, Head(rest))
  /\ rest' = Tail(rest)
  /\ UNCHANGED <<prog, mainLen, pass, running>>

EndRoot ==
  /\ InRoot /\ rest = <<>>
  /\ ctx' = LowerReturn(ctx, prog.ret)
  /\ mainLen' = Len(ctx.instrs)
  /\ UNCHANGED <<prog, rest, pass, running>>

InRegions == mainLen # -1 /\ ~ctx.err /\ ctx.queue # <<>>

Dequeued == [ctx EXCEPT !.queue = Tail(@)]

LowerRegion ==
  /\ InRegions
  /\ ctx' = IF Head(ctx.queue).kind = "if" THEN LowerIfRegions(Dequeued, Head(ctx.queue))
            ELSE LowerWhileRegions(Dequeued, Head(ctx.queue))
  /\ UNCHANGED <<prog, rest, mainLen, pass, running>>

Drained == mainLen # -1 /\ ctx.queue = <<>> /\ ~ctx.err

Passes ==
  <<"compose_affines", "fuse_matmul_views", "fuse_views", "dce_nops", "fuse_norm", "fuse_gelu",
    "fuse_region", "dce_nops", "fuse_mma_epilogue", "dce_nops">>

\* One pass, if it is the next.
Rewrite(name, c) ==
  /\ Drained /\ pass < Len(Passes) /\ Passes[pass + 1] = name
  /\ ctx' = c
  /\ pass' = pass + 1
  /\ UNCHANGED <<prog, rest, mainLen, running>>

RewriteList ==
  \/ Rewrite("compose_affines", ComposeAffines(ctx))
  \/ Rewrite("fuse_matmul_views", FuseMatmulViews(ctx))
  \/ Rewrite("fuse_views", FuseViews(ctx))
  \/ Rewrite("dce_nops", DceNops(ctx))
  \/ Rewrite("fuse_norm", FuseNorm(ctx))
  \/ Rewrite("fuse_gelu", FuseGelu(ctx))
  \/ Rewrite("fuse_region", FuseRegion(ctx, mainLen))
  \/ Rewrite("fuse_mma_epilogue", FuseMmaEpilogue(ctx))

(* Running a list without control tile by tile *)

Finished == Drained /\ pass = Len(Passes)

Straight == \A i \in DOMAIN ctx.instrs : ctx.instrs[i].op \notin Control

Load ==
  /\ Finished /\ Straight /\ mem = <<>>
  /\ mem' = Loaded(ctx, prog)
  /\ todo' = [k \in DOMAIN ctx.instrs |->
               IF IsNop(ctx.instrs[k]) THEN {} ELSE 0 .. NTiles(ctx.instrs[k]) - 1]
  /\ UNCHANGED lowering

MayRun(k) ==
  \A j \in 1 .. k - 1 : todo[j] # {} => ~Conflict(ctx.instrs[j], ctx.instrs[k])

RunOne(k, t) ==
  /\ t \in todo[k] /\ MayRun(k)
  /\ mem' = RunTile(Dts(ctx), ctx.instrs[k], mem, t)
  /\ todo' = [todo EXCEPT ![k] = @ \ {t}]
  /\ UNCHANGED lowering

Tile == \E k \in DOMAIN todo : \E t \in todo[k] : RunOne(k, t)

AllRun == mem # <<>> /\ \A k \in DOMAIN todo : todo[k] = {}

\* The program is refused, or its list is complete and, where it is run tile
\* by tile, has run; in no other state is there nothing to do.
Ended == (ctx.err \/ (Finished /\ ~Straight) \/ AllRun) /\ UNCHANGED vars

Next == LowerRootOp \/ EndRoot \/ LowerRegion \/ RewriteList \/ Load \/ Tile \/ Ended

Spec == Init /\ [][Next]_vars

(* Properties *)

\* From the moment all blocks are lowered, and after every pass, the list
\* computes what the program means: loops carried in place, blocks lowered
\* late, unrolled iterations, folded views, fused patterns.  What the
\* handlers document as unsupported is refused, and nothing else is.
MeaningPreserved ==
  /\ ctx.err => prog.refused
  /\ Drained /\ mem = <<>> =>
       ~prog.refused /\ Execute(ctx, prog, mainLen) = ProgramMeaning(prog)

\* Every order of the tiles that the conflicts allow computes what the
\* program means.
AnyOrder ==
  AllRun => [k \in DOMAIN ctx.outputs |-> mem[ctx.outputs[k]]] = ProgramMeaning(prog)

Runnable == {r \in UNION {{<<k, t>> : t \in todo[k]} : k \in DOMAIN todo} : MayRun(r[1])}

WrittenBy(r) ==
  {Destination(ctx.instrs[r[1]], mem, i) : i \in Items(ctx.instrs[r[1]], r[2])}

\* No tile that may run now writes outside its destination buffer, where the
\* arena holds another buffer.
WritesInBounds ==
  \A r \in Runnable : WrittenBy(r) \subseteq DOMAIN mem[ctx.instrs[r[1]].dst]

Combines(ins) == ins.op = "scatter_index" /\ ins.p.fn # "set"

\* No two tiles that may run now, on two lanes, write the same element; a
\* combining scatter may, since it does so by atomic operations.
OneWriter ==
  \A r, s \in Runnable :
    r # s /\ ctx.instrs[r[1]].dst = ctx.instrs[s[1]].dst /\ ~Combines(ctx.instrs[r[1]])
      => WrittenBy(r) \cap WrittenBy(s) = {}
=============================================================================
