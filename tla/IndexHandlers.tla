---------------------------- MODULE IndexHandlers ----------------------------
(***************************************************************************)
(* python/pjrt_ocl/ops/gather_index.py and scatter_index.py: element       *)
(* offsets that depend on run-time indices.  at.window names the axes of   *)
(* the result (of the updates) that run inside the window, at.dropped the  *)
(* operand axes that are collapsed (inserted), at.map the operand axis of  *)
(* each component of an index vector, at.ivd the axis of the indices that  *)
(* holds the vector.                                                       *)
(***************************************************************************)
EXTENDS ShapeHandlers

\* The part _plan is written twice for: the strides of the operand and of
\* the indices along every axis of the tensor of shape outer, or no legal
\* plan.  sizes: the window on every operand axis.
Plan(in, si, outer, at, sizes) ==
  LET kept    == Without(Axes(in), at.dropped)
      window  == SelectSeq(Axes(outer), LAMBDA d : d \in at.window)
      batch   == Without(Axes(outer), at.window)
      siBatch == Without(Axes(si), {at.ivd})
      implicit == at.ivd = Len(si) + 1
  IN [legal |-> /\ Len(window) = Len(kept)
                /\ Len(batch) = Len(siBatch)
                /\ IF implicit THEN Len(at.map) = 1 ELSE si[at.ivd] = Len(at.map),
      vec       |-> IF implicit THEN 0 ELSE Strides(si)[at.ivd],
      opStride  |-> [d \in DOMAIN outer |->
                       IF d \in at.window THEN Strides(in)[kept[Position(window, d)]] ELSE 0],
      siStride  |-> [d \in DOMAIN outer |->
                       IF d \in at.window THEN 0 ELSE Strides(si)[siBatch[Position(batch, d)]]],
      idxStride |-> [k \in DOMAIN at.map |-> Strides(in)[at.map[k]]],
      clamp     |-> [k \in DOMAIN at.map |-> in[at.map[k]] - sizes[at.map[k]]]]

GatherPlan(ctx, op) ==
  Plan(Shape(ctx, op.args[1]), Shape(ctx, op.args[2]), Shape(ctx, op.res[1]), op.at, op.at.sizes)

Indexed(plan, dims, idx, fn) ==
  [dims |-> dims, opStride |-> plan.opStride, siStride |-> plan.siStride, vec |-> plan.vec,
   idx |-> idx, idxStride |-> plan.idxStride, clamp |-> plan.clamp, fn |-> fn]

LowerGather(ctx, op) ==
  LET r   == op.res[1]
      idx == ctx.val[op.args[2]]
  IN IF ~GatherPlan(ctx, op).legal \/ Kind(ctx, op.args[2]) # "i32" THEN Reject(ctx)
     ELSE Bind(Emit(NewBuffer(ctx, Count(ctx, r), Kind(ctx, op.args[1])),
                    [Instr("gather_index", Fresh(ctx), ctx.val[op.args[1]], 0, Count(ctx, r),
                           Indexed(GatherPlan(ctx, op), Shape(ctx, r), idx, "none"))
                       EXCEPT !.hint = {idx}]), r, Fresh(ctx))

\* _classify_update: the update replaces (its body is empty) or combines.
UpdateKind(body) ==
  CASE body = <<>> -> "set"
    [] Len(body) = 1 /\ body[1] \in {"add", "maximum", "minimum"} -> body[1]
    [] OTHER -> "none"

\* The update's window is 1 on an inserted axis and runs through the updates'
\* window axis on the others.
ScatterPlan(ctx, op) ==
  LET in     == Shape(ctx, op.args[1])
      upd    == Shape(ctx, op.args[3])
      kept   == Without(Axes(in), op.at.dropped)
      window == SelectSeq(Axes(upd), LAMBDA d : d \in op.at.window)
      sizes  == [d \in DOMAIN in |->
                   IF d \in op.at.dropped THEN 1 ELSE upd[window[Position(kept, d)]]]
  IN Plan(in, Shape(ctx, op.args[2]), upd, op.at, sizes)

\* The operand into the result, then the updates over it.
LowerScatter(ctx, op) ==
  LET kind == UpdateKind(op.at.body)
      idx  == ctx.val[op.args[2]]
      upd  == Shape(ctx, op.args[3])
      legal == /\ Len(op.args) = 3
               /\ Kind(ctx, op.args[2]) = "i32"
               /\ kind # "none"
               /\ kind = "set" \/ Kind(ctx, op.args[1]) \in {"f32", "i32", "u32"}
               /\ Len(SelectSeq(Axes(upd), LAMBDA d : d \in op.at.window))
                    = Len(Without(Axes(Shape(ctx, op.args[1])), op.at.dropped))
               /\ ScatterPlan(ctx, op).legal
  IN IF ~legal THEN Reject(ctx)
     ELSE Bind(Emit(EmitCopy(ctx, op.args[1]),
                    [Instr("scatter_index", Fresh(ctx), ctx.val[op.args[3]], 0, Prod(upd),
                           Indexed(ScatterPlan(ctx, op), upd, idx, kind))
                       EXCEPT !.hint = {idx}]), op.res[1], Fresh(ctx))
=============================================================================
