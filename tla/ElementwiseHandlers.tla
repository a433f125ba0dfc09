------------------------- MODULE ElementwiseHandlers -------------------------
(***************************************************************************)
(* python/pjrt_ocl/ops/elementwise.py, making.py and bitcast.py.           *)
(***************************************************************************)
EXTENDS LoweringContext

LowerBinop(ctx, op) ==
  IF SameTypes(ctx, op)
  THEN EmitResult(ctx, op, op.name, ctx.val[op.args[1]], ctx.val[op.args[2]], <<>>)
  ELSE Reject(ctx)

\* The second operand field stays 0.
LowerUnop(ctx, op) ==
  IF SameTypes(ctx, op) THEN EmitResult(ctx, op, op.name, ctx.val[op.args[1]], 0, <<>>)
  ELSE Reject(ctx)

LowerCompare(ctx, op) ==
  IF /\ Count(ctx, op.args[1]) = Count(ctx, op.args[2])
     /\ Kind(ctx, op.args[1]) = Kind(ctx, op.args[2])
  THEN EmitResult(ctx, op, "compare", ctx.val[op.args[1]], ctx.val[op.args[2]],
                  [dir |-> op.at.dir])
  ELSE Reject(ctx)

LowerSelect(ctx, op) ==
  IF /\ Count(ctx, op.args[2]) = Count(ctx, op.args[3])
     /\ Kind(ctx, op.args[2]) = Kind(ctx, op.args[3])
  THEN EmitResult(ctx, op, "select", ctx.val[op.args[2]], ctx.val[op.args[3]],
                  [pred |-> ctx.val[op.args[1]]])
  ELSE Reject(ctx)

\* max(lo, min(x, hi)) as two instructions.
LowerClamp(ctx, op) ==
  LET below == Make(ctx, "minimum", ctx.val[op.args[2]], ctx.val[op.args[3]],
                    Count(ctx, op.args[2]), Kind(ctx, op.args[2]), <<>>)
  IN IF SameTypes(ctx, op)
     THEN EmitResult(below, op, "maximum", Fresh(ctx), ctx.val[op.args[1]], <<>>)
     ELSE Reject(ctx)

LowerIsFinite(ctx, op) == EmitResult(ctx, op, "is_finite", ctx.val[op.args[1]], 0, <<>>)

LowerIota(ctx, op) ==
  IF op.at.dim \in DOMAIN Shape(ctx, op.res[1])
  THEN EmitResult(ctx, op, "iota", 0, 0, [dims |-> Shape(ctx, op.res[1]), dim |-> op.at.dim])
  ELSE Reject(ctx)

LowerRealConvert(ctx, op) ==
  IF Shape(ctx, op.args[1]) = Shape(ctx, op.res[1])
  THEN EmitResult(ctx, op, "convert", ctx.val[op.args[1]], 0, <<>>)
  ELSE Reject(ctx)

\* itemsize of the element kinds.
Width(dt) == IF dt = "bool" THEN 1 ELSE 4

LowerBitcast(ctx, op) ==
  IF /\ Width(Kind(ctx, op.args[1])) = Width(Kind(ctx, op.res[1]))
     /\ Count(ctx, op.args[1]) = Count(ctx, op.res[1])
  THEN EmitResult(ctx, op, "bitcast_convert", ctx.val[op.args[1]], 0, <<>>)
  ELSE Reject(ctx)
=============================================================================
