--------------------------- MODULE LoweringContext ---------------------------
(***************************************************************************)
(* The state a lowering carries from one operation to the next (_Ctx and   *)
(* the helpers around it, python/pjrt_ocl/lowering.py) and the handlers of *)
(* lowering.py itself.  A handler is an operator from a context and an     *)
(* operation to the context after it.                                      *)
(***************************************************************************)
EXTENDS TensorVM

\* ty and def: the type of every source value and the operation it is the
\* result of.  bufs: element count and kind of the buffers; val and cbuf: the
\* buffer, or the real and imaginary buffers, of a value; scalar and bcast:
\* const_scalar and scalar_bcast; cache: _concat_idx_cache; queue: the regions
\* still to lower; inputs and outputs: buffers of the arguments and results.
NewContext(ty, def) ==
  [ty |-> ty, def |-> def, bufs |-> <<>>, instrs |-> <<>>, consts |-> <<>>,
   val |-> <<>>, cbuf |-> <<>>, scalar |-> <<>>, bcast |-> <<>>, cache |-> <<>>,
   queue |-> <<>>, inputs |-> <<>>, outputs |-> <<>>, err |-> FALSE]

\* raise LoweringError
Reject(ctx) == [ctx EXCEPT !.err = TRUE]

Emit(ctx, ins) == [ctx EXCEPT !.instrs = Append(@, ins)]

NewBuffer(ctx, n, dt) == [ctx EXCEPT !.bufs = Append(@, [n |-> n, dt |-> dt])]

\* The buffer new_buffer returned last.
Newest(ctx) == Len(ctx.bufs) - 1

\* The one it would return next.
Fresh(ctx) == Len(ctx.bufs)

\* A new buffer of n elements and the instruction that fills it.
Make(ctx, opcode, a, b, n, dt, p) ==
  Emit(NewBuffer(ctx, n, dt), Instr(opcode, Fresh(ctx), a, b, n, p))

Dts(ctx) == [b \in 0 .. Newest(ctx) |-> ctx.bufs[b + 1].dt]

Bind(ctx, v, b) == [ctx EXCEPT !.val = (v :> b) @@ @]

BindPair(ctx, v, re, im) == [ctx EXCEPT !.cbuf = (v :> Pair(re, im)) @@ @]

Shape(ctx, v) == ctx.ty[v].shape
Count(ctx, v) == Prod(Shape(ctx, v))
Kind(ctx, v)  == ctx.ty[v].dt

IsComplex(ctx, v) == Kind(ctx, v) = "c64"

\* buf_for fails on a value that has no buffer.
Bound(ctx, op) == \A k \in DOMAIN op.args : op.args[k] \in DOMAIN ctx.val

\* A buffer of the result's size and kind, the instruction filling it, and
\* the result bound to it.
EmitResult(ctx, op, opcode, a, b, p) ==
  LET r == op.res[1]
  IN Bind(Make(ctx, opcode, a, b, Count(ctx, r), Kind(ctx, r), p), r, Fresh(ctx))

\* Same element count and kind on the operands as on the result.
SameTypes(ctx, op) ==
  \A k \in DOMAIN op.args :
    /\ Count(ctx, op.args[k]) = Count(ctx, op.res[1])
    /\ Kind(ctx, op.args[k]) = Kind(ctx, op.res[1])

\* _affine_st: x + c, x - c, c - x or x * c as s and t of x * s + t.
AffineOf(name, onRight, c) ==
  CASE name = "multiply" -> [s |-> c, t |-> 0]
    [] name = "add"      -> [s |-> 1, t |-> c]
    [] name = "subtract" /\ onRight  -> [s |-> 1, t |-> Wrap(-c)]
    [] name = "subtract" /\ ~onRight -> [s |-> -1, t |-> c]

\* emit_affine: b names a again.
EmitAffine(ctx, op, x, st) == EmitResult(ctx, op, "affine", ctx.val[x], ctx.val[x], st)

\* _elementwise_binop: one operand a broadcast constant folds into an affine.
FoldingBinop(ctx, op) ==
  LET lhs == op.args[1]
      rhs == op.args[2]
      Folds(c, x) == Kind(ctx, op.res[1]) = "f32" /\ c \in DOMAIN ctx.bcast
                     /\ x \notin DOMAIN ctx.bcast
  IN CASE ~SameTypes(ctx, op) -> Reject(ctx)
       [] SameTypes(ctx, op) /\ Folds(rhs, lhs) ->
            EmitAffine(ctx, op, lhs, AffineOf(op.name, TRUE, ctx.bcast[rhs]))
       [] SameTypes(ctx, op) /\ Folds(lhs, rhs) ->
            EmitAffine(ctx, op, rhs, AffineOf(op.name, FALSE, ctx.bcast[lhs]))
       [] OTHER -> EmitResult(ctx, op, op.name, ctx.val[lhs], ctx.val[rhs], <<>>)

\* A pool constant; a buffer of one float is remembered as a scalar.
LowerConstant(ctx, op) ==
  LET r == op.res[1]
      d == Bind([NewBuffer(ctx, Count(ctx, r), Kind(ctx, r))
                   EXCEPT !.consts = Append(@, [buf |-> Fresh(ctx), data |-> op.at.data])],
                r, Fresh(ctx))
  IN IF Count(ctx, r) = 1 /\ Kind(ctx, r) = "f32"
     THEN [d EXCEPT !.scalar = (r :> op.at.data[0]) @@ @] ELSE d

\* Results that are their operands: sharding hints, barriers.
AliasAll(ctx, op) ==
  [ctx EXCEPT !.val = [v \in {op.res[k] : k \in DOMAIN op.res}
                         |-> ctx.val[op.args[Position(op.res, v)]]] @@ @]

LowerSdyIdentity(ctx, op) == AliasAll(ctx, op)

\* _alias_value: dst is src from here on, a complex pair as a pair.
AliasValue(ctx, dst, src) ==
  CASE src \in DOMAIN ctx.cbuf -> BindPair(ctx, dst, ctx.cbuf[src].re, ctx.cbuf[src].im)
    [] src \notin DOMAIN ctx.cbuf /\ src \in DOMAIN ctx.val -> Bind(ctx, dst, ctx.val[src])
    [] OTHER -> Reject(ctx)
=============================================================================
