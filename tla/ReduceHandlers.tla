---------------------------- MODULE ReduceHandlers ----------------------------
(***************************************************************************)
(* python/pjrt_ocl/ops/reduce.py, reduce_window.py, dot.py and conv.py.    *)
(***************************************************************************)
EXTENDS ShapeHandlers

(* reduce *)

Reducers == {"add", "maximum", "minimum", "multiply", "and", "or", "xor"}

\* _read_scalar_const: the constant a value is, or nothing.
ScalarConstant(ctx, v) ==
  IF ctx.def[v].name = "constant" /\ Count(ctx, v) = 1 THEN {ctx.def[v].at.data[0]} ELSE {}

\* _assert_identity
IsIdentity(fn, init, dt) ==
  CASE dt = "bool" -> fn \notin {"add", "multiply"} /\ init = (IF fn \in {"and", "minimum"} THEN 1 ELSE 0)
    [] dt # "bool" -> /\ dt = "f32" => fn \notin {"and", "or", "xor"}
                      /\ init = (IF fn = "and" THEN -1 ELSE Identity(fn))

\* The reduced axes as one block: outer times red times inner elements.
Block(shape, dims) ==
  LET first == CHOOSE d \in dims : \A e \in dims : d <= e
      last  == CHOOSE d \in dims : \A e \in dims : e <= d
  IN [whole |-> Cardinality(dims) = last - first + 1,
      red   |-> Prod(SubSeq(shape, first, last)),
      inner |-> Prod(SubSeq(shape, last + 1, Len(shape)))]

\* All axes: partial results, then one more pass over them.
ReduceAll(ctx, op, fn) ==
  LET x     == op.args[1]
      n     == Count(ctx, x)
      parts == Fresh(ctx)
      c     == Emit(NewBuffer(ctx, NParts(n), Kind(ctx, x)),
                    Instr("reduce_part", parts, ctx.val[x], ctx.val[x], n, [fn |-> fn]))
  IN Bind(Emit(NewBuffer(c, 1, Kind(ctx, x)),
               Instr("reduce_comb", parts + 1, parts, parts, NParts(n), [fn |-> fn])),
          op.res[1], parts + 1)

ReduceBlock(ctx, op, fn) ==
  LET x == op.args[1]
      b == Block(Shape(ctx, x), op.at.dims)
  IN IF b.inner = 1
     THEN EmitResult(ctx, op, "reduce_seg", ctx.val[x], ctx.val[x], [fn |-> fn, seg |-> b.red])
     ELSE EmitResult(ctx, op, "reduce_strided", ctx.val[x], ctx.val[x],
                     [fn |-> fn, red |-> b.red, inner |-> b.inner])

LowerReduce(ctx, op) ==
  LET x    == op.args[1]
      fn   == op.at.body[1]
      all  == op.at.dims = DOMAIN Shape(ctx, x)
      init == IF Len(op.args) = 2 THEN ScalarConstant(ctx, op.args[2]) ELSE {}
  IN CASE \/ Len(op.args) # 2
          \/ Len(op.at.body) # 1
          \/ fn \notin Reducers
          \/ \A c \in init : ~IsIdentity(fn, c, Kind(ctx, x)) -> Reject(ctx)
       [] OTHER -> IF all THEN ReduceAll(ctx, op, fn)
                   ELSE IF Block(Shape(ctx, x), op.at.dims).whole THEN ReduceBlock(ctx, op, fn)
                   ELSE Reject(ctx)

(* reduce_window *)

RECURSIVE InitOf(_, _)
\* _read_init: the constant behind the reshapes and broadcasts of a scalar.
InitOf(ctx, v) ==
  LET d == ctx.def[v]
  IN CASE d.name = "constant" -> ScalarConstant(ctx, v)
       [] d.name \in {"broadcast_in_dim", "reshape", "convert"} -> InitOf(ctx, d.args[1])
       [] OTHER -> {}

LowerReduceWindow(ctx, op) ==
  LET at == op.at
      x  == op.args[1]
      fn == at.body[1]
      axes == DOMAIN Shape(ctx, x)
      legal == /\ Len(op.args) = 2
               /\ Kind(ctx, x) \in {"f32", "i32", "u32"}
               /\ \A d \in axes : at.dilation[d] = 1 /\ at.base[d] = 1
               /\ \A d \in axes : at.low[d] >= 0 /\ at.high[d] >= 0
               /\ Len(at.body) = 1 /\ fn \in {"add", "maximum", "minimum"}
               /\ \E c \in InitOf(ctx, op.args[2]) : IsIdentity(fn, c, Kind(ctx, x))
  IN IF legal
     THEN EmitResult(ctx, op, "reduce_window", ctx.val[x], 0,
                     [fn |-> fn, dims |-> Shape(ctx, op.res[1]), win |-> at.win,
                      stride |-> at.stride, low |-> at.low, src |-> Shape(ctx, x)])
     ELSE Reject(ctx)

(* dot_general *)

\* _canonicalize: the axes of value x in the order batch, free, contracted
\* (contracted before free for the right operand), by a gather if they are
\* not in it already.
Canonical(ctx, x, batch, contract, contractFirst) ==
  LET shape == Shape(ctx, x)
      free  == Without(Axes(shape), Range1(batch) \cup {contract})
      Permuted(perm, out) ==
        [ctx |-> Make(ctx, "gather", ctx.val[x], 0, Prod(out), "f32",
                      View(out, [k \in DOMAIN perm |-> Strides(shape)[perm[k]]], 0)),
         buf |-> Fresh(ctx), shape |-> out]
      Order(perm) ==
        IF perm = Axes(shape) THEN [ctx |-> ctx, buf |-> ctx.val[x], shape |-> shape]
        ELSE Permuted(perm, [k \in DOMAIN perm |-> shape[perm[k]]])
  IN Order(batch \o (IF contractFirst THEN <<contract>> \o free ELSE free \o <<contract>>))

DotParams(N, K, G) == [N |-> N, K |-> K, G |-> G, epi |-> <<>>, res |-> 0]

\* As C[G, M, N] = A[G, M, K] @ B[G, K, N] over flattened free axes; l and r
\* are the operands in canonical order.
EmitDot(ctx, op, l, r) ==
  LET nb == Len(op.at.lb)
      K  == l.shape[Len(l.shape)]
      G  == Prod(SubSeq(l.shape, 1, nb))
      M  == Prod(SubSeq(l.shape, nb + 1, Len(l.shape) - 1))
      N  == Prod(SubSeq(r.shape, nb + 2, Len(r.shape)))
      legal == /\ Len(op.at.rb) = nb
               /\ SubSeq(l.shape, 1, nb) = SubSeq(r.shape, 1, nb)
               /\ r.shape[nb + 1] = K
  IN IF legal
     THEN Bind(Emit(NewBuffer(r.ctx, G * M * N, "f32"),
                    Instr("dot", Fresh(r.ctx), l.buf, r.buf, M, DotParams(N, K, G))),
               op.res[1], Fresh(r.ctx))
     ELSE Reject(ctx)

LowerDotGeneral(ctx, op) ==
  LET at == op.at
      Right(l) == EmitDot(ctx, op, l, Canonical(l.ctx, op.args[2], at.rb, at.rc, TRUE))
  IN Right(Canonical(ctx, op.args[1], at.lb, at.lc, FALSE))

(* convolution *)

\* Input [batch, spatial, features], kernel [spatial, in, out].
LowerConvolution(ctx, op) ==
  LET at   == op.at
      in   == Shape(ctx, op.args[1])
      w    == Shape(ctx, op.args[2])
      sdim == Len(in) - 2
      legal == /\ \A v \in Range1(op.args \o op.res) : Kind(ctx, v) = "f32"
               /\ sdim \in 1 .. 4
               /\ at.canonical /\ at.groups = 1
               /\ \A d \in 1 .. sdim : /\ at.base[d] = 1
                                       /\ at.low[d] >= 0 /\ at.high[d] >= 0
  IN IF legal
     THEN EmitResult(ctx, op, "conv", ctx.val[op.args[1]], ctx.val[op.args[2]],
                     [cin |-> in[sdim + 2], cout |-> w[sdim + 2],
                      dims |-> SubSeq(Shape(ctx, op.res[1]), 2, sdim + 1),
                      win |-> SubSeq(w, 1, sdim), stride |-> at.stride, low |-> at.low,
                      dil |-> at.dilation, src |-> SubSeq(in, 2, sdim + 1)])
     ELSE Reject(ctx)
=============================================================================
