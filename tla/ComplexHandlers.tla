--------------------------- MODULE ComplexHandlers ---------------------------
(***************************************************************************)
(* python/pjrt_ocl/ops/complex_fft.py: a complex value is a pair of real   *)
(* buffers in the context, and no instruction knows of it.                 *)
(***************************************************************************)
EXTENDS ElementwiseHandlers, ReduceHandlers

\* _add, _sub, _mul, _sqrt: one more instruction, its result the newest buffer.
Calc(ctx, opcode, a, b, n) == Make(ctx, opcode, a, b, n, "f32", <<>>)

\* _const_f32
ConstF32(ctx, n, F(_)) ==
  [NewBuffer(ctx, n, "f32")
     EXCEPT !.consts = Append(@, [buf |-> Fresh(ctx), data |-> [i \in 0 .. n - 1 |-> F(i)]])]

Zeros(ctx, n) == ConstF32(ctx, n, LAMBDA i : 0)

\* _dot: b a square matrix of order n.
CalcDot(ctx, a, b, m, n) ==
  Emit(NewBuffer(ctx, m * n, "f32"), Instr("dot", Fresh(ctx), a, b, m, DotParams(n, n, 1)))

LowerConvert(ctx, op) ==
  LET x == op.args[1]
      r == op.res[1]
  IN CASE ~IsComplex(ctx, x) /\ ~IsComplex(ctx, r) -> LowerRealConvert(ctx, op)
       [] IsComplex(ctx, x) /\ IsComplex(ctx, r) ->
            BindPair(ctx, r, ctx.cbuf[x].re, ctx.cbuf[x].im)
       [] ~IsComplex(ctx, x) /\ IsComplex(ctx, r) ->
            BindPair(Zeros(ctx, Count(ctx, x)), r, ctx.val[x], Fresh(ctx))
       [] IsComplex(ctx, x) /\ ~IsComplex(ctx, r) -> Bind(ctx, r, ctx.cbuf[x].re)

LowerComplex(ctx, op) == BindPair(ctx, op.res[1], ctx.val[op.args[1]], ctx.val[op.args[2]])

LowerReal(ctx, op) ==
  LET x == op.args[1]
  IN Bind(ctx, op.res[1], IF x \in DOMAIN ctx.cbuf THEN ctx.cbuf[x].re ELSE ctx.val[x])

LowerImag(ctx, op) ==
  LET x == op.args[1]
  IN IF x \in DOMAIN ctx.cbuf THEN Bind(ctx, op.res[1], ctx.cbuf[x].im)
     ELSE Bind(Zeros(ctx, Count(ctx, x)), op.res[1], Fresh(ctx))

LowerAbs(ctx, op) ==
  LET x  == op.args[1]
      n  == Count(ctx, x)
      b  == Fresh(ctx)
      re == Calc(ctx, "multiply", ctx.cbuf[x].re, ctx.cbuf[x].re, n)
      im == Calc(re, "multiply", ctx.cbuf[x].im, ctx.cbuf[x].im, n)
      square == Calc(im, "add", b, b + 1, n)
  IN IF IsComplex(ctx, x) THEN Bind(Calc(square, "sqrt", b + 2, 0, n), op.res[1], b + 3)
     ELSE LowerUnop(ctx, op)

\* _c_add and _c_sub
ComplexSum(ctx, op) ==
  LET x == ctx.cbuf[op.args[1]]
      y == ctx.cbuf[op.args[2]]
      n == Count(ctx, op.res[1])
  IN BindPair(Calc(Calc(ctx, op.name, x.re, y.re, n), op.name, x.im, y.im, n),
              op.res[1], Fresh(ctx), Fresh(ctx) + 1)

\* _c_mul
ComplexProduct(ctx, op) ==
  LET x == ctx.cbuf[op.args[1]]
      y == ctx.cbuf[op.args[2]]
      n == Count(ctx, op.res[1])
      b == Fresh(ctx)
      \* a1 * b1 and a2 * b2 and what is to be done with them
      Products(c, fn, a1, b1, a2, b2) ==
        Calc(Calc(Calc(c, "multiply", a1, b1, n), "multiply", a2, b2, n),
             fn, Fresh(c), Fresh(c) + 1, n)
      re == Products(ctx, "subtract", x.re, y.re, x.im, y.im)
  IN BindPair(Products(re, "add", x.re, y.im, x.im, y.re), op.res[1], b + 2, b + 5)

LowerSum(ctx, op) ==
  IF IsComplex(ctx, op.res[1]) THEN ComplexSum(ctx, op) ELSE FoldingBinop(ctx, op)

LowerProduct(ctx, op) ==
  IF IsComplex(ctx, op.res[1]) THEN ComplexProduct(ctx, op) ELSE FoldingBinop(ctx, op)

LowerNegate(ctx, op) ==
  LET x == op.args[1]
      n == Count(ctx, x)
      z == Fresh(ctx)
      re == Calc(Zeros(ctx, n), "subtract", z, ctx.cbuf[x].re, n)
  IN IF IsComplex(ctx, x)
     THEN BindPair(Calc(re, "subtract", z, ctx.cbuf[x].im, n), op.res[1], z + 1, z + 2)
     ELSE LowerUnop(ctx, op)

\* The transform of the last axis as matmuls with constant matrices.
LowerFft(ctx, op) ==
  LET x  == op.args[1]
      n  == op.at.len
      m  == Count(ctx, x) \div n
      re == ctx.cbuf[x].re
      im == ctx.cbuf[x].im
      w  == Fresh(ctx)
      v  == w + 1
      dft == ConstF32(ConstF32(ctx, n * n, LAMBDA i : FourierRe(n, i \div n, i % n)),
                      n * n, LAMBDA i : FourierIm(n, i \div n, i % n))
      dots == CalcDot(CalcDot(CalcDot(CalcDot(dft, re, w, m, n), im, v, m, n), re, v, m, n),
                      im, w, m, n)
      sums == Calc(Calc(dots, "subtract", v + 1, v + 2, m * n), "add", v + 3, v + 4, m * n)
      shape == Shape(ctx, x)
  IN IF op.at.kind = "FFT" /\ shape # <<>> /\ shape[Len(shape)] = n
     THEN BindPair(sums, op.res[1], v + 5, v + 6)
     ELSE Reject(ctx)
=============================================================================
