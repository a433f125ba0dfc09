----------------------------- MODULE StableHLO -----------------------------
(***************************************************************************)
(* What the StableHLO operations mean, stated on coordinates.  The code    *)
(* works on flat strides instead, so agreement of the two is a check.      *)
(*                                                                         *)
(* An operation names its argument and result values; at holds its         *)
(* attributes, axes numbered from 1.  ty gives each value its type, a      *)
(* shape and an element kind: "f32", "i32", "u32", "bool", "c64".          *)
(***************************************************************************)
EXTENDS Tensors

Type(dt, shape) == [dt |-> dt, shape |-> shape]

Op(name, args, res, at) == [name |-> name, args |-> args, res |-> res, at |-> at]

NoAttrs == [none |-> TRUE]

Unary == {"negate", "abs", "sign", "exponential", "log", "sqrt", "rsqrt", "tanh",
          "floor", "ceil", "sine", "is_finite"}

Binary == {"add", "subtract", "multiply", "divide", "maximum", "minimum", "and",
           "or", "xor", "power", "remainder", "atan2"}

\* Values of a complex tensor are pairs of tensors.
Pair(re, im) == [re |-> re, im |-> im]

Map2(fn, x, y) == [i \in DOMAIN x |-> BinaryFn(fn, x[i], y[i])]

Not(dt, x) == IF dt = "bool" THEN 1 - x ELSE Wrap(-1 - x)

\* float to integer drops the fraction; the other conversions keep the value.
Cast(from, to, x) == IF from = "f32" /\ to # "f32" THEN Opaque("trunc", x) ELSE x

\* The bits of a float read as an integer, and back: some one-to-one map.
Bits(from, to, x) ==
  CASE from = "f32" /\ to # "f32" -> Wrap(7 * x + 3)
    [] from # "f32" /\ to = "f32" -> Wrap((x - 3) * Inv(7))
    [] OTHER                      -> x

\* The entry (k, j) of the discrete Fourier matrix of order n.
FourierRe(n, k, j) == Opaque("sine", ((k * j) % n) + 1)
FourierIm(n, k, j) == Opaque("tanh", ((k * j) % n) + 1)

(* Data movement *)

Broadcast(xs, x, out, dims) ==
  Tensor(out, LAMBDA c : At(x, xs, [d \in DOMAIN xs |->
                                      IF xs[d] = 1 THEN 0 ELSE c[dims[d]]]))

Transpose(xs, x, out, perm) ==
  Tensor(out, LAMBDA c : At(x, xs, [d \in DOMAIN xs |-> c[Position(perm, d)]]))

Slice(xs, x, out, start, stride) ==
  Tensor(out, LAMBDA c : At(x, xs, [d \in DOMAIN xs |-> start[d] + c[d] * stride[d]]))

Reverse(xs, x, dims) ==
  Tensor(xs, LAMBDA c : At(x, xs, [d \in DOMAIN xs |->
                                     IF d \in dims THEN xs[d] - 1 - c[d] ELSE c[d]]))

RECURSIVE Concat(_, _, _, _)
\* The element at c of the tensors x, of shapes xs, joined along axis d.
Concat(xs, x, d, c) ==
  IF c[d] < Head(xs)[d] THEN At(Head(x), Head(xs), c)
  ELSE Concat(Tail(xs), Tail(x), d,
              [k \in DOMAIN c |-> IF k = d THEN c[k] - Head(xs)[d] ELSE c[k]])

Pad(xs, x, fill, out, low, interior) ==
  Tensor(out, LAMBDA c :
    LET p == [d \in DOMAIN xs |-> c[d] - low[d]]
        q == [d \in DOMAIN xs |-> p[d] \div (interior[d] + 1)]
    IN IF /\ \A d \in DOMAIN xs : p[d] >= 0 /\ p[d] % (interior[d] + 1) = 0
          /\ Inside(xs, q)
       THEN At(x, xs, q) ELSE fill)

\* Run-time starts are clamped so that the window lies inside the operand.
Start(xs, window, s) ==
  [d \in DOMAIN xs |-> Clamp(s[d][0], xs[d] - window[d])]

DynamicSlice(xs, x, s, out) ==
  Tensor(out, LAMBDA c : At(x, xs, [d \in DOMAIN xs |-> Start(xs, out, s)[d] + c[d]]))

DynamicUpdateSlice(xs, x, us, u, s) ==
  Tensor(xs, LAMBDA c :
    LET p == [d \in DOMAIN xs |-> c[d] - Start(xs, us, s)[d]]
    IN IF Inside(us, p) THEN At(u, us, p) ELSE At(x, xs, c))

\* The k-th component of the index vector for the batch coordinates b.
IndexAt(ss, s, ivd, b, k) ==
  LET batch == Without(Axes(ss), {ivd})
  IN At(s, ss, [d \in DOMAIN ss |-> IF d = ivd THEN k - 1 ELSE b[Position(batch, d)]])

\* What axis d of the operand starts from, by the index vector for the
\* coordinates c of a gather's result or a scatter's updates; window names the
\* axes of c that run in the window.
StartAt(ss, s, at, c, d) ==
  LET rest == Without([e \in DOMAIN c |-> e], at.window)
      b    == [k \in DOMAIN rest |-> c[rest[k]]]
  IN IF d \in Range1(at.map) THEN IndexAt(ss, s, at.ivd, b, Position(at.map, d)) ELSE 0

\* How far c lies from there: an axis that is dropped has no coordinate in c.
OffsetAt(xs, at, c, d) ==
  LET kept == Without(Axes(xs), at.dropped)
      off  == SelectSeq([e \in DOMAIN c |-> e], LAMBDA e : e \in at.window)
  IN IF d \in at.dropped THEN 0 ELSE c[off[Position(kept, d)]]

\* A gather clamps its starts so that the window lies inside the operand ...
Gather(xs, x, ss, s, out, at) ==
  Tensor(out, LAMBDA c :
    At(x, xs, [d \in DOMAIN xs |-> Clamp(StartAt(ss, s, at, c, d), xs[d] - at.sizes[d])
                                     + OffsetAt(xs, at, c, d)]))

RECURSIVE ScatterFrom(_, _, _, _, _, _, _, _)
\* ... a scatter combines its updates, i and later, into x one after the other,
\* and one that falls outside x leaves x as it is.
ScatterFrom(i, xs, x, ss, s, us, u, at) ==
  IF i = Prod(us) THEN x
  ELSE LET c == Coord(us, i)
           p == [d \in DOMAIN xs |-> StartAt(ss, s, at, c, d) + OffsetAt(xs, at, c, d)]
       IN ScatterFrom(i + 1, xs,
                      IF ~Inside(xs, p) THEN x
                      ELSE [x EXCEPT ![Flat(xs, p)] = IF at.body = <<>> THEN u[i]
                                                      ELSE BinaryFn(at.body[1], @, u[i])],
                      ss, s, us, u, at)

(* Reductions and contractions *)

\* The elements of x whose coordinates off the axes dims are those of c.
Fibre(xs, x, dims, c) ==
  LET kept == Without(Axes(xs), dims)
      Here(i) == \A k \in DOMAIN kept : Coord(xs, i)[kept[k]] = c[k]
  IN SelectSeq([i \in 1 .. Prod(xs) |-> IF Here(i - 1) THEN <<x[i - 1]>> ELSE <<>>],
               LAMBDA e : e # <<>>)

ReduceAxes(xs, x, init, out, dims, fn) ==
  Tensor(out, LAMBDA c :
    LET fibre == Fibre(xs, x, dims, c)
    IN Reduce(fn, init, [k \in DOMAIN fibre |-> fibre[k][1]]))

\* Position p of the window over coordinates c, padding subtracted.
Tap(c, w, at) ==
  [d \in DOMAIN c |-> c[d] * at.stride[d] + w[d] * at.dilation[d] - at.low[d]]

ReduceWindow(xs, x, init, out, at) ==
  Tensor(out, LAMBDA c :
    Reduce(at.body[1], init,
           [k \in 1 .. Prod(at.win) |->
              LET p == Tap(c, Coord(at.win, k - 1), at)
              IN IF Inside(xs, p) THEN At(x, xs, p) ELSE init]))

\* Input [b, spatial, f], kernel [spatial, i, o], output [b, spatial, f].
Convolution(xs, x, ks, k, out, at) ==
  LET sdim == Len(xs) - 2
      win  == SubSeq(ks, 1, sdim + 1)
  IN Tensor(out, LAMBDA c :
       SumOf([t \in 1 .. Prod(win) |->
         LET w == Coord(win, t - 1)
             p == <<c[1]>> \o Tap(SubSeq(c, 2, sdim + 1), SubSeq(w, 1, sdim), at)
                    \o <<w[sdim + 1]>>
         IN IF Inside(xs, p) THEN BinaryFn("multiply", At(x, xs, p),
                                           At(k, ks, w \o <<c[sdim + 2]>>))
            ELSE 0]))

\* Result axes: batch, then the free axes of the left and of the right.
DotGeneral(xs, x, ys, y, out, at) ==
  LET nb    == Len(at.lb)
      Of(shape, b, k, f, c, first, m) ==
        [d \in DOMAIN shape |->
           CASE d \in {b[n] : n \in DOMAIN b} -> c[Position(b, d)]
             [] d = k                         -> m
             [] OTHER                         -> c[first + Position(f, d)]]
      FreeOf(shape, b, k) == Without(Axes(shape), {b[n] : n \in DOMAIN b} \cup {k})
      lf == FreeOf(xs, at.lb, at.lc)
      rf == FreeOf(ys, at.rb, at.rc)
  IN Tensor(out, LAMBDA c :
       SumOf([k \in 1 .. xs[at.lc] |->
         BinaryFn("multiply",
           At(x, xs, Of(xs, at.lb, at.lc, lf, c, nb, k - 1)),
           At(y, ys, Of(ys, at.rb, at.rc, rf, c, nb + Len(lf), k - 1)))]))

(* Complex arithmetic *)

ComplexFn(name, x, y) ==
  LET Mul(a, b) == Map2("multiply", a, b)
  IN CASE name \in {"add", "subtract"} -> Pair(Map2(name, x.re, y.re), Map2(name, x.im, y.im))
       [] name = "multiply" ->
            Pair(Map2("subtract", Mul(x.re, y.re), Mul(x.im, y.im)),
                 Map2("add", Mul(x.re, y.im), Mul(x.im, y.re)))

\* The transform over the last axis, of length n.
Fft(shape, x, n) ==
  LET Term(i, k, A(_, _, _), B(_, _, _), fn) ==
        LET row == (i \div n) * n
        IN BinaryFn(fn, SumOf([j \in 1 .. n |-> Wrap(x.re[row + j - 1] * A(n, i % n, j - 1))]),
                        SumOf([j \in 1 .. n |-> Wrap(x.im[row + j - 1] * B(n, i % n, j - 1))]))
  IN Pair([i \in 0 .. Prod(shape) - 1 |-> Term(i, n, FourierRe, FourierIm, "subtract")],
          [i \in 0 .. Prod(shape) - 1 |-> Term(i, n, FourierIm, FourierRe, "add")])

(* One operation *)

\* The result of op on the argument tensors x, of types xt; rt its type.
Meaning(op, xt, x, rt) ==
  LET at == op.at
      xs == xt[1].shape
      out == rt.shape
      Each(F(_)) == [i \in 0 .. Prod(out) - 1 |-> F(i)]
      complex == xt # <<>> /\ xt[1].dt = "c64"
  IN CASE op.name = "constant"             -> at.data
       [] op.name = "iota"                 -> Tensor(out, LAMBDA c : c[at.dim])
       [] op.name \in {"reshape", "optimization_barrier", "sharding_constraint"} -> x[1]
       [] op.name = "not"                  -> Each(LAMBDA i : Not(rt.dt, x[1][i]))
       [] op.name = "compare"              -> Each(LAMBDA i : IF Holds(at.dir, x[1][i], x[2][i])
                                                              THEN 1 ELSE 0)
       [] op.name = "select"               -> Each(LAMBDA i : IF x[1][i] # 0 THEN x[2][i] ELSE x[3][i])
       [] op.name = "clamp"                -> Each(LAMBDA i : Larger(x[1][i], Smaller(x[2][i], x[3][i])))
       [] op.name = "bitcast_convert"      -> Each(LAMBDA i : Bits(xt[1].dt, rt.dt, x[1][i]))
       [] op.name = "broadcast_in_dim"     -> Broadcast(xs, x[1], out, at.dims)
       [] op.name = "transpose"            -> Transpose(xs, x[1], out, at.perm)
       [] op.name = "slice"                -> Slice(xs, x[1], out, at.start, at.stride)
       [] op.name = "reverse"              -> Reverse(xs, x[1], at.dims)
       [] op.name = "concatenate"          ->
            Tensor(out, LAMBDA c : Concat([k \in DOMAIN xt |-> xt[k].shape], x, at.dim, c))
       [] op.name = "pad"                  -> Pad(xs, x[1], x[2][0], out, at.low, at.interior)
       [] op.name = "dynamic_slice"        -> DynamicSlice(xs, x[1], Tail(x), out)
       [] op.name = "dynamic_update_slice" ->
            DynamicUpdateSlice(xs, x[1], xt[2].shape, x[2], SubSeq(x, 3, Len(x)))
       [] op.name = "gather"               -> Gather(xs, x[1], xt[2].shape, x[2], out, at)
       [] op.name = "scatter"              ->
            ScatterFrom(0, xs, x[1], xt[2].shape, x[2], xt[3].shape, x[3], at)
       [] op.name = "reduce"               -> ReduceAxes(xs, x[1], x[2][0], out, at.dims, at.body[1])
       [] op.name = "reduce_window"        -> ReduceWindow(xs, x[1], x[2][0], out, at)
       [] op.name = "convolution"          -> Convolution(xs, x[1], xt[2].shape, x[2], out, at)
       [] op.name = "dot_general"          -> DotGeneral(xs, x[1], xt[2].shape, x[2], out, at)
       [] op.name = "complex"              -> Pair(x[1], x[2])
       [] op.name = "real"                 -> IF complex THEN x[1].re ELSE x[1]
       [] op.name = "imag"                 -> IF complex THEN x[1].im ELSE Each(LAMBDA i : 0)
       [] op.name = "fft"                  -> Fft(xs, x[1], at.len)
       [] op.name = "convert" /\ complex   -> IF rt.dt = "c64" THEN x[1] ELSE x[1].re
       [] op.name = "convert" /\ ~complex  ->
            IF rt.dt = "c64" THEN Pair(x[1], Each(LAMBDA i : 0))
            ELSE Each(LAMBDA i : Cast(xt[1].dt, rt.dt, x[1][i]))
       [] op.name = "abs" /\ complex       ->
            Each(LAMBDA i : Opaque("sqrt", Wrap(x[1].re[i] * x[1].re[i] + x[1].im[i] * x[1].im[i])))
       [] op.name = "negate" /\ complex    ->
            Pair(Each(LAMBDA i : Wrap(-x[1].re[i])), Each(LAMBDA i : Wrap(-x[1].im[i])))
       [] op.name \in Binary /\ complex    -> ComplexFn(op.name, x[1], x[2])
       [] op.name \in Binary /\ ~complex   -> Map2(op.name, x[1], x[2])
       [] op.name \in Unary /\ ~complex    -> Each(LAMBDA i : UnaryFn(op.name, x[1][i]))
=============================================================================
