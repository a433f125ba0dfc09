---------------------------- MODULE PatternFusions ----------------------------
(***************************************************************************)
(* _fuse_norm and _fuse_gelu (python/pjrt_ocl/lowering.py): the chains of  *)
(* instructions that compute a softmax, the core of a layer norm or a gelu *)
(* become one instruction; the rest of the chain is left to the removal of *)
(* dead code.                                                              *)
(***************************************************************************)
EXTENDS Fusions

\* _NORM_SEG_MAX
CONSTANT NormSegMax

ASSUME NormSegMaxNat == NormSegMax \in Nat

\* find: the first of the instructions S, if any.
First(S) == IF S = {} THEN {} ELSE {Least(S)}

\* The first live instruction with this opcode and property.
FirstOp(ctx, opcode, P(_)) ==
  First({j \in Live(ctx.instrs) : ctx.instrs[j].op = opcode /\ P(ctx.instrs[j])})

\* producer, is_op: what alone writes buffer b, if its opcode is this one.
Producer(ctx, b, opcode) ==
  {j \in Writers(ctx.instrs, b) : Once(ctx.instrs, b) /\ ctx.instrs[j].op = opcode}

RECURSIVE BcastSrc(_, _)
\* The buffer behind a chain of gathers.
BcastSrc(ctx, b) ==
  LET g == Producer(ctx, b, "gather")
  IN IF g = {} THEN b ELSE BcastSrc(ctx, ctx.instrs[TheOne(g)].a)

\* const_f: is b a constant all of whose elements are x?
IsConst(ctx, b, x) ==
  \E c \in Range1(ctx.consts) :
    c.buf = b /\ DType(ctx, b) = "f32" /\ \A i \in DOMAIN c.data : c.data[i] = x

(* Norms *)

\* max, x - max, exp, sum, exp / sum: the last one.
SoftmaxEnd(ctx, r1) ==
  LET R1  == ctx.instrs[r1]
      seg == R1.p.seg
      sub == FirstOp(ctx, "subtract", LAMBDA s :
               s.a = R1.a /\ s.n = R1.n * seg /\ BcastSrc(ctx, s.b) = R1.dst)
      exp == FirstOp(ctx, "exponential", LAMBDA s : s.a \in Dst(ctx, sub))
      sum == FirstOp(ctx, "reduce_seg", LAMBDA s :
               s.a \in Dst(ctx, exp) /\ s.p = [fn |-> "add", seg |-> seg] /\ s.n = R1.n)
  IN FirstOp(ctx, "divide", LAMBDA s :
       s.a \in Dst(ctx, exp) /\ s.n = R1.n * seg /\ BcastSrc(ctx, s.b) \in Dst(ctx, sum))

\* sum, mean, x - mean, its square, sum, variance, + eps, ^ -1/2, times
\* x - mean: the last one and the instruction that adds eps.
LayerNormEnd(ctx, r1) ==
  LET R1  == ctx.instrs[r1]
      seg == R1.p.seg
      mean == FirstOp(ctx, "divide", LAMBDA s :
                s.n = R1.n /\ BcastSrc(ctx, s.a) = R1.dst /\ IsConst(ctx, s.b, seg))
      Centred(b) == \E j \in Producer(ctx, b, "subtract") :
                      /\ ctx.instrs[j].a = R1.a /\ ctx.instrs[j].n = R1.n * seg
                      /\ BcastSrc(ctx, ctx.instrs[j].b) \in Dst(ctx, mean)
      sq  == FirstOp(ctx, "multiply", LAMBDA s : s.a = s.b /\ s.n = R1.n * seg /\ Centred(s.a))
      sum == FirstOp(ctx, "reduce_seg", LAMBDA s :
               s.a \in Dst(ctx, sq) /\ s.p = [fn |-> "add", seg |-> seg] /\ s.n = R1.n)
      var == FirstOp(ctx, "divide", LAMBDA s :
               s.n = R1.n /\ BcastSrc(ctx, s.a) \in Dst(ctx, sum) /\ IsConst(ctx, s.b, seg))
      eps == FirstOp(ctx, "affine", LAMBDA s : s.a \in Dst(ctx, var) /\ s.n = R1.n /\ s.p.s = 1)
      pow == FirstOp(ctx, "power", LAMBDA s :
               s.a \in Dst(ctx, eps) /\ IsConst(ctx, s.b, Wrap(-Half)))
      out == FirstOp(ctx, "multiply", LAMBDA s :
               s.n = R1.n * seg /\ Centred(s.a) /\ BcastSrc(ctx, s.b) \in Dst(ctx, pow))
  IN out \X eps

\* The instruction a segmented reduction starts, with what replaces it.
NormAt(ctx, r1) ==
  LET R1 == ctx.instrs[r1]
      Fused(op, j, p) == <<j, Instr(op, ctx.instrs[j].dst, R1.a, R1.a, R1.n, p)>>
      \* not onto an output that is its own operand
      Safe(j) == ~(ctx.instrs[j].dst \in Outs(ctx) /\ R1.a = ctx.instrs[j].dst)
  IN IF R1.op # "reduce_seg" \/ R1.p.seg \notin 1 .. NormSegMax THEN {}
     ELSE CASE R1.p.fn = "maximum" ->
                 {Fused("softmax", j, [seg |-> R1.p.seg]) : j \in {j \in SoftmaxEnd(ctx, r1) : Safe(j)}}
            [] R1.p.fn = "add" ->
                 {Fused("layernorm", e[1], [seg |-> R1.p.seg, eps |-> ctx.instrs[e[2]].p.t]) :
                    e \in {e \in LayerNormEnd(ctx, r1) : Safe(e[1])}}
            [] OTHER -> {}

RECURSIVE FuseNorm(_)
FuseNorm(ctx) ==
  LET starts == {r1 \in Live(ctx.instrs) : NormAt(ctx, r1) # {}}
      one    == TheOne(NormAt(ctx, Least(starts)))
  IN IF starts = {} THEN ctx ELSE FuseNorm(Replace(ctx, one[1], one[2]))

(* gelu *)

\* affine_c: the affine x * s + t that alone writes b.
AffineBy(ctx, b, s, t) ==
  {j \in Producer(ctx, b, "affine") : ctx.instrs[j].p = [s |-> s, t |-> t]}

DirectBinary(ctx, b, opcode, n) ==
  {j \in Producer(ctx, b, opcode) :
     ctx.instrs[j].n = n /\ ctx.instrs[j].av = NoView /\ ctx.instrs[j].bv = NoView}

Operands(ins) == {<<ins.a, ins.b>>, <<ins.b, ins.a>>}

\* Is buffer b GeluCube * (x * x) * x?
Cubed(ctx, b, x, n) ==
  \E c \in AffineBy(ctx, b, GeluCube, 0) :
    /\ ctx.instrs[c].n = n
    /\ \E m \in DirectBinary(ctx, ctx.instrs[c].a, "multiply", n) :
         \E xx \in Operands(ctx.instrs[m]) :
           /\ xx[1] = x
           /\ \E q \in DirectBinary(ctx, xx[2], "multiply", n) :
                ctx.instrs[q].a = x /\ ctx.instrs[q].b = x

\* The x for which buffer b is GeluScale * (x + GeluCube * (x * x) * x).
Backbone(ctx, b, n) ==
  LET scaled == {i \in AffineBy(ctx, b, GeluScale, 0) : ctx.instrs[i].n = n}
      sums   == UNION {DirectBinary(ctx, ctx.instrs[i].a, "add", n) : i \in scaled}
  IN {o[1] : o \in {o \in UNION {Operands(ctx.instrs[s]) : s \in sums} :
                      Cubed(ctx, o[2], o[1], n)}}

\* The x for which the direct multiply j is (sx * x) * (st * (tanh + 1)) with
\* sx * st = 1/2.
GeluOf(ctx, j) ==
  LET out == ctx.instrs[j]
      n   == out.n
      \* the factor sx of x that buffer b is
      ScaleOf(b, x) == IF b = x THEN {1}
                       ELSE {ctx.instrs[f].p.s :
                               f \in {f \in Producer(ctx, b, "affine") :
                                        /\ ctx.instrs[f].a = x /\ ctx.instrs[f].n = n
                                        /\ ctx.instrs[f].p.t = 0}}
      TanhFactor(b) == {f \in Producer(ctx, b, "affine") :
                          ctx.instrs[f].n = n /\ ctx.instrs[f].p.t = ctx.instrs[f].p.s}
      Tanhs(f) == {t \in Producer(ctx, ctx.instrs[f].a, "tanh") : ctx.instrs[t].n = n}
      Of(tf, xf) ==
        UNION {{x \in Backbone(ctx, ctx.instrs[t[2]].a, n) :
                  \E sx \in ScaleOf(xf, x) : Wrap(sx * ctx.instrs[t[1]].p.s) = Half} :
               t \in UNION {{f} \X Tanhs(f) : f \in TanhFactor(tf)}}
  IN IF out.op = "multiply" /\ out.av = NoView /\ out.bv = NoView
     THEN {x \in UNION {Of(o[1], o[2]) : o \in Operands(out)} :
             ~(out.dst \in Outs(ctx) /\ x = out.dst)}
     ELSE {}

RECURSIVE FuseGelu(_)
FuseGelu(ctx) ==
  LET ends == {j \in Live(ctx.instrs) : GeluOf(ctx, j) # {}}
      j == Least(ends)
      x == TheOne(GeluOf(ctx, j))
  IN IF ends = {} THEN ctx
     ELSE FuseGelu(Replace(ctx, j, Instr("gelu", ctx.instrs[j].dst, x, x, ctx.instrs[j].n, <<>>)))
=============================================================================
