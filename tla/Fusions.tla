------------------------------- MODULE Fusions -------------------------------
(***************************************************************************)
(* The index-stable rewrites of python/pjrt_ocl/lowering.py: an            *)
(* instruction is replaced where it stands or turned into a NOP, so that   *)
(* the ranges control instructions name stay valid.                        *)
(***************************************************************************)
EXTENDS LoweringContext

Control == {"while", "for", "if"}

\* _reads_of.  A fill reads nothing but is not registered so.
ReadsOf(ins) ==
  CASE IsNop(ins)          -> {}
    [] ins.op = "fill"     -> {ins.a, ins.b}
    [] ins.op \in Control  -> ins.hint
    [] OTHER               -> ins.hint \cup DeclaredReads(ins)

Live(instrs) == {i \in DOMAIN instrs : ~IsNop(instrs[i])}

Writers(instrs, b) == {i \in Live(instrs) : instrs[i].dst = b}

\* _reader_index
Readers(instrs, b) == {i \in Live(instrs) : b \in ReadsOf(instrs[i])}

Once(instrs, b) == Cardinality(Writers(instrs, b)) = 1

TheOne(S) == CHOOSE i \in S : TRUE

Least(S) == CHOOSE i \in S : \A k \in S : i <= k

\* The results of the instructions S.
Dst(ctx, S) == {ctx.instrs[j].dst : j \in S}

Outs(ctx) == Range1(ctx.outputs)

Elems(ctx, b) == ctx.bufs[b + 1].n

DType(ctx, b) == ctx.bufs[b + 1].dt

Replace(ctx, i, ins) == [ctx EXCEPT !.instrs[i] = ins]

\* The instructions S turned into NOPs.
Kill(ctx, S) ==
  [ctx EXCEPT !.instrs = [i \in DOMAIN @ |-> IF i \in S THEN Nop ELSE @[i]]]

(* Affine chains *)

\* The affine whose result instruction i, an affine, is alone to read.
InnerAffine(ctx, i) ==
  LET b == ctx.instrs[i].a
  IN {j \in Writers(ctx.instrs, b) :
        /\ ctx.instrs[i].op = "affine" /\ ctx.instrs[j].op = "affine"
        /\ Once(ctx.instrs, b) /\ Cardinality(Readers(ctx.instrs, b)) = 1
        /\ b \notin Outs(ctx)}

\* (x*s1 + t1)*s2 + t2 = x*(s1*s2) + (t1*s2 + t2)
Composed(outer, inner) ==
  [outer EXCEPT !.a = inner.a, !.b = inner.a,
                !.p = [s |-> Wrap(inner.p.s * @.s), t |-> Affine(inner.p.t, @.s, @.t)]]

RECURSIVE ComposeAffines(_)
ComposeAffines(ctx) ==
  LET outer == {i \in Live(ctx.instrs) : InnerAffine(ctx, i) # {}}
      i == Least(outer)
      j == TheOne(InnerAffine(ctx, i))
  IN IF outer = {} THEN ctx
     ELSE ComposeAffines(Kill(Replace(ctx, i, Composed(ctx.instrs[i], ctx.instrs[j])), {j}))

(* Dead code *)

\* A control instruction is live and pins its flag, unless that is buffer 0.
Flags(instrs) ==
  {instrs[i].dst : i \in {k \in DOMAIN instrs : instrs[k].op \in {"while", "if"}}} \ {0}

RECURSIVE LiveBuffers(_, _)
\* The buffers live instructions read, from the buffers L on.
LiveBuffers(instrs, L) ==
  LET Needed == {i \in Live(instrs) : instrs[i].op \in Control \/ instrs[i].dst \in L}
      more   == L \cup UNION {ReadsOf(instrs[i]) : i \in Needed}
  IN IF more = L THEN L ELSE LiveBuffers(instrs, more)

DceNops(ctx) ==
  LET L == LiveBuffers(ctx.instrs, Outs(ctx) \cup Range1(ctx.inputs) \cup Flags(ctx.instrs))
  IN Kill(ctx, {i \in Live(ctx.instrs) :
                  ctx.instrs[i].op \notin Control /\ ctx.instrs[i].dst \notin L})

(* Views *)

\* Elementwise f32 operations that can read their operands through a view.
ViewableEW == (Unary \cup Binary \cup {"copy"}) \ {"is_finite", "and", "or", "xor"}

\* r reads buffer b only where it has no view yet.
Unviewed(r, b) == (r.a = b => r.av = NoView) /\ (r.b = b => r.bv = NoView)

ViewableBy(ctx, r, b) ==
  /\ r.op \in ViewableEW
  /\ DType(ctx, r.dst) = "f32"
  /\ Unviewed(r, b)
  /\ b \in {r.a, r.b}

\* The gather g may be read through: its result is nothing but a view, and
\* what it reads is not written later (a loop carry is).
PureView(ctx, g) ==
  LET ins == ctx.instrs[g]
  IN /\ Once(ctx.instrs, ins.dst)
     /\ \A w \in Writers(ctx.instrs, ins.a) : w <= g

\* Gathers whose every reader can read what they read instead.
Foldable(ctx, Can(_, _, _)) ==
  {g \in Live(ctx.instrs) :
     LET ins == ctx.instrs[g]
         rs  == Readers(ctx.instrs, ins.dst)
     IN /\ ins.op = "gather" /\ ins.dst \notin Outs(ctx)
        /\ DType(ctx, ins.dst) = "f32"
        /\ rs # {} /\ \A j \in rs : Can(ctx, ctx.instrs[j], ins.dst)}

\* r reading what the gather reads, through the gather's map.
ThroughView(r, gather) ==
  LET ViewB(q) == IF q.b = gather.dst /\ q.bv = NoView
                  THEN [q EXCEPT !.b = gather.a, !.bv = gather.p] ELSE q
  IN ViewB(IF r.a = gather.dst /\ r.av = NoView
           THEN [r EXCEPT !.a = gather.a, !.av = gather.p] ELSE r)

FoldGather(ctx, g) ==
  LET ins == ctx.instrs[g]
      rs  == Readers(ctx.instrs, ins.dst)
  IN Kill([ctx EXCEPT !.instrs = [j \in DOMAIN @ |-> IF j \in rs THEN ThroughView(@[j], ins)
                                                     ELSE @[j]]], {g})

RECURSIVE FuseViews(_)
FuseViews(ctx) ==
  LET gs == {g \in Foldable(ctx, ViewableBy) : PureView(ctx, g)}
  IN IF gs = {} THEN ctx ELSE FuseViews(FoldGather(ctx, Least(gs)))

\* A matmul reads b directly and not also through a view.
DotBy(ctx, r, b) == r.op = "dot" /\ b \in {r.a, r.b} /\ Unviewed(r, b)

RECURSIVE FuseMatmulViews(_)
FuseMatmulViews(ctx) ==
  LET gs == Foldable(ctx, DotBy)
  IN IF gs = {} THEN ctx ELSE FuseMatmulViews(FoldGather(ctx, Least(gs)))

(* What follows a matmul *)

Micro(fn, src, s, t) == [fn |-> fn, src |-> src, s |-> s, t |-> t]

\* The residual that instruction c adds to the buffer cur of the matmul d:
\* a full-size buffer of one writer, written before the matmul runs.  Writers
\* are those of the list before the pass.
Residual(before, ctx, d, cur, c, total) ==
  LET ins == ctx.instrs[c]
      res == IF ins.a = cur THEN ins.b ELSE ins.a
  IN {r \in {res} :
        /\ ins.op = "add" /\ cur \in {ins.a, ins.b}
        /\ ins.av = NoView /\ ins.bv = NoView
        /\ r \notin {cur, ins.dst} /\ Elems(ctx, r) = total
        /\ Cardinality(Writers(before.instrs, r)) <= 1
        /\ \A w \in Writers(before.instrs, r) : w <= d}

RECURSIVE EpilogueOf(_, _, _, _)
\* The chain that can be folded behind the matmul d: e has the micro-program
\* micros so far, the instructions used, their last result cur and the
\* residual res, if there is one.
EpilogueOf(before, ctx, d, e) ==
  LET dot   == ctx.instrs[d]
      total == dot.n * dot.p.N * dot.p.G
      rs    == Readers(ctx.instrs, e.cur) \ {d}
      c     == TheOne(rs)
      ins   == ctx.instrs[c]
      resid == Residual(before, ctx, d, e.cur, c, total)
      With(m, res) ==
        EpilogueOf(before, ctx, d, [micros |-> Append(e.micros, m), used |-> e.used \cup {c},
                                    cur |-> ins.dst, res |-> e.res \cup res])
  IN IF \/ Cardinality(rs) # 1 \/ e.cur \in Outs(ctx) \/ ~Once(ctx.instrs, e.cur)
        \/ ~Once(ctx.instrs, ins.dst) \/ ins.n # total
     THEN e
     ELSE CASE ins.op = "gelu" /\ ins.a = e.cur   -> With(Micro("gelu", 0, 0, 0), {})
            [] ins.op = "affine" /\ ins.a = e.cur -> With(Micro("affine", 0, ins.p.s, ins.p.t), {})
            [] ins.op = "add" /\ resid # {} /\ e.res = {} -> With(Micro("add", 1, 0, 0), resid)
            [] OTHER -> e

FoldEpilogue(before, ctx, d) ==
  LET dot == ctx.instrs[d]
      e   == EpilogueOf(before, ctx, d, [micros |-> <<>>, used |-> {}, cur |-> dot.dst, res |-> {}])
  IN IF (dot.p.N = 1 /\ dot.p.G = 1) \/ e.micros = <<>> THEN ctx
     ELSE Replace(Kill(ctx, e.used), d,
                  [dot EXCEPT !.dst = e.cur, !.hint = @ \cup (e.res \ {0}),
                              !.p.epi = e.micros, !.p.res = IF e.res = {} THEN 0 ELSE TheOne(e.res)])

RECURSIVE FuseMmaEpilogueFrom(_, _, _)
FuseMmaEpilogueFrom(before, ctx, d) ==
  IF d > Len(ctx.instrs) THEN ctx
  ELSE FuseMmaEpilogueFrom(before,
                           IF ctx.instrs[d].op = "dot" THEN FoldEpilogue(before, ctx, d) ELSE ctx,
                           d + 1)

FuseMmaEpilogue(ctx) == FuseMmaEpilogueFrom(ctx, ctx, 1)
=============================================================================
