------------------------------ MODULE TensorVM ------------------------------
(***************************************************************************)
(* The tensor instructions the handlers emit and what one tile of each     *)
(* does: python/pjrt_ocl/opsem.py and the to_task, reads, interp and       *)
(* tile_sim functions of python/pjrt_ocl/ops.                              *)
(*                                                                         *)
(* Buffers are numbered from 0, as in the code: an unused operand field is *)
(* 0 and reads as buffer 0 unless the instruction's own read set leaves it *)
(* out.  p stands for the words an instruction keeps in the aux pool and   *)
(* in imm, imm2.                                                           *)
(***************************************************************************)
EXTENDS StableHLO

CONSTANTS
  TileSize,   \* TILE_SIZE, elements per tile
  MmaTile,    \* MMA_T, rows and columns of a matmul tile
  MaxParts    \* the number of partial results a full reduction aims at (256)

ASSUME SizesPositive == {TileSize, MmaTile, MaxParts} \subseteq Nat \ {0}

NoView == View(<<>>, <<>>, -1)

\* av and bv: the folded view of operand a and b.  hint: buffers read that
\* no operand field names.  group: the concatenation this scatter is part of.
Instr(op, dst, a, b, n, p) ==
  [op |-> op, dst |-> dst, a |-> a, b |-> b, n |-> n, p |-> p,
   av |-> NoView, bv |-> NoView, hint |-> {}, group |-> 0]

Nop == Instr("nop", 0, 0, 0, 0, <<>>)

IsNop(ins) == ins.op = "nop"

CeilDiv(m, n) == (m + n - 1) \div n

\* Memory maps a buffer to its tensor; what lies outside is left over.
LeftOver == 77

Rd(mem, b, i) == IF i \in DOMAIN mem[b] THEN mem[b][i] ELSE LeftOver

Viewed(mem, b, v, i) == Rd(mem, b, IF v = NoView THEN i ELSE Walk(v, i))

(* Elementwise *)

\* 0.7978845608, 0.044715 and 0.5 of the tanh approximation of gelu.
GeluScale == 21
GeluCube  == 13
Half      == Inv(2)

Gelu(x) ==
  LET cube == Wrap(Wrap(Wrap(GeluCube * x) * x) * x)
  IN Wrap(Wrap(Half * x) * Wrap(1 + Opaque("tanh", Wrap(GeluScale * Wrap(x + cube)))))

Affine(x, s, t) == Wrap(Wrap(x * s) + t)

ReadsA == Unary \cup {"not", "affine", "gelu", "copy", "convert", "bitcast_convert"}

Elementwise == ReadsA \cup Binary \cup {"compare", "select", "fill"}

BinaryValue(ins, mem, i) ==
  BinaryFn(ins.op, Viewed(mem, ins.a, ins.av, i), Viewed(mem, ins.b, ins.bv, i))

UnaryValue(ins, mem, i) == UnaryFn(ins.op, Viewed(mem, ins.a, ins.av, i))

NotValue(dts, ins, mem, i) == Not(dts[ins.a], Viewed(mem, ins.a, ins.av, i))

AffineValue(ins, mem, i) == Affine(Rd(mem, ins.a, i), ins.p.s, ins.p.t)

GeluValue(ins, mem, i) == Gelu(Viewed(mem, ins.a, ins.av, i))

CompareValue(ins, mem, i) ==
  IF Holds(ins.p.dir, Rd(mem, ins.a, i), Rd(mem, ins.b, i)) THEN 1 ELSE 0

SelectValue(ins, mem, i) ==
  IF Rd(mem, ins.p.pred, i) # 0 THEN Rd(mem, ins.a, i) ELSE Rd(mem, ins.b, i)

FiniteValue(ins, mem, i) == UnaryFn("is_finite", Rd(mem, ins.a, i))

CopyValue(ins, mem, i) == Viewed(mem, ins.a, ins.av, i)

ConvertValue(dts, ins, mem, i) == Cast(dts[ins.a], dts[ins.dst], Rd(mem, ins.a, i))

BitcastValue(dts, ins, mem, i) == Bits(dts[ins.a], dts[ins.dst], Rd(mem, ins.a, i))

(* Data movement *)

IotaValue(ins, i) == Coord(ins.p.dims, i)[ins.p.dim]

GatherValue(ins, mem, i) == Rd(mem, ins.a, Walk(ins.p, i))

\* Element i of the operand goes to this element of the destination.
ScatterTarget(ins, i) == Walk(ins.p, i)

BaseOffset_Unclamped(ins, mem) ==
  Dot([d \in DOMAIN ins.p.idx |-> Rd(mem, ins.p.idx[d], 0)], ins.p.strides)

\* _base_off: the run-time starts, clamped, as one flat offset.
BaseOffset(ins, mem) ==
  Dot([d \in DOMAIN ins.p.idx |-> Clamp(Rd(mem, ins.p.idx[d], 0), ins.p.clamp[d])],
      ins.p.strides)

DynSliceValue(ins, mem, i) ==
  Rd(mem, ins.a, Walk(View(ins.p.dims, ins.p.strides, BaseOffset(ins, mem)), i))

DynUpdateTarget(ins, mem, i) ==
  Walk(View(ins.p.dims, ins.p.strides, BaseOffset(ins, mem)), i)

\* _offsets of gather_index and scatter_index: the window part of the offset
\* plus one clamped start per component of the index vector.
IndexedOffset(ins, mem, i) ==
  LET c    == Coord(ins.p.dims, i)
      base == Dot(c, ins.p.siStride)
      s(k) == Clamp(Rd(mem, ins.p.idx, base + (k - 1) * ins.p.vec), ins.p.clamp[k])
  IN Dot(c, ins.p.opStride) + Dot([k \in DOMAIN ins.p.clamp |-> s(k)], ins.p.idxStride)

GatherIndexValue(ins, mem, i) == Rd(mem, ins.a, IndexedOffset(ins, mem, i))

(* Reductions *)

\* _chunk_for and _n_parts, recomputed alike by handler and tile.
ChunkFor(n) == IF n = 0 THEN 1 ELSE Larger(TileSize, CeilDiv(n, MaxParts))
NParts(n)   == Larger(1, CeilDiv(n, ChunkFor(n)))

\* The elements first, first + step, ... of buffer b, count of them.
Run(mem, b, first, step, count) ==
  [k \in 1 .. count |-> Rd(mem, b, first + (k - 1) * step)]

Folded(fn, s) == Reduce(fn, Identity(fn), s)

PartValue(ins, mem, i) ==
  LET chunk == ChunkFor(ins.n)
  IN Folded(ins.p.fn, Run(mem, ins.a, i * chunk, 1, Smaller(chunk, ins.n - i * chunk)))

CombValue(ins, mem) == Folded(ins.p.fn, Run(mem, ins.a, 0, 1, ins.n))

SegValue(ins, mem, i) == Folded(ins.p.fn, Run(mem, ins.a, i * ins.p.seg, 1, ins.p.seg))

StridedValue(ins, mem, i) ==
  LET o == i \div ins.p.inner
      r == i % ins.p.inner
  IN Folded(ins.p.fn,
            Run(mem, ins.a, o * ins.p.red * ins.p.inner + r, ins.p.inner, ins.p.red))

\* Window element w over output element i, or nothing in the padding.
WindowValue(ins, mem, i) ==
  LET o == Coord(ins.p.dims, i)
      In(w) == [d \in DOMAIN o |-> o[d] * ins.p.stride[d] + w[d] - ins.p.low[d]]
      Tile(k) == LET c == In(Coord(ins.p.win, k - 1))
                 IN IF Inside(ins.p.src, c) THEN Rd(mem, ins.a, Flat(ins.p.src, c))
                    ELSE Identity(ins.p.fn)
  IN Folded(ins.p.fn, [k \in 1 .. Prod(ins.p.win) |-> Tile(k)])

\* The segment holding element i, for the two fused norms.
Segment(ins, mem, i) == Run(mem, ins.a, (i \div ins.p.seg) * ins.p.seg, 1, ins.p.seg)

SoftmaxValue(ins, mem, i) ==
  LET s == Segment(ins, mem, i)
      m == Folded("maximum", s)
      e == [k \in DOMAIN s |-> Opaque("exponential", Wrap(s[k] - m))]
  IN BinaryFn("divide", e[(i % ins.p.seg) + 1], SumOf(e))

\* E[x^2] - E[x]^2, in one pass.
LayerNormValue(ins, mem, i) ==
  LET s   == Segment(ins, mem, i)
      Mean(t) == BinaryFn("divide", SumOf(t), Len(s))
      mu  == Mean(s)
      var == Wrap(Mean([k \in DOMAIN s |-> Wrap(s[k] * s[k])]) - Wrap(mu * mu))
  IN BinaryFn("divide", Wrap(s[(i % ins.p.seg) + 1] - mu), Opaque("sqrt", Wrap(var + ins.p.eps)))

(* Contractions *)

\* _epi_micro and _apply: one micro-operation on x and y.
MicroFn(m, x, y) ==
  CASE m.fn = "affine" -> Affine(x, m.s, m.t)
    [] m.fn = "gelu"   -> Gelu(x)
    [] m.fn \in Binary -> BinaryFn(m.fn, x, y)
    [] OTHER           -> UnaryFn(m.fn, x)

RECURSIVE Epilogue(_, _, _)
\* _apply_epi: the micro-program on one result; a step that takes no second
\* value reads the running one twice.
Epilogue(micros, v, res) ==
  IF micros = <<>> THEN v
  ELSE Epilogue(Tail(micros), MicroFn(Head(micros), v, IF Head(micros).src = 0 THEN v ELSE res),
                res)

\* A matrix times a vector goes to the segmented-reduction tile, which knows
\* neither views nor epilogues.
IsGemv(ins) == ins.p.N = 1 /\ ins.p.G = 1 /\ ins.av = NoView /\ ins.bv = NoView

\* Element i of C[G, M, N] = A[G, M, K] @ B[G, K, N]; n is M.
DotValue(ins, mem, i) ==
  LET p   == ins.p
      g   == i \div (ins.n * p.N)
      row == (i \div p.N) % ins.n
      col == i % p.N
      c   == SumOf([k \in 1 .. p.K |->
               Wrap(Viewed(mem, ins.a, ins.av, (g * ins.n + row) * p.K + k - 1)
                    * Viewed(mem, ins.b, ins.bv, (g * p.K + k - 1) * p.N + col))])
  IN IF IsGemv(ins) THEN c
     ELSE Epilogue(p.epi, c, IF p.res = 0 THEN LeftOver ELSE Rd(mem, p.res, i))

\* Taps that land in the padding count for nothing.
ConvValue(ins, mem, i) ==
  LET p     == ins.p
      sdim  == Len(p.win)
      batch == i \div (Prod(p.dims) * p.cout)
      o     == Coord(p.dims \o <<p.cout>>, i)
      TapOf(w, c) ==
        LET q == [d \in 1 .. sdim |-> o[d] * p.stride[d] + w[d] * p.dil[d] - p.low[d]]
        IN IF Inside(p.src, q)
           THEN Wrap(Rd(mem, ins.a, Flat(<<1>> \o p.src \o <<p.cin>>, <<batch>> \o q \o <<c>>))
                     * Rd(mem, ins.b, Flat(p.win \o <<p.cin, p.cout>>, w \o <<c, o[sdim + 1]>>)))
           ELSE 0
  IN SumOf([t \in 1 .. Prod(p.win) * p.cin |->
              TapOf(Coord(p.win, (t - 1) \div p.cin), (t - 1) % p.cin)])

RECURSIVE RunMicros(_, _)
\* _run_region: the slots R after the micro-program.
RunMicros(micros, R) ==
  IF micros = <<>> THEN R
  ELSE LET m == Head(micros)
       IN RunMicros(Tail(micros), (m.d :> MicroFn(m, R[m.x], R[m.y])) @@ R)

RegionValue(ins, mem, i) ==
  RunMicros(ins.p.micros,
            [k \in DOMAIN ins.p.inputs |-> Rd(mem, ins.p.inputs[k], i)])[ins.p.out]

(* What an instruction reads, and what must wait for it *)

\* READS, with {a, b} for an instruction that registers no read set.
DeclaredReads(ins) ==
  CASE ins.op \in ReadsA -> {ins.a}
    [] ins.op = "select" -> {ins.a, ins.b, ins.p.pred}
    [] ins.op \in {"iota", "fill"} -> {}
    [] ins.op \in {"gather", "scatter", "reduce_part", "reduce_comb", "reduce_seg",
                   "reduce_strided", "reduce_window", "softmax", "layernorm"} -> {ins.a}
    [] ins.op \in {"dynamic_slice", "dynamic_update_slice", "gather_index",
                   "scatter_index"} -> {ins.a} \cup ins.hint
    [] ins.op = "dot"        -> {ins.a, ins.b} \cup ins.hint
    [] ins.op = "map_region" -> {ins.p.inputs[k] : k \in DOMAIN ins.p.inputs}
    [] OTHER                 -> {ins.a, ins.b}

Conflict_GroupZeroIsOne(earlier, later) ==
  \/ earlier.dst \in DeclaredReads(later)
  \/ later.dst \in DeclaredReads(earlier)
  \/ earlier.dst = later.dst /\ earlier.group # later.group

\* _conflict: later must wait for earlier.
Conflict(earlier, later) ==
  \/ earlier.dst \in DeclaredReads(later)
  \/ later.dst \in DeclaredReads(earlier)
  \/ /\ earlier.dst = later.dst
     /\ earlier.group = 0 \/ earlier.group # later.group

(* One tile *)

\* The result elements (or, for a scatter, the operand elements) of the task.
Work(ins) ==
  CASE ins.op = "reduce_part" -> NParts(ins.n)
    [] ins.op = "reduce_comb" -> 1
    [] ins.op \in {"softmax", "layernorm"} -> ins.n * ins.p.seg
    [] ins.op = "dot"         -> ins.p.G * ins.n * ins.p.N
    [] OTHER                  -> ins.n

\* Task.n_tiles
NTiles(ins) ==
  CASE ins.op \in {"reduce_part", "reduce_comb"} -> Work(ins)
    [] ins.op \in {"reduce_seg", "softmax", "layernorm"} -> Larger(1, ins.n)
    [] ins.op = "dot" /\ IsGemv(ins)  -> Larger(1, ins.n)
    [] ins.op = "dot" /\ ~IsGemv(ins) ->
         CeilDiv(ins.n, MmaTile) * CeilDiv(ins.p.N, MmaTile) * ins.p.G
    [] OTHER -> Larger(1, CeilDiv(Work(ins), TileSize))

MmaItems_PastLastColumn(ins, t) ==
  LET N    == ins.p.N
      cols == CeilDiv(N, MmaTile)
      per  == CeilDiv(ins.n, MmaTile) * cols
      tr   == (t % per) \div cols
      tc   == (t % per) % cols
  IN {(t \div per) * ins.n * N + r * N + c :
        r \in tr * MmaTile .. Smaller((tr + 1) * MmaTile, ins.n) - 1,
        c \in tc * MmaTile .. (tc + 1) * MmaTile - 1}

\* The block of rows and columns tile t of a matmul computes.
MmaItems(ins, t) ==
  LET N    == ins.p.N
      cols == CeilDiv(N, MmaTile)
      per  == CeilDiv(ins.n, MmaTile) * cols
      tr   == (t % per) \div cols
      tc   == (t % per) % cols
  IN {(t \div per) * ins.n * N + r * N + c :
        r \in tr * MmaTile .. Smaller((tr + 1) * MmaTile, ins.n) - 1,
        c \in tc * MmaTile .. Smaller((tc + 1) * MmaTile, N) - 1}

\* The work of tile t.
Items(ins, t) ==
  CASE ins.op \in {"reduce_part", "reduce_comb", "reduce_seg"} -> {t}
    [] ins.op \in {"softmax", "layernorm"} -> t * ins.p.seg .. (t + 1) * ins.p.seg - 1
    [] ins.op = "dot" /\ IsGemv(ins)  -> {t}
    [] ins.op = "dot" /\ ~IsGemv(ins) -> MmaItems(ins, t)
    [] OTHER -> t * TileSize .. Smaller((t + 1) * TileSize, Work(ins)) - 1

\* The element of dst that work item i writes.
Destination(ins, mem, i) ==
  CASE ins.op = "scatter"              -> ScatterTarget(ins, i)
    [] ins.op = "dynamic_update_slice" -> DynUpdateTarget(ins, mem, i)
    [] ins.op = "scatter_index"        -> IndexedOffset(ins, mem, i)
    [] OTHER                           -> i

\* What work item i computes.
Value(dts, ins, mem, i) ==
  CASE ins.op \in Binary -> BinaryValue(ins, mem, i)
    [] ins.op = "is_finite" -> FiniteValue(ins, mem, i)
    [] ins.op \in Unary \ {"is_finite"} -> UnaryValue(ins, mem, i)
    [] ins.op = "not"             -> NotValue(dts, ins, mem, i)
    [] ins.op = "affine"          -> AffineValue(ins, mem, i)
    [] ins.op = "gelu"            -> GeluValue(ins, mem, i)
    [] ins.op = "compare"         -> CompareValue(ins, mem, i)
    [] ins.op = "select"          -> SelectValue(ins, mem, i)
    [] ins.op = "copy"            -> CopyValue(ins, mem, i)
    [] ins.op = "convert"         -> ConvertValue(dts, ins, mem, i)
    [] ins.op = "bitcast_convert" -> BitcastValue(dts, ins, mem, i)
    [] ins.op = "iota"            -> IotaValue(ins, i)
    [] ins.op = "fill"            -> ins.p.x
    [] ins.op = "gather"          -> GatherValue(ins, mem, i)
    [] ins.op \in {"scatter", "dynamic_update_slice", "scatter_index"} -> Rd(mem, ins.a, i)
    [] ins.op = "dynamic_slice"   -> DynSliceValue(ins, mem, i)
    [] ins.op = "gather_index"    -> GatherIndexValue(ins, mem, i)
    [] ins.op = "reduce_part"     -> PartValue(ins, mem, i)
    [] ins.op = "reduce_comb"     -> CombValue(ins, mem)
    [] ins.op = "reduce_seg"      -> SegValue(ins, mem, i)
    [] ins.op = "reduce_strided"  -> StridedValue(ins, mem, i)
    [] ins.op = "reduce_window"   -> WindowValue(ins, mem, i)
    [] ins.op = "softmax"         -> SoftmaxValue(ins, mem, i)
    [] ins.op = "layernorm"       -> LayerNormValue(ins, mem, i)
    [] ins.op = "dot"             -> DotValue(ins, mem, i)
    [] ins.op = "conv"            -> ConvValue(ins, mem, i)
    [] ins.op = "map_region"      -> RegionValue(ins, mem, i)

\* dst after the work items W.  Several on one element: the last one wins,
\* except that a combining scatter folds them all into what is there.
Stored(dts, ins, mem, W) ==
  LET target == [i \in W |-> Destination(ins, mem, i)]
      On(j)  == {i \in W : target[i] = j}
      Last(S) == CHOOSE i \in S : \A k \in S : k <= i
      Fold(S, x) ==
        LET s == SelectSeq(Numbers(ins.n), LAMBDA i : i \in S)
        IN Reduce(ins.p.fn, x, [k \in DOMAIN s |-> Value(dts, ins, mem, s[k])])
  IN [j \in DOMAIN mem[ins.dst] |->
        IF On(j) = {} THEN mem[ins.dst][j]
        ELSE IF ins.op = "scatter_index" /\ ins.p.fn # "set"
             THEN Fold(On(j), mem[ins.dst][j])
        ELSE Value(dts, ins, mem, Last(On(j)))]

RunItems(dts, ins, mem, W) == [mem EXCEPT ![ins.dst] = Stored(dts, ins, mem, W)]

RunTile(dts, ins, mem, t) == RunItems(dts, ins, mem, Items(ins, t))

\* The whole instruction at once.
RunInstr(dts, ins, mem) ==
  IF IsNop(ins) THEN mem ELSE RunItems(dts, ins, mem, 0 .. Work(ins) - 1)
=============================================================================
