---------------------------- MODULE ShapeHandlers ----------------------------
(***************************************************************************)
(* python/pjrt_ocl/ops/shape.py, concat.py and dynslice.py: operations     *)
(* that move elements along strided index maps.                            *)
(***************************************************************************)
EXTENDS LoweringContext

\* PJRT_OCL_CONCAT_IDX_MAX; 0 also stands for PJRT_OCL_CONCAT_GATHER=0.
CONSTANT ConcatIdxMax

ASSUME ConcatIdxMaxNat == ConcatIdxMax \in Nat

(* Strided gathers *)

\* _is_identity_map: axes of size 1 aside, the strides are row-major and
\* cover the whole input.
IsIdentityMap(v, inCount) ==
  LET dims   == SelectSeq(Axes(v.dims), LAMBDA d : v.dims[d] # 1)
      kept   == [k \in DOMAIN dims |-> v.dims[dims[k]]]
      strides == [k \in DOMAIN dims |-> v.strides[dims[k]]]
  IN v.off = 0 /\ strides = Strides(kept) /\ Prod(kept) = inCount

\* _emit_gather: an identity map only renames the input's buffer.
EmitGather(ctx, op, v) ==
  LET a == ctx.val[op.args[1]]
  IN IF IsIdentityMap(v, Count(ctx, op.args[1])) THEN Bind(ctx, op.res[1], a)
     ELSE Bind(Make(ctx, "gather", a, 0, Prod(v.dims), Kind(ctx, op.args[1]), v),
               op.res[1], Fresh(ctx))

LowerBroadcast(ctx, op) ==
  LET x   == op.args[1]
      in  == Shape(ctx, x)
      out == Shape(ctx, op.res[1])
      mapped(d) == \E k \in DOMAIN op.at.dims : op.at.dims[k] = d
      Stride(d) ==
        IF ~mapped(d) \/ in[Position(op.at.dims, d)] = 1 THEN 0
        ELSE Strides(in)[Position(op.at.dims, d)]
      v == View(out, [d \in DOMAIN out |-> Stride(d)], 0)
      c == EmitGather(ctx, op, v)
      legal == /\ Len(op.at.dims) = Len(in)
               /\ \A k \in DOMAIN in : in[k] \in {1, out[op.at.dims[k]]}
  IN CASE ~legal -> Reject(ctx)
       [] legal /\ x \in DOMAIN ctx.scalar /\ (\A d \in DOMAIN out : Stride(d) = 0) ->
            [c EXCEPT !.bcast = (op.res[1] :> ctx.scalar[x]) @@ @]
       [] OTHER -> c

LowerReshape(ctx, op) ==
  IF Count(ctx, op.args[1]) = Count(ctx, op.res[1])
  THEN Bind(ctx, op.res[1], ctx.val[op.args[1]])
  ELSE Reject(ctx)

LowerOptimizationBarrier(ctx, op) == AliasAll(ctx, op)

LowerSlice(ctx, op) ==
  LET s == Strides(Shape(ctx, op.args[1]))
  IN EmitGather(ctx, op,
       View(Shape(ctx, op.res[1]), [d \in DOMAIN s |-> s[d] * op.at.stride[d]],
            Dot(op.at.start, s)))

LowerReverse(ctx, op) ==
  LET in == Shape(ctx, op.args[1])
      s  == Strides(in)
      back(d) == d \in op.at.dims
  IN EmitGather(ctx, op,
       View(in, [d \in DOMAIN in |-> IF back(d) THEN -s[d] ELSE s[d]],
            Dot([d \in DOMAIN in |-> IF back(d) THEN in[d] - 1 ELSE 0], s)))

LowerTranspose(ctx, op) ==
  LET s == Strides(Shape(ctx, op.args[1]))
  IN IF Len(op.at.perm) # Len(s) THEN Reject(ctx)
     ELSE EmitGather(ctx, op,
            View(Shape(ctx, op.res[1]), [k \in DOMAIN s |-> s[op.at.perm[k]]], 0))

(* Concatenation and padding *)

\* _emit_scatter
EmitScatter(ctx, out, x, strides, off, group) ==
  Emit(ctx, [Instr("scatter", out, ctx.val[x], 0, Count(ctx, x),
                   View(Shape(ctx, x), strides, off)) EXCEPT !.group = group])

\* _slice_of: the source, start and strides of a value that is a slice, or
\* of the value as a slice of itself.
SliceOf(ctx, v) ==
  LET d == ctx.def[v]
  IN IF d.name = "slice" THEN [src |-> d.args[1], start |-> d.at.start, stride |-> d.at.stride]
     ELSE [src |-> v, start |-> [k \in DOMAIN Shape(ctx, v) |-> 0],
           stride |-> [k \in DOMAIN Shape(ctx, v) |-> 1]]

RECURSIVE Before(_, _, _)
\* How far along the axis the first k operands reach.
Before(ctx, op, k) ==
  IF k = 0 THEN 0 ELSE Before(ctx, op, k - 1) + Shape(ctx, op.args[k])[op.at.dim]

\* The element of the common source that lands on element i of the result.
SourceIndex(ctx, op, i) ==
  LET out == Shape(ctx, op.res[1])
      c   == Coord(out, i)
      k   == CHOOSE k \in DOMAIN op.args :
               /\ Before(ctx, op, k - 1) <= c[op.at.dim]
               /\ c[op.at.dim] < Before(ctx, op, k)
      sl  == SliceOf(ctx, op.args[k])
      e   == [d \in DOMAIN c |-> IF d = op.at.dim THEN c[d] - Before(ctx, op, k - 1) ELSE c[d]]
  IN Flat(Shape(ctx, sl.src), [d \in DOMAIN c |-> sl.start[d] + e[d] * sl.stride[d]])

\* _try_index_gather applies: every operand is a slice of one source.
OneSource(ctx, op) ==
  LET src == SliceOf(ctx, op.args[1]).src
  IN /\ Count(ctx, op.res[1]) \in 1 .. ConcatIdxMax
     /\ Shape(ctx, op.res[1]) # <<>>
     /\ \A k \in DOMAIN op.args : SliceOf(ctx, op.args[k]).src = src
     /\ \A v \in {src} \cup {op.args[k] : k \in DOMAIN op.args} : v \notin DOMAIN ctx.cbuf
     /\ Kind(ctx, src) = Kind(ctx, op.res[1]) /\ Count(ctx, src) > 0
     /\ Len(Shape(ctx, src)) = Len(Shape(ctx, op.res[1]))

\* A constant buffer for the index vector idx; equal vectors share one.
CacheIndex(ctx, idx, n) ==
  IF idx \in DOMAIN ctx.cache THEN ctx
  ELSE [NewBuffer(ctx, n, "i32")
          EXCEPT !.consts = Append(@, [buf |-> Fresh(ctx), data |-> idx]),
                 !.cache = (idx :> Fresh(ctx)) @@ @]

\* n elements of src by the index vector in buffer b.
GatherByIndex(ctx, r, src, b, n) ==
  LET p == [dims |-> <<n>>, opStride |-> <<0>>, siStride |-> <<1>>, vec |-> 0, idx |-> b,
            idxStride |-> <<1>>, clamp |-> <<Count(ctx, src) - 1>>]
  IN Bind(Emit(NewBuffer(ctx, n, Kind(ctx, r)),
               [Instr("gather_index", Fresh(ctx), ctx.val[src], 0, n, p) EXCEPT !.hint = {b}]),
          r, Fresh(ctx))

\* One gather by a constant index vector.
ConcatByIndex(ctx, op) ==
  LET n == Count(ctx, op.res[1])
      From(c, idx) ==
        GatherByIndex(c, op.res[1], SliceOf(ctx, op.args[1]).src, c.cache[idx], n)
      By(idx) == From(CacheIndex(ctx, idx, n), idx)
  IN By([i \in 0 .. n - 1 |-> SourceIndex(ctx, op, i)])

\* One scatter per operand into disjoint slices, marked as one group.
ConcatByScatter(ctx, op) ==
  LET r == op.res[1]
      s == Strides(Shape(ctx, r))
      group == Len(ctx.instrs) + 1
      Into[k \in 0 .. Len(op.args)] ==
        IF k = 0 THEN NewBuffer(ctx, Count(ctx, r), Kind(ctx, r))
        ELSE EmitScatter(Into[k - 1], Fresh(ctx), op.args[k], s,
                         Before(ctx, op, k - 1) * s[op.at.dim], group)
  IN Bind(Into[Len(op.args)], r, Fresh(ctx))

LowerConcatenate(ctx, op) ==
  IF OneSource(ctx, op) THEN ConcatByIndex(ctx, op) ELSE ConcatByScatter(ctx, op)

\* The pad value everywhere, then the operand over it.
LowerPad(ctx, op) ==
  LET r   == op.res[1]
      out == Shape(ctx, r)
      s   == Strides(out)
      padded == Make(ctx, "gather", ctx.val[op.args[2]], 0, Count(ctx, r), Kind(ctx, op.args[1]),
                     View(out, [k \in DOMAIN out |-> 0], 0))
  IN IF \E k \in DOMAIN out : op.at.low[k] < 0 \/ op.at.high[k] < 0 THEN Reject(ctx)
     ELSE Bind(EmitScatter(padded, Fresh(ctx), op.args[1],
                           [k \in DOMAIN s |-> s[k] * (op.at.interior[k] + 1)],
                           Dot(op.at.low, s), 0),
               r, Fresh(ctx))

(* Run-time slices *)

\* _index_info: the start of every axis is a scalar integer.
LegalStarts(ctx, starts, rank) ==
  /\ Len(starts) = rank
  /\ \A k \in DOMAIN starts : Count(ctx, starts[k]) = 1 /\ Kind(ctx, starts[k]) = "i32"

\* _emit_dyn
EmitDyn(ctx, opcode, dst, a, window, in, starts) ==
  LET idx == [k \in DOMAIN starts |-> ctx.val[starts[k]]]
  IN Emit(ctx, [Instr(opcode, dst, a, 0, Prod(window),
                      [dims |-> window, strides |-> Strides(in), idx |-> idx,
                       clamp |-> [d \in DOMAIN in |-> in[d] - window[d]]])
                  EXCEPT !.hint = {idx[k] : k \in DOMAIN idx}])

LowerDynamicSlice(ctx, op) ==
  LET in == Shape(ctx, op.args[1])
      r  == op.res[1]
  IN IF LegalStarts(ctx, Tail(op.args), Len(in))
     THEN Bind(EmitDyn(NewBuffer(ctx, Count(ctx, r), Kind(ctx, op.args[1])), "dynamic_slice",
                       Fresh(ctx), ctx.val[op.args[1]], Shape(ctx, r), in, Tail(op.args)),
               r, Fresh(ctx))
     ELSE Reject(ctx)

\* EmitCopy: the operand into a fresh buffer, element for element.
EmitCopy(ctx, x) ==
  Make(ctx, "gather", ctx.val[x], 0, Count(ctx, x), Kind(ctx, x),
       View(Shape(ctx, x), Strides(Shape(ctx, x)), 0))

LowerDynamicUpdateSlice(ctx, op) ==
  LET in     == Shape(ctx, op.args[1])
      starts == SubSeq(op.args, 3, Len(op.args))
  IN IF LegalStarts(ctx, starts, Len(in))
     THEN Bind(EmitDyn(EmitCopy(ctx, op.args[1]), "dynamic_update_slice", Fresh(ctx),
                       ctx.val[op.args[2]], Shape(ctx, op.args[2]), in, starts),
               op.res[1], Fresh(ctx))
     ELSE Reject(ctx)
=============================================================================
