---------------------------- MODULE RegionLowering ----------------------------
(***************************************************************************)
(* Loops, branches and calls (python/pjrt_ocl/lowering.py).  The blocks of *)
(* a loop or branch are lowered later, from a queue, behind the root list; *)
(* a control instruction names its ranges of the list in p.  Buffers that  *)
(* carry values around a loop are written more than once.                  *)
(***************************************************************************)
EXTENDS Fusions, SourceProgram, IndexHandlers, ComplexHandlers

\* How counted loops are lowered, the environment variables PJRT_OCL_WHILE,
\* PJRT_OCL_UNROLL_TRIPS, _OPS and _ARENA_MB (in bytes here).
CONSTANTS WhileMode, UnrollTrips, UnrollOps, UnrollArena

ASSUME UnrollLimits ==
  /\ WhileMode \in {"auto", "for", "unroll", "while"}
  /\ {UnrollTrips, UnrollOps, UnrollArena} \subseteq Nat

Span(from, to) == [start |-> from, len |-> to - from]

\* The end of the list, where the next instruction goes.
Here(ctx) == Len(ctx.instrs) + 1

ControlInstr(op, flag, p) == Instr(op, flag, 0, 0, 0, p)

CopyTo(ctx, dst, a) == Emit(ctx, Instr("copy", dst, a, 0, Elems(ctx, a), <<>>))

RECURSIVE LowerOp(_, _), LowerOps(_, _), CopyAll(_, _, _)

\* The buffers src copied to the buffers dst, in order.
CopyAll(ctx, dst, src) ==
  IF dst = <<>> THEN ctx
  ELSE CopyAll(CopyTo(ctx, Head(dst), Head(src)), Tail(dst), Tail(src))

RECURSIVE NewBuffers(_, _)
\* One buffer for each of the values vs.
NewBuffers(ctx, vs) ==
  IF vs = <<>> THEN ctx
  ELSE NewBuffers(NewBuffer(ctx, Count(ctx, Head(vs)), Kind(ctx, Head(vs))), Tail(vs))

\* The last k buffers.
NewestK(ctx, k) == [j \in 1 .. k |-> Newest(ctx) - k + j]

BindAll(ctx, names, bufs) == [ctx EXCEPT !.val = Assign(@, names, bufs)]

BufsOf(ctx, names) == [k \in DOMAIN names |-> ctx.val[names[k]]]

HasBufs(ctx, names) == \A k \in DOMAIN names : names[k] \in DOMAIN ctx.val

LowerOps(ctx, ops) ==
  IF ops = <<>> \/ ctx.err THEN ctx ELSE LowerOps(LowerOp(ctx, Head(ops)), Tail(ops))

(* Calls *)

RECURSIVE AliasValues(_, _, _)
AliasValues(ctx, dsts, srcs) ==
  IF dsts = <<>> \/ ctx.err THEN ctx
  ELSE AliasValues(AliasValue(ctx, Head(dsts), Head(srcs)), Tail(dsts), Tail(srcs))

\* The callee is lowered where it is called, its values bound anew each time.
InlineCall(ctx, op) ==
  LET callee == op.at.callee
  IN AliasValues(LowerOps(AliasValues(ctx, callee.args, op.args), callee.ops), op.res, callee.ret)

(* Counted loops *)

\* _const_scalar_int_of
IntConst(ctx, v) ==
  IF Kind(ctx, v) \in {"i32", "u32"} THEN ScalarConstant(ctx, v) ELSE {}

\* _detect_fixed_trip: the loops whose condition is counter < constant, whose
\* counter starts at a constant and grows by a positive one.  k is the
\* counter's position.
FixedTrips(ctx, op) ==
  LET cond == op.at.cond
      body == op.at.body
      tests == {n \in DOMAIN cond.ops : cond.ops[n].name = "compare"}
      test  == cond.ops[TheOne(tests)]
      Steps(k) ==
        LET upd == ctx.def[body.ret[k]]
        IN IF upd.name # "add" THEN {}
           ELSE IF upd.args[1] = body.args[k] THEN IntConst(ctx, upd.args[2])
           ELSE IF upd.args[2] = body.args[k] THEN IntConst(ctx, upd.args[1])
           ELSE {}
  IN IF \/ \E n \in DOMAIN cond.ops : cond.ops[n].name \notin {"constant", "compare"}
        \/ Cardinality(tests) # 1
     THEN {}
     ELSE {[k |-> k, init |-> i, step |-> s,
            trips |-> Larger(0, (limit - i + s - 1) \div s)] :
             k \in {n \in DOMAIN cond.args : /\ test.args[1] = cond.args[n]
                                             /\ cond.ret[1] = test.res[1]
                                             /\ test.at.dir = "LT"
                                             /\ Kind(ctx, cond.args[n]) # "u32"},
             limit \in IntConst(ctx, test.args[2]),
             i \in UNION {IntConst(ctx, op.args[n]) :
                            n \in {n \in DOMAIN cond.args : test.args[1] = cond.args[n]}},
             s \in {s \in UNION {Steps(n) : n \in {n \in DOMAIN cond.args :
                                                     test.args[1] = cond.args[n]}} : s > 0}}

RECURSIVE OpsEstimate(_), BytesEstimate(_, _)

\* _unroll_ops_estimate
OpsEstimate(ops) ==
  IF ops = <<>> THEN 0
  ELSE LET op == Head(ops)
           mine == CASE op.name = "constant" -> 0
                     [] op.name = "call"     -> OpsEstimate(op.at.callee.ops)
                     [] op.name = "while"    ->
                          1 + OpsEstimate(op.at.cond.ops) + OpsEstimate(op.at.body.ops)
                     [] op.name \in {"if", "case"} ->
                          1 + Total([b \in DOMAIN op.at.branches |-> OpsEstimate(op.at.branches[b].ops)])
                     [] OTHER                -> 1
       IN mine + OpsEstimate(Tail(ops))

\* _unroll_bytes_estimate: nested regions are not counted.
BytesEstimate(ctx, ops) ==
  IF ops = <<>> THEN 0
  ELSE LET op == Head(ops)
           mine == CASE op.name = "constant" -> 0
                     [] op.name = "call"     -> BytesEstimate(ctx, op.at.callee.ops)
                     [] OTHER -> Total([k \in DOMAIN op.res |->
                                          Count(ctx, op.res[k]) * Width(Kind(ctx, op.res[k]))])
       IN mine + BytesEstimate(ctx, Tail(ops))

Unrolls(ctx, op, trips) ==
  LET ops == op.at.body.ops
  IN \/ WhileMode = "unroll"
     \/ /\ WhileMode = "auto"
        /\ \/ trips <= UnrollTrips
           \/ UnrollOps > 0 /\ trips * OpsEstimate(ops) <= UnrollOps
        /\ trips * BytesEstimate(ctx, ops) <= UnrollArena

\* _emit_const_scalar_int
ConstInt(ctx, x, dt) ==
  [NewBuffer(ctx, 1, dt)
     EXCEPT !.consts = Append(@, [buf |-> Fresh(ctx), data |-> [i \in {0} |-> x]])]

RECURSIVE UnrollFrom(_, _, _, _, _)
\* Iterations it and later; cur holds the buffers of the carried values.
\* Constants of the body are lowered the first time only.
UnrollFrom(ctx, op, f, it, cur) ==
  LET body == op.at.body
      SetCounter(c) == Bind(ConstInt(c, f.init + it * f.step, Kind(ctx, op.args[f.k])),
                        body.args[f.k], Fresh(c))
      Rest(d) == UnrollFrom(d, op, f, it + 1, IF d.err THEN cur ELSE BufsOf(d, body.ret))
  IN IF it = f.trips \/ ctx.err THEN [ctx |-> ctx, cur |-> cur]
     ELSE Rest(LowerOps(SetCounter(BindAll(ctx, body.args, cur)),
                         SelectSeq(body.ops, LAMBDA o : o.name # "constant"
                                                        \/ o.res[1] \notin DOMAIN ctx.val)))

\* A new buffer with what is in b.
CopyOf(ctx, b) == Make(ctx, "copy", b, 0, Elems(ctx, b), DType(ctx, b), <<>>)

RECURSIVE Materialize(_, _, _, _)
\* Results no instruction writes, copied to buffers of their own, after the
\* results done.
Materialize(ctx, written, done, bufs) ==
  IF bufs = <<>> THEN [ctx |-> ctx, bufs |-> done]
  ELSE IF Head(bufs) \in written
       THEN Materialize(ctx, written, Append(done, Head(bufs)), Tail(bufs))
       ELSE Materialize(CopyOf(ctx, Head(bufs)), written, Append(done, Fresh(ctx)), Tail(bufs))

UnrollWhile(ctx, op, f) ==
  LET Return(m) == BindAll(m.ctx, op.res, m.bufs)
      Close(u) ==
        IF u.ctx.err THEN u.ctx
        ELSE Return(Materialize(u.ctx, {u.ctx.instrs[i].dst : i \in Live(u.ctx.instrs)},
                                <<>>, u.cur))
  IN Close(UnrollFrom(ctx, op, f, 0, BufsOf(ctx, op.args)))

(* Loops in general *)

\* The first part: carries with their initial values, a placeholder for the
\* control instruction, and the job; the results are the carries.
DeferWhile(ctx, op, trips) ==
  LET n == Len(op.args)
      Carries[k \in 0 .. n] ==
        IF k = 0 THEN ctx ELSE CopyOf(Carries[k - 1], ctx.val[op.args[k]])
      Queue(c, carry) ==
        BindAll([Emit(c, ControlInstr("while", 0, <<>>)) EXCEPT
                   !.queue = Append(@, [kind |-> "while", at |-> Here(c), cond |-> op.at.cond,
                                        body |-> op.at.body, carry |-> carry, trips |-> trips])],
                op.res, carry)
  IN Queue(Carries[n], [k \in 1 .. n |-> Fresh(ctx) + k - 1])

LowerWhile(ctx, op) ==
  LET Counted(f) == IF Unrolls(ctx, op, f.trips) THEN UnrollWhile(ctx, op, f)
                    ELSE DeferWhile(ctx, op, {f.trips})
      By(fixed) == IF fixed = {} THEN DeferWhile(ctx, op, {}) ELSE Counted(TheOne(fixed))
  IN By(IF WhileMode = "while" THEN {} ELSE FixedTrips(ctx, op))

\* The condition is read as a 4-byte flag, so its byte is converted.
ConvertToFlag(ctx, v) ==
  IF ctx.err THEN ctx ELSE Make(ctx, "convert", ctx.val[v], 0, 1, "f32", <<>>)

LowerCond(ctx, job) ==
  IF job.trips # {} THEN ctx
  ELSE ConvertToFlag(LowerOps(BindAll(ctx, job.cond.args, job.carry), job.cond.ops),
                     job.cond.ret[1])

InplaceSafe ==
  Unary \cup Binary \cup {"copy", "convert", "bitcast_convert", "compare", "select", "not",
                          "affine"}

\* The instructions of the body that started at index start.
BodyOf(ctx, start) == {i \in Live(ctx.instrs) : i >= start}

BodyReads(ctx, start, b) == {i \in BodyOf(ctx, start) : b \in ReadsOf(ctx.instrs[i])}
BodyWrites(ctx, start, b) == {i \in BodyOf(ctx, start) : ctx.instrs[i].dst = b}

InplaceProducer_CarryReadLater(ctx, start, carry, cbuf, rb) ==
  {i \in BodyWrites(ctx, start, rb) :
     /\ Cardinality(BodyWrites(ctx, start, rb)) = 1
     /\ rb \notin Range1(carry)
     /\ ctx.instrs[i].op \in InplaceSafe
     /\ BodyReads(ctx, start, rb) = {}}

\* The elementwise instruction that may write the carry itself: it alone
\* makes the new value rb, nothing in the body reads rb, and nothing else in
\* the body reads the carry.
InplaceProducer(ctx, start, carry, cbuf, rb) ==
  {i \in BodyWrites(ctx, start, rb) :
     /\ Cardinality(BodyWrites(ctx, start, rb)) = 1
     /\ rb \notin Range1(carry)
     /\ ctx.instrs[i].op \in InplaceSafe
     /\ BodyReads(ctx, start, rb) = {}
     /\ BodyReads(ctx, start, cbuf) \subseteq {i}}

IdentityGather(v, n) == v.off = 0 /\ v.strides = Strides(v.dims) /\ Prod(v.dims) = n

\* The pair of a run-time update of the carry: a copy to a fresh buffer and
\* the update of it.  It may update the carry itself if the copy alone reads
\* the carry, nothing writes it, and the fresh buffer is only returned.
InplaceUpdate(ctx, start, carry, rets, cbuf, rb) ==
  {w \in BodyWrites(ctx, start, rb) \X BodyWrites(ctx, start, rb) :
     LET g == ctx.instrs[w[1]]
         s == ctx.instrs[w[2]]
     IN /\ w[1] < w[2] /\ Cardinality(BodyWrites(ctx, start, rb)) = 2
        /\ rb \notin Range1(carry)
        /\ Cardinality({k \in DOMAIN rets : rets[k] = rb}) = 1
        /\ g.op = "gather" /\ s.op = "dynamic_update_slice"
        /\ g.a = cbuf /\ g.n = Elems(ctx, cbuf) /\ IdentityGather(g.p, g.n)
        /\ BodyReads(ctx, start, rb) = {}
        /\ Cardinality(BodyReads(ctx, start, cbuf)) = 1
        /\ BodyWrites(ctx, start, cbuf) = {}}

\* Carries k and later retargeted; e has the context and the carries in place
\* so far.  The tests see the body as it was before the first of them.
RECURSIVE CommitInplace(_, _, _, _, _, _)
CommitInplace(before, e, start, carry, rets, k) ==
  LET Retarget(one) ==
        IF one = {} THEN e
        ELSE LET i == TheOne(one)
             IN [ctx |-> Replace(e.ctx, i, [e.ctx.instrs[i] EXCEPT !.dst = carry[k]]),
                 inplace |-> e.inplace \cup {k}]
  IN IF k > Len(carry) THEN e
     ELSE CommitInplace(before, Retarget(InplaceProducer(before, start, carry, carry[k], rets[k])),
                        start, carry, rets, k + 1)

RECURSIVE CommitUpdates(_, _, _, _, _, _)
\* The updates among the carries k and later that are not in place yet.
CommitUpdates(before, e, start, carry, rets, k) ==
  LET Retarget(two) ==
        IF two = {} THEN e
        ELSE LET w == TheOne(two)
             IN [ctx |-> Kill(Replace(e.ctx, w[2], [e.ctx.instrs[w[2]] EXCEPT !.dst = carry[k]]),
                              {w[1]}),
                 inplace |-> e.inplace \cup {k}]
  IN IF k > Len(carry) THEN e
     ELSE CommitUpdates(before,
                        Retarget(IF k \in e.inplace THEN {}
                                 ELSE InplaceUpdate(before, start, carry, rets, carry[k], rets[k])),
                        start, carry, rets, k + 1)

\* What is committed without copies; the result names those carries.  A body
\* with control in it is left to the snapshots.
InPlace(ctx, start, carry, rets) ==
  LET none == [ctx |-> ctx, inplace |-> {}]
  IN IF \E i \in DOMAIN ctx.instrs : i >= start /\ ctx.instrs[i].op \in Control THEN none
     ELSE CommitUpdates(ctx, CommitInplace(ctx, none, start, carry, rets, 1), start, carry, rets, 1)

\* The values rets go to temporaries, then all temporaries to the carries.
Snapshot(ctx, carry, rets) ==
  LET n == Len(carry)
      temps == [k \in 1 .. n |-> Fresh(ctx) + k - 1]
      Snap[k \in 0 .. n] ==
        IF k = 0 THEN ctx
        ELSE CopyTo(NewBuffer(Snap[k - 1], Elems(ctx, carry[k]), DType(ctx, carry[k])),
                    temps[k], rets[k])
  IN CopyAll(Snap[n], carry, temps)

\* All carries but those committed in place and those that keep their value.
SnapshotOthers(u, carry, rets) ==
  LET todo == SelectSeq(Axes(carry), LAMBDA k : k \notin u.inplace /\ rets[k] # carry[k])
  IN Snapshot(u.ctx, [k \in DOMAIN todo |-> carry[todo[k]]], [k \in DOMAIN todo |-> rets[todo[k]]])

CommitCarries(ctx, start, carry, rets) ==
  SnapshotOthers(InPlace(ComposeAffines(ctx), start, carry, rets), carry, rets)

\* The loop's instruction, once condition and body are behind it.
CloseLoop(before, tested, done, job) ==
  LET body == Span(Here(tested), Here(done))
      ins  == IF job.trips # {}
              THEN ControlInstr("for", 0, [trips |-> TheOne(job.trips), body |-> body])
              ELSE ControlInstr("while", Newest(tested),
                                [cond |-> Span(Here(before), Here(tested)), body |-> body])
  IN Replace(done, job.at, ins)

\* The second part of a loop.
LowerWhileRegions(ctx, job) ==
  LET Close(c, b) ==
        IF b.err THEN b
        ELSE CloseLoop(ctx, c, CommitCarries(b, Here(c), job.carry, BufsOf(b, job.body.ret)), job)
      Body(c) == Close(c, LowerOps(BindAll(c, job.body.args, job.carry), job.body.ops))
  IN Body(LowerCond(ctx, job))

(* Branches *)

\* _alloc_results
AllocResults(ctx, op) ==
  LET Name(c) == BindAll(c, op.res, NewestK(c, Len(op.res)))
  IN Name(NewBuffers(ctx, op.res))

\* A placeholder and the job of an OP_IF; other is empty for an arm of a case.
DeferIf(ctx, then, other, flag, results) ==
  LET job == [kind |-> "if", at |-> Here(ctx), then |-> then, other |-> other, flag |-> flag,
              results |-> results]
  IN [Emit(ctx, ControlInstr("if", 0, <<>>)) EXCEPT !.queue = Append(@, job)]

LowerIf(ctx, op) ==
  LET flag == Fresh(ctx)
      Defer(c) == DeferIf(c, op.at.branches[2], <<op.at.branches[1]>>, flag, BufsOf(c, op.res))
  IN Defer(AllocResults(ConvertToFlag(ctx, op.args[1]), op))

Fill(ctx, x) == Make(ctx, "fill", 0, 0, 1, "f32", [x |-> x])

RECURSIVE CaseFlags(_, _, _, _)
\* The flags of branches k and later of n, but the last: index = branch.  A
\* flag is the last of the three buffers that make it.
CaseFlags(ctx, idx, k, n) ==
  LET Compare(c) == Make(c, "compare", idx, Fresh(c) - 1, 1, "bool", [dir |-> "EQ"])
      Flag(c)    == Make(c, "convert", Fresh(c) - 1, 0, 1, "f32", <<>>)
  IN IF k = n - 1 THEN ctx ELSE CaseFlags(Flag(Compare(Fill(ctx, k))), idx, k + 1, n)

RECURSIVE LastFlag(_, _, _)
\* One minus the sum of acc and the flags.
LastFlag(ctx, acc, flags) ==
  IF flags = <<>> THEN Calc(Fill(ctx, 1), "subtract", Fresh(ctx), acc, 1)
  ELSE LastFlag(Calc(ctx, "add", acc, Head(flags), 1), Fresh(ctx), Tail(flags))

RECURSIVE DeferArms(_, _, _, _)
DeferArms(ctx, branches, flags, results) ==
  IF branches = <<>> THEN ctx
  ELSE DeferArms(DeferIf(ctx, Head(branches), <<>>, Head(flags), results),
                 Tail(branches), Tail(flags), results)

\* One OP_IF for each branch, all with the same results; the last branch runs
\* when no other does.  A single branch needs no control.
LowerCase(ctx, op) ==
  LET n     == Len(op.at.branches)
      arms  == op.at.branches
      idx   == Fresh(ctx) + Len(op.res)
      flags == [k \in 1 .. n - 1 |-> idx + 3 * k]
      Only(c) == IF c.err THEN c ELSE BindAll(c, op.res, BufsOf(c, arms[1].ret))
      Defer(c) == DeferArms(c, arms, Append(flags, Newest(c)), BufsOf(c, op.res))
      Test(c) == LastFlag(CaseFlags(c, idx, 0, n), Head(flags), Tail(flags))
  IN IF n = 1 THEN Only(LowerOps(ctx, arms[1].ops))
     ELSE Defer(Test(ConvertToFlag(AllocResults(ctx, op), op.args[1])))

\* A branch reads the values around it from the buffers they have by now.
LowerBranchInto(ctx, block, results) ==
  LET Return(c) == IF c.err THEN c ELSE CopyAll(c, results, BufsOf(c, block.ret))
  IN Return(LowerOps(ctx, block.ops))

LowerIfRegions(ctx, job) ==
  LET Close(c, d) ==
        IF d.err THEN d
        ELSE Replace(d, job.at, ControlInstr("if", job.flag, [then  |-> Span(Here(ctx), Here(c)),
                                                              other |-> Span(Here(c), Here(d))]))
      Else(c) ==
        Close(c, IF job.other = <<>> \/ c.err THEN c
                 ELSE LowerBranchInto(c, job.other[1], job.results))
  IN Else(LowerBranchInto(ctx, job.then, job.results))

(* One operation *)

\* Handlers that look a complex operand up as a pair of buffers.
LowerPaired(ctx, op) ==
  CASE op.name = "constant"            -> LowerConstant(ctx, op)
    [] op.name = "iota"                -> LowerIota(ctx, op)
    [] op.name = "convert"             -> LowerConvert(ctx, op)
    [] op.name \in {"add", "subtract"} -> LowerSum(ctx, op)
    [] op.name = "multiply"            -> LowerProduct(ctx, op)
    [] op.name = "negate"              -> LowerNegate(ctx, op)
    [] op.name = "abs"                 -> LowerAbs(ctx, op)
    [] op.name = "real"                -> LowerReal(ctx, op)
    [] op.name = "imag"                -> LowerImag(ctx, op)
    [] op.name = "fft"                 -> LowerFft(ctx, op)

Paired == {"constant", "iota", "convert", "add", "subtract", "multiply", "negate", "abs",
           "real", "imag", "fft"}

LowerElementwise(ctx, op) ==
  CASE op.name \in Binary                           -> LowerBinop(ctx, op)
    [] op.name \in (Unary \ {"is_finite"}) \cup {"not"} -> LowerUnop(ctx, op)
    [] op.name = "is_finite"                        -> LowerIsFinite(ctx, op)
    [] op.name = "compare"                          -> LowerCompare(ctx, op)
    [] op.name = "select"                           -> LowerSelect(ctx, op)
    [] op.name = "clamp"                            -> LowerClamp(ctx, op)
    [] op.name = "bitcast_convert"                  -> LowerBitcast(ctx, op)
    [] op.name = "complex"                          -> LowerComplex(ctx, op)

Indexwise == Binary \cup Unary \cup
             {"not", "compare", "select", "clamp", "bitcast_convert", "complex"}

LowerShaped(ctx, op) ==
  CASE op.name = "broadcast_in_dim"     -> LowerBroadcast(ctx, op)
    [] op.name = "reshape"              -> LowerReshape(ctx, op)
    [] op.name = "optimization_barrier" -> LowerOptimizationBarrier(ctx, op)
    [] op.name = "sharding_constraint"  -> LowerSdyIdentity(ctx, op)
    [] op.name = "slice"                -> LowerSlice(ctx, op)
    [] op.name = "reverse"              -> LowerReverse(ctx, op)
    [] op.name = "transpose"            -> LowerTranspose(ctx, op)
    [] op.name = "concatenate"          -> LowerConcatenate(ctx, op)
    [] op.name = "pad"                  -> LowerPad(ctx, op)
    [] op.name = "dynamic_slice"        -> LowerDynamicSlice(ctx, op)
    [] op.name = "dynamic_update_slice" -> LowerDynamicUpdateSlice(ctx, op)
    [] op.name = "gather"               -> LowerGather(ctx, op)
    [] op.name = "scatter"              -> LowerScatter(ctx, op)
    [] op.name = "reduce"               -> LowerReduce(ctx, op)
    [] op.name = "reduce_window"        -> LowerReduceWindow(ctx, op)
    [] op.name = "dot_general"          -> LowerDotGeneral(ctx, op)
    [] op.name = "convolution"          -> LowerConvolution(ctx, op)

LowerControl(ctx, op) ==
  CASE op.name = "while" -> LowerWhile(ctx, op)
    [] op.name = "if"    -> LowerIf(ctx, op)
    [] op.name = "case"  -> LowerCase(ctx, op)

\* _lower_op: buf_for fails on a value that has no buffer, as a complex one.
LowerOp(ctx, op) ==
  CASE op.name = "call"        -> InlineCall(ctx, op)
    [] op.name \in Paired      -> LowerPaired(ctx, op)
    [] op.name \notin Paired \cup {"call"} ->
         IF ~Bound(ctx, op) THEN Reject(ctx)
         ELSE IF op.name \in RegionOps THEN LowerControl(ctx, op)
         ELSE IF op.name \in Indexwise THEN LowerElementwise(ctx, op)
         ELSE LowerShaped(ctx, op)

\* func.return
LowerReturn(ctx, ret) ==
  IF HasBufs(ctx, ret) THEN [ctx EXCEPT !.outputs = BufsOf(ctx, ret)] ELSE Reject(ctx)
=============================================================================
