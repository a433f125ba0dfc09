--------------------------- MODULE SamplePrograms ---------------------------
(* Programs of the shapes the lowering emits, for the engines to run.  A    *)
(* job's data gives the size of every buffer, and its contents if it is an  *)
(* input or a constant.                                                     *)
EXTENDS VMProgram

Job(prog, main, data, inputs, consts, outputs) ==
  [prog |-> prog, main |-> main, data |-> data,
   size |-> [b \in DOMAIN data |-> Len(data[b])],
   inputs |-> inputs, consts |-> consts, outputs |-> outputs]

Tensor == <<0, 0>>
Scalar == <<0>>

\* Elementwise fork and join, a reduction of the result, and its use.
ForkJoin ==
  Job(<<Ew("add", 2, 1, 1, 4), Ew("inc", 3, 2, NoBuf, 4), Ew("add", 4, 2, 3, 4),
        Shaped("sum", 5, 4, NoBuf, 4), Ew("add", 6, 5, 4, 4)>>, 5,
      <<<<1, 2>>, Tensor, Tensor, Tensor, Tensor, Tensor>>, {1}, {}, {6})

\* Two independent reductions, whose operands die with them, share a phase;
\* then two layers with one weight.
Layers ==
  Job(<<Shaped("sum", 4, 1, NoBuf, 4), Shaped("sum", 5, 2, NoBuf, 4),
        Ew("add", 6, 4, 5, 4), Shaped("sum", 7, 6, 3, 4), Ew("inc", 8, 7, NoBuf, 4),
        Shaped("sum", 9, 8, 3, 4)>>, 6,
      <<<<1, 2>>, <<3, 1>>, <<2, 0>>, Tensor, Tensor, Tensor, Tensor, Tensor, Tensor>>,
      {1, 2}, {3}, {9})

\* lax.while_loop: the carry is reduced and written back by every iteration.
\* What is computed before the loop is dead by then.
Loop ==
  Job(<<Shaped("sum", 2, 1, NoBuf, 4), Shaped("sum", 3, 2, NoBuf, 4),
        While(5, SubList(5, 1), SubList(6, 3)), Ew("add", 4, 3, 3, 4),
        Ew("lt", 5, 6, 7, 1),
        Shaped("sum", 8, 3, NoBuf, 4), Ew("add", 3, 8, 3, 4), Ew("inc", 6, 6, NoBuf, 1)>>, 4,
      <<<<1, 2>>, Tensor, Tensor, Tensor, Scalar, <<0>>, <<2>>, Tensor>>, {1, 6}, {7}, {4})

\* lax.fori_loop with a copy-back, and one of no iterations.
Counted ==
  Job(<<Shaped("sum", 2, 1, NoBuf, 4), For(2, SubList(5, 2)), For(0, SubList(7, 1)),
        Ew("add", 3, 1, 2, 4),
        Shaped("sum", 4, 1, NoBuf, 4), Ew("copy", 1, 4, NoBuf, 4),
        Ew("inc", 1, 1, NoBuf, 4)>>, 4,
      <<<<1, 2>>, Tensor, Tensor, Tensor>>, {1}, {}, {3})

\* lax.cond in a while body: one branch a loop, the other a single op.
Branching ==
  Job(<<While(3, SubList(2, 1), SubList(3, 3)),
        Ew("lt", 3, 4, 5, 1),
        Ew("copy", 6, 4, NoBuf, 1), Ew("inc", 4, 4, NoBuf, 1),
        If(6, SubList(6, 1), SubList(7, 1)),
        For(2, SubList(8, 1)),
        Ew("add", 1, 1, 2, 4),
        Shaped("sum", 1, 2, NoBuf, 4)>>, 1,
      <<<<1, 2>>, <<3, 1>>, Scalar, <<0>>, <<2>>, Scalar>>, {1, 2, 4}, {5}, {1})

\* lax.switch: sibling branches over shared results, the second one empty.
Switch ==
  Job(<<Ew("lt", 4, 5, 6, 1), Ew("copy", 7, 5, NoBuf, 1),
        If(4, SubList(5, 2), SubList(7, 0)), If(7, SubList(7, 1), SubList(8, 0)),
        Shaped("sum", 2, 1, NoBuf, 4), Ew("add", 3, 2, 1, 4),
        Ew("copy", 3, 1, NoBuf, 4)>>, 4,
      <<<<1, 2>>, Tensor, <<3, 1>>, Scalar, <<0>>, <<2>>, Scalar>>, {1, 3, 5}, {6}, {3})

\* A matmul alone in its phase, between segments, in a counted loop.
Peeled ==
  Job(<<For(2, SubList(3, 3)), Ew("add", 3, 1, 2, 4),
        Ew("inc", 1, 1, NoBuf, 4), Shaped("matmul", 2, 1, NoBuf, 4),
        Ew("copy", 1, 2, NoBuf, 4)>>, 2,
      <<<<1, 2>>, Tensor, Tensor>>, {1}, {}, {3})

MCJobs == {ForkJoin, Layers, Loop, Counted, Branching, Switch}

PeeledJobs == MCJobs \cup {Peeled}
=============================================================================
