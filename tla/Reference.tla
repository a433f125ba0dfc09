----------------------------- MODULE Reference -----------------------------
(***************************************************************************)
(* execute (python/pjrt_ocl/vmreader.py), the repository's sequential      *)
(* reference interpreter of a tensor program, and so what the engines have *)
(* to leave in the arena.                                                  *)
(***************************************************************************)
EXTENDS Interpreter

\* A whole instruction at once, every tile from the arena before it.
RefCompute(job, at, mem, ins) ==
  [k \in DOMAIN mem |->
     LET t == k - at[ins.dst] - ins.off
     IN IF t \in 0 .. NTiles(ins) - 1 THEN Value(job, at, mem, ins, t) ELSE mem[k]]

Indexes(r) == [k \in 1 .. r.len |-> [at |-> r.start + k - 1, test |-> FALSE]]

\* One step of run_range: c.todo is what is left to do, the instructions of
\* the ranges entered so far and the tests of the loops among them.
RefStep(job, at, c) ==
  LET ins  == job.prog[Head(c.todo).at]
      then == Tail(c.todo)
      Set  == Flag(at, c.mem, ins.dst)
      Again(test) == <<[at |-> Head(c.todo).at, test |-> test]>>
      Do(todo)    == [c EXCEPT !.todo = todo]
  IN CASE ins.op = "nop" -> Do(then)
       [] ins.op = "while" /\ ~Head(c.todo).test -> Do(Indexes(ins.x) \o Again(TRUE) \o then)
       [] ins.op = "while" /\ Head(c.todo).test ->
            Do(IF Set THEN Indexes(ins.y) \o Again(FALSE) \o then ELSE then)
       [] ins.op = "for" -> Do(FlattenSeq([k \in 1 .. ins.trips |-> Indexes(ins.y)]) \o then)
       [] ins.op = "if"  -> Do((IF Set THEN Indexes(ins.x) ELSE Indexes(ins.y)) \o then)
       [] OTHER -> [mem |-> RefCompute(job, at, c.mem, ins), todo |-> then]

RECURSIVE RefRange(_, _, _)

RefRange(job, at, c) ==
  IF c.todo = <<>> THEN c.mem ELSE RefRange(job, at, RefStep(job, at, c))

\* The arena a run leaves under the layout at.
RefRun(job, at) ==
  RefRange(job, at, [mem |-> Filled(job, at), todo |-> Indexes(SubList(1, job.main))])

RefContents(job, at, mem) ==
  [b \in job.outputs |-> Contents(job, at, mem, b)]

\* What a run has to leave in the outputs, with a place for every buffer.
RefOutputs(job) == RefContents(job, BumpArena(job), RefRun(job, BumpArena(job)))

\* mem has the outputs it should, and the constants are as they were loaded.
RightResult(job, mem) ==
  /\ RefContents(job, job.at, mem) = RefOutputs(job)
  /\ \A b \in job.consts : Contents(job, job.at, mem, b) = job.data[b]
=============================================================================
