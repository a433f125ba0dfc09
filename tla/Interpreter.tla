---------------------------- MODULE Interpreter ----------------------------
(***************************************************************************)
(* What the engines share: the form the lowering hands programs on in      *)
(* (lowering.py), as far as scheduler, arena and engines rely on it, the   *)
(* form a load leaves them in, and what a tile computes (vmo_exec_tiles).  *)
(***************************************************************************)
EXTENDS ArenaReuse

CONSTANTS
  Jobs,        \* programs to run, with their buffers: see SamplePrograms
  Mod          \* tile values are 0 .. Mod - 1

(* The lists of a program: the root, and the sub-lists of its regions *)

RootList == <<0, "root">>

Regions(prog) == {i \in 1 .. Len(prog) : IsRegion(prog[i])}

SubLists(prog) == Regions(prog) \X {"x", "y"}

AllLists(prog) == SubLists(prog) \cup {RootList}

RangeOf(prog, mainLen, g) ==
  IF g = RootList THEN SubList(1, mainLen)
  ELSE IF g[2] = "x" THEN prog[g[1]].x ELSE prog[g[1]].y

\* The instructions of list g.
Listed(prog, mainLen, g) ==
  LET r == RangeOf(prog, mainLen, g) IN r.start .. r.start + r.len - 1

\* Only a slice of a concatenation has company, and it reads something else.
InsForm(ins) ==
  /\ ins.op \in {"ew", "shaped", "nop", "while", "for", "if"}
  /\ {ins.n, ins.trips} \subseteq Nat
  /\ ins.disjoint # 0 => ins.op = "shaped" /\ ins.dst \notin {ins.a, ins.b}

\* Sub-lists are appended one after the other once the list that names them is
\* complete (_lower_region), so they lie behind it and apart.
ListForm(prog, mainLen) ==
  LET Of(g) == Listed(prog, mainLen, g)
  IN /\ mainLen \in 0 .. Len(prog)
     /\ \A i \in Regions(prog) : {prog[i].x, prog[i].y} \subseteq [start : Nat, len : Nat]
     /\ \A g \in SubLists(prog) : Of(g) \subseteq g[1] + 1 .. Len(prog)
     /\ \A g, h \in AllLists(prog) : g = h \/ Of(g) \cap Of(h) = {}
     /\ \A i \in 1 .. Len(prog) : \E g \in AllLists(prog) : i \in Of(g)

\* The instructions of list g and of the lists in it are among C.
Encloses(prog, g, C) ==
  /\ Listed(prog, 0, g) \subseteq C
  /\ \A h \in SubLists(prog) : h[1] \in C => Listed(prog, 0, h) \subseteq C

\* Nothing writes a region's flag as long as lanes may still have to read it: a
\* loop's is written by its condition alone, a branch's by neither side.
FlagForm(prog) ==
  \A g \in SubLists(prog) :
    (prog[g[1]].op = "if" \/ (prog[g[1]].op = "while" /\ g[2] = "y"))
      => \E C \in SUBSET (1 .. Len(prog)) :
           Encloses(prog, g, C) /\ \A k \in C : prog[g[1]].dst \notin Writes(prog[k])

\* Tiles stay within their buffers, and slices of a concatenation apart.
BufferForm(prog, size) ==
  LET Buffers == DOMAIN size
      Stretch(ins) == ins.off .. ins.off + NTiles(ins) - 1
  IN /\ IsFiniteSet(Buffers) /\ Buffers \subseteq Nat
     /\ size \in [Buffers -> Nat]
     /\ \A i \in 1 .. Len(prog) :
          LET ins == prog[i]
          IN /\ Reads(ins) \cup Writes(ins) \subseteq Buffers
             /\ ins.op \in {"ew", "shaped", "while", "if"} => ins.dst # NoBuf
             /\ ins.op \in {"while", "if"} => size[ins.dst] > 0
             /\ ins.op \in {"ew", "shaped"} =>
                  /\ \A b \in Reads(ins) : Spread(ins, b) \/ NTiles(ins) <= size[b]
                  /\ \A b \in Writes(ins) : ins.off \in Nat /\ ins.off + NTiles(ins) <= size[b]
             /\ IsMap(ins) => ins.off = 0
             /\ ins.op = "shaped" => Reads(ins) \cap Writes(ins) = {}
     /\ \A i, k \in 1 .. Len(prog) :
          SameGroup(prog[i], prog[k]) /\ Writes(prog[i]) \cap Writes(prog[k]) # {} /\ i # k
            => Stretch(prog[i]) \cap Stretch(prog[k]) = {}

WellFormed(j) ==
  /\ j.prog \in Seq({ins \in ToSet(j.prog) : InsForm(ins)})
  /\ ListForm(j.prog, j.main)
  /\ FlagForm(j.prog)
  /\ BufferForm(j.prog, j.size)

ASSUME ModPositive == Mod \in Nat \ {0}
ASSUME JobsFormed  == \A j \in Jobs : WellFormed(j)

(* The arena: mem[at[b] + t] is tile t of buffer b, under the layout at *)

\* Arenas that hold the inputs and the constants, and leftovers elsewhere.
Filled(job, at) ==
  LET given == job.inputs \cup job.consts
      Holder(k) == {b \in given : k \in at[b] .. at[b] + job.size[b] - 1}
  IN [k \in 0 .. ArenaEnd(job, at) - 1 |->
        IF Holder(k) = {} THEN Mod - 1
        ELSE LET b == Max(Holder(k)) IN job.data[b][k - at[b] + 1]]

Contents(job, at, mem, b) == [t \in 1 .. job.size[b] |-> mem[at[b] + t - 1]]

\* A job with its streams and its layout (LoadedProgram).
Loaded(j) ==
  LET schedule == ScheduleProgram(j.prog, j.main)
  IN [prog |-> j.prog, main |-> j.main, size |-> j.size, data |-> j.data,
      inputs |-> j.inputs, consts |-> j.consts, outputs |-> j.outputs,
      at |-> ReuseArena(j), streams |-> schedule.streams, rootLens |-> schedule.rootLens]

(* Tiles *)

Operand(at, mem, b, t) == IF b = NoBuf THEN 0 ELSE mem[at[b] + t]

\* What tile t of ins computes.
Value(job, at, mem, ins, t) ==
  LET a == Operand(at, mem, ins.a, t)
      b == Operand(at, mem, ins.b, t)
  IN CASE ins.fn = "add"  -> (a + b) % Mod
       [] ins.fn = "inc"  -> (a + 1) % Mod
       [] ins.fn = "lt"   -> IF a < b THEN 1 ELSE 0
       [] ins.fn = "copy" -> a
       [] ins.fn \in {"sum", "matmul"} ->
            (Sum(Contents(job, at, mem, ins.a)) + b + t) % Mod

Stored(job, mem, ins, t) ==
  [mem EXCEPT ![job.at[ins.dst] + ins.off + t] = Value(job, job.at, mem, ins, t)]

\* A control scalar is true if any of its bits is set.
Flag(at, mem, b) == mem[at[b]] # 0

\* The addresses tile t of ins reads and writes.
ReadsAt(job, ins, t) ==
  UNION {IF Spread(ins, b) THEN job.at[b] .. job.at[b] + job.size[b] - 1
         ELSE {job.at[b] + t} : b \in Reads(ins)}

WritesAt(job, ins, t) == {job.at[b] + ins.off + t : b \in Writes(ins)}
=============================================================================
