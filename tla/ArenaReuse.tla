----------------------------- MODULE ArenaReuse -----------------------------
(***************************************************************************)
(* _reuse_arena (python/pjrt_ocl/lowering.py): buffers whose lives do not  *)
(* overlap get the same place in the arena.  A life is measured in the     *)
(* phases the scheduler will make, since what shares a phase runs          *)
(* concurrently whatever its order in the program.                         *)
(*                                                                         *)
(* Sizes and offsets are in tiles; the 64-byte alignment is left out.      *)
(***************************************************************************)
EXTENDS Scheduler

\* The control instruction whose sub-list instruction i belongs to.
Enclosing(prog, i) ==
  CHOOSE r \in 1 .. Len(prog) :
    IsRegion(prog[r]) /\ i \in ToSet(Indices(prog[r].x)) \cup ToSet(Indices(prog[r].y))

PhaseTime_InstructionOrder(prog, mainLen, levels) == [i \in 1 .. Len(prog) |-> i]

\* tphase: the level of an instruction of the root; all that a control
\* instruction encloses, at any depth, shares the instruction's.
PhaseTime(prog, mainLen, levels) ==
  LET time[i \in 1 .. Len(prog)] ==
        IF i > mainLen THEN time[Enclosing(prog, i)]
        ELSE CHOOSE k \in 1 .. Len(levels) : i \in ToSet(levels[k].members)
  IN time

\* A loop's or a branch's flag is read by every lane.
Uses(ins, b) == b \in Writes(ins) \cup IF IsRegion(ins) THEN {} ELSE Reads(ins)

EndOfRun(levels) == Len(levels) + 1

\* What pins buffer b beyond its uses: inputs are there before the first phase,
\* outputs are read after the last, and constants are uploaded once for good.
Pinned(job, levels, b) ==
  {1 : x \in {b} \cap (job.inputs \cup job.consts)}
    \cup {EndOfRun(levels) : x \in {b} \cap (job.outputs \cup job.consts)}

\* live[b]: the times from the first to the last of which b is live.
LiveTimes(job, levels, time) ==
  [b \in DOMAIN job.size |->
     Pinned(job, levels, b)
       \cup {time[i] : i \in {i \in DOMAIN job.prog :
                                job.prog[i].op # "nop" /\ Uses(job.prog[i], b)}}]

Overlap_Strict(s, t) == ~(Max(s) <= Min(t) \/ Max(t) <= Min(s))

Overlap(s, t) == ~(Max(s) < Min(t) \/ Max(t) < Min(s))

\* Larger buffers first, then longer-lived ones.
Sooner(size, live, b, c) ==
  LET Span(d) == Max(live[d]) - Min(live[d])
  IN \/ size[b] > size[c]
     \/ size[b] = size[c] /\ Span(b) > Span(c)
     \/ size[b] = size[c] /\ Span(b) = Span(c) /\ b < c

\* The lowest place of n tiles clear of the buffers others, placed already.
FirstFit(at, size, others, n) ==
  Min({off \in {0} \cup {at[c] + size[c] : c \in others} :
         \A c \in others : off + n <= at[c] \/ at[c] + size[c] <= off})

\* Buffers nothing ever touches are parked at 0.
Placed(size, live) ==
  LET order == Ranked({b \in DOMAIN size : live[b] # {}},
                      LAMBDA b, c : Sooner(size, live, b, c))
      Earlier(k) == {order[j] : j \in 1 .. k - 1}
      Place(at, k) ==
        LET b == order[k]
        IN [at EXCEPT ![b] = FirstFit(at, size, {c \in Earlier(k) : Overlap(live[b], live[c])},
                                      size[b])]
      placed[k \in 0 .. Len(order)] ==
        IF k = 0 THEN [b \in DOMAIN size |-> 0] ELSE Place(placed[k - 1], k)
  IN placed[Len(order)]

AtLevels(job, levels) ==
  Placed(job.size, LiveTimes(job, levels, PhaseTime(job.prog, job.main, levels)))

\* Where every buffer of the job starts in the arena.
ReuseArena(job) ==
  AtLevels(job, BuildLevels(job.prog, Indices(SubList(1, job.main))))

\* ctx.new_buffer: a place of its own for every buffer.
BumpArena(job) == [b \in DOMAIN job.size |-> Sum(SubSeq(job.size, 1, b - 1))]

ArenaEnd(job, at) == Max({0} \cup {at[b] + job.size[b] : b \in DOMAIN job.size})
=============================================================================
