------------------------------- MODULE LaneVM -------------------------------
(***************************************************************************)
(* vm2 (kernels/vm_main.cl): the megakernel's per-lane interpreter, every  *)
(* lane walking its own stream with a stack of frames over a shared arena. *)
(*                                                                         *)
(* The barrier is PhaseBarrier, which vmo_barrier implements (SpinBarrier):*)
(* arriving and passing are separate steps, and a lane that has passed may *)
(* run on while others have not passed yet.  A tile is one step; that it   *)
(* is atomic hides nothing as long as RaceFree holds.                      *)
(***************************************************************************)
EXTENDS LaneWalk

CONSTANTS
  NBarriers    \* bound on the barriers of a run

VARIABLES
  tile,        \* tiles of its current entry each lane has run
  mode,        \* "run", "wait" at a barrier, "resume" after it, or "done"
  log,         \* history: what each lane touched since its last barrier
  arrived, passed

Lanes == LaneIds

PB == INSTANCE PhaseBarrier

barrierVars == <<arrived, passed>>
vmVars == <<job, frames, tile, mode, arena, log, barrierVars>>

VMInit ==
  \E j \in Jobs :
    /\ job    = Loaded(j)
    /\ frames = [l \in Lanes |-> RootWalk(job.rootLens[l])]
    /\ tile   = [l \in Lanes |-> 0]
    /\ mode   = [l \in Lanes |-> "run"]
    /\ arena  = Filled(job, job.at)
    /\ log    = [l \in Lanes |-> {}]
    /\ PB!Init

Touched(l, ins, t) == log' = [log EXCEPT ![l] = @ \cup {[ins |-> ins, t |-> t]}]

\* atomic_add(flag, 0): a control scalar is read.
FlagRead(b) == Shaped("flag", NoBuf, b, NoBuf, 1)

Top(l) == Last(frames[l])

Closes(l, kinds) == AtEnd(frames[l]) /\ ~AtRoot(frames[l]) /\ Owner(l).kind \in kinds
Fetches(l, kind) == ~AtEnd(frames[l]) /\ Entry(l).kind = kind

\* A lane-local step that leaves lane l's frames as stack.
Control(l, stack) ==
  /\ frames' = [frames EXCEPT ![l] = stack]
  /\ UNCHANGED <<job, tile, arena, barrierVars>>

Running(l) == mode[l] = "run"

(* Steps of the interpreter *)

RunTile(l) ==
  /\ Running(l) /\ Fetches(l, "tile")
  /\ LET ins == job.prog[Entry(l).task]
         t   == Entry(l).lo + tile[l]
         end == t + 1 = Entry(l).hi
     IN /\ arena'  = Stored(job, arena, ins, t)
        /\ Touched(l, ins, t)
        /\ tile'   = [tile EXCEPT ![l] = IF end THEN 0 ELSE @ + 1]
        /\ frames' = IF end THEN [frames EXCEPT ![l] = Step(@)] ELSE frames
  /\ UNCHANGED <<job, mode, barrierVars>>

EnterWhile(l) ==
  /\ Running(l) /\ Fetches(l, "while")
  /\ Control(l, Pushed(frames[l], Entry(l).x, 0))
  /\ UNCHANGED <<mode, log>>

\* The frame's phase counts the remaining iterations.
EnterFor(l) ==
  /\ Running(l) /\ Fetches(l, "for")
  /\ Control(l, IF Entry(l).trips = 0 THEN Step(frames[l])
                ELSE Pushed(frames[l], Entry(l).y, Entry(l).trips))
  /\ UNCHANGED <<mode, log>>

EnterIf(l) ==
  /\ Running(l) /\ Fetches(l, "if")
  /\ LET branch == IF Flag(job.at, arena, Entry(l).flag) THEN Entry(l).x ELSE Entry(l).y
     IN Control(l, IF branch.len = 0 THEN Step(frames[l])
                   ELSE Pushed(frames[l], branch, 2))
  /\ Touched(l, FlagRead(Entry(l).flag), 0)
  /\ UNCHANGED mode

BranchDone(l) ==
  /\ Running(l) /\ Closes(l, {"if"})
  /\ Control(l, Popped(frames[l]))
  /\ UNCHANGED <<mode, log>>

\* A barrier entry, or the end of a loop's range: vmo_barrier.
Arrive(l) ==
  /\ Running(l)
  /\ Fetches(l, "barrier") \/ Closes(l, {"while", "for"})
  /\ PB!Arrive(l)
  /\ mode' = [mode EXCEPT ![l] = "wait"]
  /\ UNCHANGED <<job, frames, tile, arena, log>>

Pass(l) ==
  /\ PB!Pass(l)
  /\ mode' = [mode EXCEPT ![l] = "resume"]
  /\ log'  = [log EXCEPT ![l] = {}]
  /\ UNCHANGED <<job, frames, tile, arena>>

Resumes(l) == mode[l] = "resume" /\ mode' = [mode EXCEPT ![l] = "run"]

StepBarrier(l) ==
  /\ Resumes(l) /\ Fetches(l, "barrier")
  /\ Control(l, Step(frames[l]))
  /\ UNCHANGED log

IterateFor(l) ==
  /\ Resumes(l) /\ Closes(l, {"for"})
  /\ Control(l, IF Top(l).phase = 1 THEN Popped(frames[l])
                ELSE Rewound(frames[l], Owner(l).y, Top(l).phase - 1))
  /\ UNCHANGED log

TestWhile(l) ==
  /\ Resumes(l) /\ Closes(l, {"while"}) /\ Top(l).phase = 0
  /\ Control(l, IF Flag(job.at, arena, Owner(l).flag) THEN Rewound(frames[l], Owner(l).y, 1)
                ELSE Popped(frames[l]))
  /\ Touched(l, FlagRead(Owner(l).flag), 0)

RepeatWhile(l) ==
  /\ Resumes(l) /\ Closes(l, {"while"}) /\ Top(l).phase = 1
  /\ Control(l, Rewound(frames[l], Owner(l).x, 0))
  /\ UNCHANGED log

Finish(l) ==
  /\ Running(l) /\ AtEnd(frames[l]) /\ AtRoot(frames[l])
  /\ mode' = [mode EXCEPT ![l] = "done"]
  /\ UNCHANGED <<job, frames, tile, arena, log, barrierVars>>

LaneStep(l) ==
  \/ RunTile(l) \/ EnterWhile(l) \/ EnterFor(l) \/ EnterIf(l) \/ BranchDone(l)
  \/ Arrive(l) \/ Pass(l) \/ StepBarrier(l) \/ IterateFor(l) \/ TestWhile(l)
  \/ RepeatWhile(l) \/ Finish(l)

AllDone == \A l \in Lanes : mode[l] = "done"

VMNext == (\E l \in Lanes : LaneStep(l)) \/ (AllDone /\ UNCHANGED vmVars)

VMSpec == VMInit /\ [][VMNext]_vmVars
------------------------------------------------------------------------------
(* Properties *)

\* Lanes between the same two barriers never touch one place of the arena with
\* a write among them, loop control and branch flags included, whichever buffers
\* share the place: what the interpreter reads is never a matter of timing.
RaceFree ==
  \A l, m \in Lanes : (l # m /\ passed[l] = passed[m]) =>
    \A x \in log[l], y \in log[m] :
      WritesAt(job, x.ins, x.t)
        \cap (ReadsAt(job, y.ins, y.t) \cup WritesAt(job, y.ins, y.t)) = {}

\* Control is uniform: lanes that have passed the same barriers and wait at
\* the next one are in the same instruction of the program, with the same loop
\* counts, although each walks ranges of its own ("Control is uniform across
\* lanes (same structure, same cond)", _run_control of vmreader.py).
Shape(l) == [k \in DOMAIN frames[l] |->
               <<frames[l][k].phase,
                 IF frames[l][k].widx = RootIdx THEN RootIdx
                 ELSE LET e == job.streams[l][frames[l][k].widx] IN <<e.kind, e.flag>> >>]

UniformControl ==
  \A l, m \in Lanes :
    (mode[l] = "wait" /\ mode[m] = "wait" /\ arrived[l] = arrived[m])
      => Shape(l) = Shape(m)
=============================================================================
