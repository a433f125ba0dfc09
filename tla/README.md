# pjrt-ocl in TLA+

A verification development for the OpenCL backend in this repository: a PJRT
plugin that lowers a StableHLO module to a *tensor program* (a flat list of
instructions over numbered buffers), schedules it onto *lanes*, and runs the
lanes in one persistent kernel (the *megakernel*) or, on devices where that is
not safe, segment by segment from the host. The modules model the parts where
an order of steps, or of rewrites, decides whether a program computes the right
values or hangs; TLC checks them on small instances, and TLAPS proves the
results that should hold for every instance.

Contents: [the system](#the-system), [modules](#modules),
[runs](#runs-and-bounds), [fairness](#fairness), [proofs](#proofs),
[what the runs found](#disagreements-found), [observations](#observations-without-a-run),
[what is left out](#not-modelled).

## The system

    StableHLO --lowering.py + ops/--> tensor program --_fuse_*, _reuse_arena-->
      --scheduler.py--> lane streams            (in a child process per compile)
      --bytecode--> LoadedProgram (runtime.cc) <-- PJRT buffers, Execute (plugin.cc)
      --> megakernel: LaunchKernel, vm2, vmo_barrier        (GPUs)
      --> host dispatch: LaunchHostDispatch, vm2_seg        (CPUs, small GPUs)

| Component | State | Operations | Meets the others through | Hard behaviour | What makes it correct | Modelled in |
|---|---|---|---|---|---|---|
| Megakernel barrier, `vmo_barrier` (vm_common.cl) | `bar[0]`, `bar[1]`, a private copy of the phase | arrive, reset, flip, spin, leave | called by vm2 at every barrier entry and loop end | lanes race on two words that every barrier reuses; the reset is a plain store; stores become visible only by fences | nobody ahead, nobody left behind, what was stored before is read after | PhaseBarrier, SpinBarrier, BarrierFences |
| Occupancy discovery, `vmo_discover`, `ProbeResidency` | lock, gate, count | ticket, watch, close, hold | the count bounds the lanes of every launch | the launch is larger than the device | never counts more than are resident together; ends | Discovery |
| Engine and lane selection (runtime.cc) | flags, `ngroups_` | device facts, the probe, `PJRT_OCL_*` | decides which engine runs a program | six inputs that overrule one another, twice | megakernel only where its barrier is sound | EngineSelect |
| Lowering and op handlers (lowering.py, ops/) | values' buffers, the instruction list, the queue of regions | one handler per operation; loops, branches, calls | produces the program | captured values, carries written in place, index arithmetic | the list means what the source means | Tensors ... MCLowerModule (below) |
| Lowering fusions (lowering.py) | the instruction list | fold, rewrite, dead code | same list, before the scheduler | rewriting under updates in place and loops | same meaning after every pass | Fusions, PatternFusions, MapRegions |
| Arena layout, `_reuse_arena` (lowering.py) | live ranges, placements | live times, first fit | phases from the scheduler | sharing of places under concurrency and loops | no sharing that can be observed | ArenaReuse |
| Scheduler (scheduler.py) | candidate tables, phases, streams, the region queue | split, chain, pack, emit, patch | streams to the engines, phases to the arena layout | concurrency inside a phase | each tile once, conflicts ordered, barriers uniform | VMProgram, PhaseSplit, Scheduler, LaneOrder |
| Megakernel interpreter, `vm2` (vm_main.cl) | per lane a stack of frames, a program counter | tiles, while/for/if, barrier, end of range | reads the streams, writes the arena | every lane decides control for itself | same control on all lanes, no race, right result | Interpreter, LaneVM |
| Host-dispatch engine, `LaunchHostDispatch` (runtime.cc) | host copies of the frames, a ring of staged segments, the queue | walk, stage, flush, wrap, route, test a flag | in-order queue, `vm2_seg`, matmul kernels | host runs ahead of the device; non-blocking writes from host memory | slots reused in time, right result | Interpreter, HostDispatch |
| Reference interpreter and validator (vmreader.py) | one memory | `execute`, `execute_schedule` | the tests compare the engines with it | sequential | it is what the others are compared with | Reference, TensorVM |
| Program load and execution (runtime.cc) | arena, ports, the runtime's lock | Load, ExecuteDevice, LaunchKernel | PJRT API above, engines below | partial failure, aliasing of outputs, state kept from call to call | right binding, nothing leaked | Execution |
| Buffer pool (runtime.cc) | free buffers by size | PoolAlloc, PoolFree | PJRT buffers | reuse while commands are queued | one owner for each cl_mem | Execution |
| PJRT C API (plugin.cc) | buffers, executables | create, execute, delete | JAX's threads | several threads, events that are born ready | a buffer keeps its value | Execution |
| Lowering subprocess (runtime.cc, lower_service.py) | pipes, child | fork, poll loop, kill, wait | called by every compile | two compiles at once, timeouts | an answer or an error, always ends | LowerProcess |

`PROJECT.json` lists every component with its status, and under `hazards` what
is hard to test in this code, each at its line, with the properties that would
catch it going wrong or the reason why none does.

## Modules

Barrier and device:

* **PhaseBarrier** is the promise: every lane arrives at barrier *k*, and
  passes it once every lane has arrived at it.
* **SpinBarrier** is `vmo_barrier`, one step per access to `bar[0]` or
  `bar[1]`, with the device admitting work-groups while it has room and never
  preempting one. `pc` is where a lane's leader is, `barrier_i` what vm2 calls
  so, `round` a history variable. It refines PhaseBarrier: arriving is the
  increment of `bar[0]`, passing the return.
* **BarrierFences** adds to each step what it does under OpenCL 2.0's
  happens-before (`cur`, `acq`, `rel`, `msg`) and on a device with private
  caches that write back at a release and invalidate at an acquire (`mem`,
  `line`): the two readings of the fences.
* **Discovery** is `vmo_discover`, one step per atomic, on a launch that may
  exceed the device's capacity. **EngineSelect** puts it in the middle of
  `OclRuntime::Create`: stages in the order of the code, the environment as
  free choices, and `RunsOnHost` for what `Load` decides per program.

Scheduling and layout:

* **VMProgram** has the instructions and `scheduler.py`'s dependency analysis,
  with the elements a tile touches (`Clash`), from which the ordering property
  is stated independently of that analysis.
* **PhaseSplit** is `_phases` as a state machine, one instruction per step,
  with its two tables.
* **Scheduler** is `schedule_program` as operators: levels, map chains, chunks,
  longest-processing-time packing, entries, sub-list regions and the work list.
* **LaneOrder** lets the lowering emit instructions one by one and states what
  the streams of every program guarantee; **MCLaneOrder** has the instructions.
* **ArenaReuse** is `_reuse_arena` and, for the reference, `new_buffer`'s
  layout without reuse.

Engines:

* **Interpreter** has what the engines rely on and compute with: what the lowering
  sees to in every program it hands on (where the sub-lists of a region lie, that
  flags are buffers of their own, that tiles stay within their buffers), an
  arena by address, the value of a tile. `WellFormed` is an assumption on the
  engines' programs, which TLC evaluates for the samples. **LaneWalk** has a lane's walk through its stream, a stack of
  frames, which both engines make the same way.
* **LaneVM** is `vm2`: one process per lane, over PhaseBarrier.
  `log` is a history variable, what a lane touched since its last barrier.
* **HostDispatch** is `LaunchHostDispatch` as a host process and a device that
  works off an in-order queue; segments' work-groups interleave. The host's
  `advance` takes one step for each entry it passes, lane after lane
  (`walker`), while the device goes on.
* **Reference** is `execute` of vmreader.py; **SamplePrograms** the program
  shapes the lowering emits: fork and join, reductions, while, counted loops
  with copy-back, a branch within a loop within a loop, a switch, a matmul
  between segments. **MCEngines** gives every program to either engine.

Lowering. A handler is an operator from a lowering context to the next:

* **Tensors** and **StableHLO**: elements, shapes and what each operation
  *means*, stated on coordinates; **SourceProgram**: what a program with
  regions means. These are the abstract specification.
* **TensorVM**: the instructions, what one tile of each reads and writes
  (opsem.py and the `reads`, `interp`, `tile_sim` of ops/).
* **LoweringContext** (`_Ctx` and its helpers), **ElementwiseHandlers**
  (elementwise.py, making.py, bitcast.py), **ShapeHandlers** (shape.py,
  concat.py, dynslice.py), **IndexHandlers** (gather_index.py,
  scatter_index.py), **ReduceHandlers** (reduce.py, reduce_window.py, dot.py,
  conv.py), **ComplexHandlers** (complex_fft.py).
* **RegionLowering**: `while` (counted or not, unrolled or not, carries in
  place or by snapshot), `if`, `case`, `call`, and the queue of regions.
* **Fusions** (`_compose_affines`, `_fuse_matmul_views`, `_fuse_views`,
  `_dce_nops`, `_fuse_mma_epilogue`), **PatternFusions** (`_fuse_norm`,
  `_fuse_gelu`), **MapRegions** (`_fuse_region`).
* **LowerModule** is `lower_module` as a state machine: one root operation, one
  queued region or one pass per step; a finished straight-line list is then run
  tile by tile in any order its conflicts allow. **OpSamples** has a program
  for every operation and route of its handler, **MCLowerModule** the loops,
  branches, calls and fusion patterns with their near misses.

Client:

* **Execution**: PJRT buffers, executions and uploads of several threads
  (`call`), the pool, ports, the queue, and what each cl_mem holds. A call to
  Execute takes one step for each command it enqueues and each cl_mem it takes
  (`ExecBind`, `ExecInput`, `ExecAlloc`, `ExecLaunch`, `ExecCopy`,
  `ExecFinish`), each with its way of failing, while the device works off the
  queue. A buffer carries the value it stands for, `Meaning` of the program that
  returned it.
* **LowerProcess**: threads that compile at once, the descriptors every process
  holds (`fds`), pipes as numbers of chunks, and the service.
* **MCClient** is a client that is created (EngineSelect) or whose threads do one
  or the other.

**BarrierProofs** (SpinBarrier and BarrierFences), **EngineSelectProofs** (the
probe and Create), **LaneOrderProofs** (PhaseSplit and LaneOrder),
**EngineProofs** and **ClientProofs** (LowerProcess and Execution) hold the
theorems; **SchedulerProofs** has the facts about schedule_program's operators,
**JobProofs** (Scheduler, for programs that are `WellFormed`) what it makes of loops and branches,
and **Recursion** those about least elements, iterated functions, sorting and
appended lists that they share.

How they compose: LowerModule ends with the list that Scheduler takes. LaneVM's
programs come from Scheduler over ArenaReuse and run on PhaseBarrier, which
SpinBarrier implements, whose memory BarrierFences justifies, with as many lanes
as EngineSelect allows; so its result is a statement about scheduler, layout,
interpreter and barrier together. HostDispatch replaces the barrier by the queue
and keeps the rest. Execution takes a launch as one command, which the in-order
queue and `ResultCorrect` justify.

Scheduler.tla was also compared with scheduler.py itself: 200 random programs
(elementwise and shaped instructions, concatenation slices, nested regions) at
2, 3 and 4 lanes gave the same streams, entry for entry.

What is abstracted. For the engines an opcode is elementwise, shaped or control,
with one representative function per kind of data flow (values modulo `Mod`), a
buffer is a few elements, costs are two integers. In the lowering every opcode
computes what it computes, over the prime field of order `2 * Top + 1`: sums and
products obey the laws of algebra, which the rewrites rely on, exp, tanh and the
like are functions with no law at all, so that a value in a wrong place shows.
Rounding, NaN, i64 and f64 are out. A lane is one process: its leader's steps are
the lane's, and work-items inside a group are not told apart. For Execution a
program is a few additions.

## Runs and bounds

| Run | Question | Bounds, and why they are enough |
|---|---|---|
| SpinBarrier | Is the two-word barrier a barrier, does it end, and what do its fences make visible? | 3 lanes, so that one waits while one flips and a third is elsewhere; 4 barriers with a 2-valued phase word, so that the word wraps twice (2^32 in the code; the proofs are for every modulus from 2) |
| LaneOrder | Are conflicting tiles ordered under every interleaving? | all programs of up to 4 of 10 instructions over 3 buffers, 3 lanes, up to 4 tiles with a last one partly filled; no deadlock check, as it stops at `MaxLen` |
| ViewedOperands (violation) | ... also with operands read through a folded transpose? | 2 lanes, up to 3 instructions |
| Engines | Does either engine compute what the program says? | 7 programs, 3 lanes, reused arena; a ring of 2 slots (256 in the code), so that it wraps in most of them; `NBarriers` = 40 is above what any of them passes |
| LowerModule | Does lowering keep the meaning? | 1357 programs: every operation with the routes of its handler, tiles of 2 elements (a last one partly filled), run-time starts and indices below, in and above their range, loops of 2 and 3 trips, nested branches, calls made twice, the fusion patterns and programs one step away from them; limits (`UnrollTrips` 2, `UnrollOps` 4, `UnrollArena` 200, `MaxParts` 3, `ConcatIdxMax` 6, `NormSegMax` 4, `RegionSlots` 4, `RegionMaxIn` 4, `RegionLoopMin` 2) are set so that both sides occur; `LoopBound` = 8 is above every trip count |
| DeferredCapture, InplaceCommit, MatmulViewFold, ScatterDropped (violations) | ... for four kinds of program left out of LowerModule's | a few programs each |
| Client: Create | Does the probe count right and end, and is the megakernel only where it may be? | 4 groups on a device of 2, so that half are resident only after others leave; 3 polls and a stability of 2, so that the window closes both ways; 2 compute units and a threshold of 2, so that the count is below, at and above both; every device and environment |
| Client: calls | Do concurrent calls leave buffers and compiles alone? | compiles: 2 threads, programs and answers of 2 chunks through pipes of 1, so that a timeout can find the answer half read; executions: 2 threads, 4 calls, 4 cl_mems, a pool of 1 (4 for each size in the code), 2 ports (8), uploads of two values, and failures at every enqueue and allocation |
| AliasedOutputs (violation) | ... also for programs that return a buffer twice, or a constant? | the same |
| CompileDeadlock (violation) | Do the pipes of two compiles stay apart? | the same |

The properties in one line each. *SpinBarrier*: `NoLaneAhead`, no lane past a
barrier another has not reached; `ResetLosesNoArrival`, the plain reset
overwrites no arrival; `NoLostWakeup`, the wrapping word never looks unchanged
to a lane whose flip has happened; `FreshReads`, with caches a phase reads what
any lane stored before; `FlipperOrdered`, what the language itself orders;
`Completes`; `RefinesFairPhaseBarrier`. *LaneOrder*: `Separated`,
`Justified`, `SameAsDirect`, barriers where needed, only where needed, where
the quadratic definition has them; `TilesCovered`, `UniformBarriers`,
`ConflictsOrdered`, the conditions on streams. *Engines*: `RaceFree`, between
two barriers no two lanes touch one place of the arena with a write among the
two, whichever buffers share it (this also justifies a tile as one step);
`UniformControl`, `UniformWalk`, lanes agree on control; `StagingHeld`,
`SlotsCurrent`, host and device copies of the ring; `ResultCorrect`, outputs are
the reference interpreter's; `Ends`. *LowerModule*: `MeaningPreserved`, after
each pass; `AnyOrder`, in every order of tiles in which a tile waits for all the
tiles of an earlier instruction that it conflicts with, with read sets as
declared (that a chain of elementwise instructions may wait for less is
`ConflictsOrdered`); `WritesInBounds`, `OneWriter`, for tiles that may run now.
*Client*, of Create: `HoldersStayResident`, counted groups are resident at one
time while the gate is open; `CountWithinResidency`; `CountFrozen`, none is added
after; `MegakernelFits`, no program on the megakernel without fences, against
the user's choice or with more lanes than were measured to be resident;
`CreateEnds`. Of calls: `BuffersHold`, from its return on a buffer holds its
value; `OwnedOnce`, each cl_mem has one owner and none is lost;
`AnswersOwnProgram`, a compile returns what its own service made of the whole
program, and a late or cut-off answer is not taken for it; `CompileEnds`.

## Fairness

* Barrier, LaneVM: each lane is weakly fair once resident, and free room is
  given to a queued group. This is what GPUs do, an occupancy-bound model; it
  is *not* what PoCL does (a worker that spins is never taken off its thread,
  docs/decisions.md #1), which is why the code uses host dispatch there.
  `Completes` is stated for launches that fit (`nlanes <= Capacity`).
* Client, Create: the same for the probe's groups, with nothing assumed for
  groups that are not resident; `Create` itself runs on one host thread. A
  failing call is possible but never due.
* HostDispatch: the host thread runs and the device works off its queue; the
  work-groups of a segment need not be resident together.
* Client, calls: calling threads and services are scheduled, and poll's minute passes
  when nothing becomes ready. The model's clock has no rate: a timeout is due
  only where nothing else is, so that a slow service and a stuck one differ.

## Proofs

TLAPS checks, for every value of the constants that satisfies the named
assumptions (a finite nonempty set of lanes or groups, a positive capacity, at
least two phase values, positive costs, programs over a given set of buffers,
straight-line instructions for LaneOrder):

* **BarrierProofs.** `NoLaneAhead` and `NoLostWakeup` are not inductive
  alone. `IInv` adds where each lane is relative to the number of flips
  (`LaneInv`), that every other lane spins at the same barrier while one resets
  or flips (`LastInv`), and that `bar[0]` is the number of lanes waiting at the
  current barrier, or 0 before the flip (`CountInv`). The counting step is the
  last arrival: `nlanes - 1` waiting lanes and this one are all the lanes.
  `Refinement` maps each step to one of PhaseBarrier or to a stutter; the
  passing step needs that everybody has arrived once the round went up. For the
  fences, over `IInv`, `FIInv`: views are functions into the
  naturals (`ViewsOK`) that never claim what has not been stored
  (`ViewsWithin`), what a lane has released covers its own phase
  (`OwnReleased`), the counter carries the stores of everyone who has arrived
  (`CounterCarries`), which the last lane hears (`LastHeard`), and every cache
  line is as young as memory was at the flip (`Coherent`). Hence
  `FlipperOrdered` and `FreshReads`.
* **EngineSelectProofs.** First the probe: `IInv` relates lock, gate and tickets
  to the groups' places in the code; the count is the number of ticket holders,
  all of whom stay resident while the gate is open, and residents never exceed
  the capacity. From this the count's bound and that it is frozen. Then Create,
  whose steps are the probe's or leave it alone (`ImplementsProbe`), so that what
  was proved of the probe holds in it; with what each stage has settled
  (`Settled`) this gives `MegakernelFits`.
* **LaneOrderProofs, the splitter.** `IInv` says the tables hold exactly the readers and
  writers of the open phase; a dependence implies a shared buffer, hence a
  candidate (`CandidatesSuffice`), so comparing with candidates is as good as
  comparing with the phase. `TablesDecideAlike` is `SameAsDirect`: the phases
  cut so far are those of the quadratic definition on the instructions taken so
  far, by the recursive function's own equation at each step.
* **SchedulerProofs** and **LaneOrderProofs.** That schedule_program's streams
  are right for every straight-line program, by following the operators of
  Scheduler: phases are
  contiguous and free of cross-lane dependences (`PhasesPhased`, `PhaseIsFree`);
  chains partition a phase's elementwise instructions, no edge leaves one and
  all of one have the same element count (`LeastPartition`, `LeastUniform`,
  `FreeEdges`); the chunks of a unit partition its tiles, which needs that a
  unit gets between one part and as many as it has tiles (`PartsBounded`,
  `ChunksSplit`); sorting and placing loses and doubles none (`Sorting`,
  `PackPlaces`), wherever the least loaded lane is; level *m* lies behind *m* - 1
  barriers in every lane (`LaneSpots`). `Scheduled` says all this of a stream
  and `StreamsScheduled` that the streams satisfy it; `TilesCovered` and
  `UniformBarriers` follow. `ConflictsOrdered` also needs that what conflicts
  inside a phase is an edge of a chain and the same tile (`ClashJoined`), which
  holds because a phase has one elementwise writer of a buffer
  (`OneMapWriter`), and fails for a viewed operand: `ProgramOrder` excludes
  those by hypothesis, and finding 1 shows that it must. The assumptions on the
  instructions (`CatalogueStraight`) are that none is a region and that a slice
  of a concatenation is written to a new buffer (concat.py:171). `SplitAsDirect`
  is PhaseSplit's theorems while the program grows.
* **JobProofs.** Where the lists of a program with regions are in the streams, for
  every program of the form the lowering sees to (`Listing`, part of
  `WellFormed`). A list's levels are contiguous stretches in every lane, barriers
  between them (`Sections`, `ListEmitted`). While jobs are served some lists are
  placed and the others wait: every control entry either names its sub-lists'
  stretches (`Settled`) or its job is in the queue with the places it is to be
  patched at (`Steered`, `Waiting`). Serving a job places two lists, disjoint
  from all before, patches one entry in each lane and moves nothing else
  (`ListPlaced`, `RangesPatched`, `JobServed`); as many jobs are served as there
  are regions, so the queue is empty in the end (`ProgramScheduled`).
  On top of that, walks: a *trail* is the lists a walk is in, with the level it is
  at in each (`Trails`), without any lane's positions; `Fits` says that a lane's
  frames are at a trail, and each way of moving frames moves them to the trail it
  should (`StepTile`, `PushFits`, `RewindFits`, `PopFits`, ...).
* **JobProofs, the arena.** `ArenaSound`: buffers whose lives overlap have no
  address in common. First fit puts a buffer clear of all it is given
  (`FitIsClear`: the ends of the others are a finite set, so some candidate is
  free), and placing one more keeps those before it apart (`OneMorePlaced`).
  That a life is a bounded set of phases (`JobLivesAre`) rests on every
  instruction of a region having its root's phase: the recursive function
  `PhaseTime` is solvable because the enclosing instruction has a smaller number
  (`EnclosingIs`, `RootTime`). `SharedTime`: instructions of one phase touch
  disjoint stretches of the arena unless they touch the same buffer.
* **EngineProofs, the ring.** The host reuses slots of the ring while the device is
  still behind. `RingInv`: what is enqueued is of slots below `ring`, whose
  staged copies nobody changes before the next drain (`QueueOK`), and a
  segment's slot holds it on the device already, or the write that will bring it
  is ahead in the queue and nothing behind it writes there (`SlotsOK`). Hence
  `StagingHeld` and `SlotsCurrent`, for any program, streams, number of slots and
  failing enqueue, until the host returns an error: from then on `StagingHeld`
  is false (see the observations).
* **EngineProofs, the walk.** `LanesInStep` is `UniformWalk`. The lanes do not stay
  at one trail: one with no tiles of a level is past it at once, one with no
  entries in a branch goes around it. `WalkInv` therefore says that all lanes are
  at trails that a walk from *one* trail comes to by itself (`Course`). What a walk
  stops for depends on its trail alone (`StopsFor`), and a course has one end
  (`OneEnd`), so lanes that have stopped have stopped at the same trail
  (`OneStop`); the control that follows takes all of them to a new common one
  (`ControlInStep`), the lanes that skip an empty branch along its course
  (`BranchSkipped`). Two hypotheses: no enqueue fails, and `BranchesFit`, since a
  branch deeper than `MaxDepth` is reported by the code too. TLC checks that the
  samples satisfy it (`SamplesFit`). With it StagingHeld and SlotsCurrent hold
  throughout (`LaunchHolds`).
* **EngineProofs, the megakernel.** `RaceFree` speaks of lanes that are far apart in
  their code: each goes on from a barrier alone, around branches it has no entries in.
  `VMInv` says that there is always a last barrier, at one trail, at which all lanes
  have arrived. A lane still waits there (`Lags`), has just passed it (`Crosses`), or
  is on the walk from it to the next (`Tours`), and what it logged since is tiles of
  that walk or flags the walk reads. Each tour starts at the `Opening` of the
  barrier's trail, which depends on a flag. Lanes that read it at different moments
  agree, because nothing in between writes it: no instruction of the branch or loop
  body that the flag opens has it for a destination (`FlagForm`, `FlagSpared`), and no
  other buffer's tile is at its address (`FlagsKept`, from the layout's
  `ArenaSound`). A tour enters at most one level with tiles, since a level
  ends in a barrier, so two lanes that tour run tiles of one level
  (`LogsClear`), and the schedule and the arena's layout keep these apart
  (`TilesClear`: `Scheduled`'s chains, with `BuffersApart` for buffers of one phase).
  `UniformControl` follows from the one trail (`OneControl`), `RaceFree` from the logs.
  `LanesNeverRace` has one hypothesis, `Unviewed`: no elementwise instruction
  has a folded gather, which the code does not schedule for (finding 1). TLC checks
  that the samples satisfy it (`SamplesUnviewed`).
* **ClientProofs, compiles.** `PInv` says of each compile where its chunks are: what
  was read, what is in the pipe and what the service has still to write make up
  the answer (`AnswerWhole`), and the program's pipe ends only behind its last
  chunk (`InputWhole`). None of it is about ends that other threads' children
  hold: those can delay an end of file (finding 7) but never forge one, so
  that `AnswersOwnProgram` holds all the same. After a timeout the code believes
  an exit status of 0 although it has stopped reading; what saves it is that
  `VmProgram::Parse` reads within bounds (`Parses`).
* **ClientProofs, executions.** Each cl_mem is in exactly one place: the pool, a live PJRT
  buffer, or the hands of a call that has taken it and not yet given it away.
  `OwnInv` is that partition with handles distinct and numbered below the next
  one (`Numbered`) and the pool within its bound (`PoolOK`); `OneOwnerEach` is
  `OwnedOnce`. `BuffersHold` speaks of memory after the queue will
  have run, and of a program's meaning, both recursive functions; Recursion
  reads them as runs of a step function. `Computes`: a launch on ports that hold
  the arguments' values leaves `Meaning` in the output ports. The invariant
  `Values` says of the memory as the queue *will* leave it: ports are of one call
  at a time (`Locked`), a running call's arguments are still live and hold their
  values (`ArgsLive`), constants are where Load put them (`ConstsKept`), the
  part of the call already enqueued has its effect (`Prepared`), and live
  buffers hold what they stand for (`BuffersSettled`). `ValuesHeld` has one
  hypothesis, `Regular(p)` for every program: outputs are pairwise distinct and
  none is a constant. Finding 6 shows that without it the property is false;
  TLC checks that the programs of the Client run satisfy it (`RegularOnes`) and
  that `Values` holds there.

Only model-checked: liveness and the fair refinement (`Completes`, `Ends`,
`CreateEnds`, `CompileEnds`, `RefinesFairPhaseBarrier`), which the provers do not
reach; everything over RECURSIVE operators: Reference and with it
`ResultCorrect`, the properties of LowerModule and of the modules it is made of.

## Disagreements found

1. *Viewed operands break the lane-local rule* (ViewedOperands). `_cross_lane_dep`
   does not look at the views that `_fuse_views` adds. LaneOrder's passing run
   has no viewed operands.
2. *A branch reads what its captures were bound to last* (DeferredCapture).
   Branches are lowered after the root list, and unrolled loops and calls bind
   the same names again in every copy.
3. *A carry written in place while its old value is still owed to another carry*
   (InplaceCommit): `(a, b) -> (b, a + b)`.
4. *A matmul loses an update* (MatmulViewFold). `_fuse_matmul_views` takes the
   copy before a dynamic_update_slice for a view, a case its sibling excludes.
5. *An update outside the operand is not dropped* (ScatterDropped). The handler
   clamps a scatter's indices as a gather's, in its docstring too. StableHLO
   clamps for gather and dynamic slices only; a scatter leaves the operand as it
   is where an update would fall outside. So `x.at[5].add(y)` of three elements,
   which JAX lowers to this operation and expects to do nothing, adds to the last
   one. LowerModule's programs have such indices where the element that is
   written instead is not looked at.
6. *Outputs that share a buffer, or are constants* (AliasedOutputs), come back
   unwritten: ports are given by buffer id, constants live in the arena.
7. *Two compiles can hold each other's pipes open* (CompileDeadlock) until the
   timeout kills one. `AnswersOwnProgram` and `CompileEnds` hold all the same.

The programs of LowerModule's and Client's passing runs leave out those of
findings 2 to 6; each finding's run has them.

## Observations without a run

* The pattern fusions do not look at how a gather moves. `_fuse_norm` follows
  broadcasts through any OP_GATHER_STRIDED (lowering.py:1611) and drops the views
  of the operands it matches, and `_fuse_gelu` takes tanh's operand as it stands
  (lowering.py:1854), both though "on ANY mismatch" the list should be left
  alone. A softmax or layer norm of a square matrix whose row maxima, sums or
  means are spread over the columns becomes OP_SOFTMAX or OP_LAYERNORM, and a
  gelu with a transpose before its tanh OP_GELU. `MeaningPreserved` fails with
  `Programs <- NormLost` or `Programs <- GeluLost` in LowerModule's
  configuration.
* More lanes than are resident can be launched after all, against
  docs/decisions.md:256: a probe that fails leaves two lanes a compute unit
  (runtime.cc:597), and PJRT_OCL_VM_LANES replaces the count. `MegakernelFits`
  leaves both out, and fails when `measured_res > 0` or `~lanes_forced` is
  removed from it.

* With two lanes every read after a barrier is ordered by the language's rules,
  with three it is not (`PayloadOrdered` in BarrierFences): a waiting lane
  synchronises only with the one that flips. Fences that act on whole caches
  make up for it (`FreshReads`).
* A failed enqueue in the middle of a group returns from LaunchHostDispatch with
  a non-blocking write pending whose source is freed (runtime.cc:1681, which
  runtime.cc:1531 forbids). With `MayFail = TRUE` `StagingHeld` fails so.
* Loops nested to the documented depth of 8 overflow the host engine's frames,
  which it takes for the end of the program (runtime.cc:1590).
* On a GPU with few resident groups, PJRT_OCL_MM_HYBRID sets
  `hybrid_forces_hd_` although the device would default to the host engine
  anyway, so that programs without routable matmuls run on the megakernel there
  (runtime.cc:568 runs before runtime.cc:612). It is sound, only slow.
* A clFinish that fails leaks the outputs, a WriteToDevice that fails its cl_mem
  (runtime.cc:2185, plugin.cc:635).
* A Delete while another thread's Execute is between taking the cl_mem and
  taking the lock hands an argument to the pool (plugin.cc:956). Execution
  assumes, as JAX does, that arguments in use are not deleted; without that
  guard `BuffersHold` fails.

## Not modelled

Attention fusion (off by default) and `_finalize_matmul_views` (copies fields);
rounding, NaN, i64, f64, sorting and random numbers; the arithmetic of the tile
kernels, of which only what a tile reads and writes is there; the validator's
fixed lane orders, which the models' interleavings include; the bytecode, which
is layout; cost calibration, which only weights the packing; the standalone
matmul path and the choice among matmul kernels; tracing and profiling; events
(born ready), metadata queries and copies to the host in the C API; signals
during poll and waitpid; plugin registration, experiments, tools and benchmarks.
