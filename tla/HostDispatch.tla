---------------------------- MODULE HostDispatch ----------------------------
(***************************************************************************)
(* LaunchHostDispatch (runtime.cc): the engine of devices whose work       *)
(* groups cannot be trusted to be resident together.  The host walks the   *)
(* lane streams itself and turns every barrier-free segment into a kernel  *)
(* of NLanes independent work groups (vm2_seg) on an in-order queue, which *)
(* the device works off in its own time.                                   *)
(*                                                                         *)
(* Segments reach the device through a ring of slots: they are staged in   *)
(* host memory (seg_stream), and a flush enqueues one non-blocking write   *)
(* of the staged slots followed by one kernel per slot.  A non-blocking    *)
(* write reads the host's memory when the device gets to it.               *)
(***************************************************************************)
EXTENDS LaneWalk

CONSTANTS
  Slots,       \* kSegSlots: slots of the ring
  MayFail,     \* may an enqueue fail?
  Freed        \* what is in host memory that has been given back

ASSUME SlotsPositive  == Slots \in Nat \ {0}
ASSUME MayFailBoolean == MayFail \in BOOLEAN

VARIABLES
  walker,      \* the lane whose walk is being advanced
  seg,         \* seg[l]: the segment lane l's walk collected, [off, count]
  ev,          \* what ended the walk: an Ev
  host,        \* where the host is; "ok" and "error" are its returns
  ring,        \* first slot of the staged group
  staged,      \* slots staged since the last flush
  staging,     \* seg_stream, in host memory
  slots,       \* seg_tab_buf_, in device memory
  queue,       \* commands the device has not finished, oldest first
  done         \* done[l]: tiles of the running segment that lane l has run

ringVars   == <<ring, staged, staging>>
deviceVars == <<slots, queue, done, arena>>
vars == <<job, frames, walker, seg, ev, host, ringVars, deviceVars>>

SlotIds == 0 .. Slots - 1

NoSegment == [off |-> 0, count |-> 0]
NoSlot    == [l \in LaneIds |-> NoSegment]

Init ==
  /\ \E j \in Jobs : job = Loaded(j) /\ arena = Filled(job, job.at)
  /\ frames  = [l \in LaneIds |-> RootWalk(job.rootLens[l])]
  /\ walker  = 1
  /\ seg     = NoSlot
  /\ ev      = "barrier"
  /\ host    = "walk"
  /\ ring    = 0
  /\ staged  = 0
  /\ staging = [s \in SlotIds |-> NoSlot]
  /\ slots   = [s \in SlotIds |-> NoSlot]
  /\ queue   = <<>>
  /\ done    = [l \in LaneIds |-> 0]

(* The walk: advance takes each lane in turn to its next barrier or transition *)

Extended(run, pc) == IF run.count = 0 THEN [off |-> pc, count |-> 1]
                     ELSE [run EXCEPT !.count = @ + 1]

Loops(entry) == entry.kind = "while" \/ (entry.kind = "for" /\ entry.trips > 0)

\* What lane l's walk stops for where it is, or "on".
Stop(l) ==
  CASE AtEnd(frames[l]) /\ AtRoot(frames[l])  -> "done"
    [] AtEnd(frames[l]) /\ ~AtRoot(frames[l]) ->
         IF Owner(l).kind # "while" THEN IF Owner(l).kind = "if" THEN "on" ELSE "for"
         ELSE IF Last(frames[l]).phase = 0 THEN "cond" ELSE "body"
    [] ~AtEnd(frames[l]) ->
         IF Entry(l).kind \in {"barrier", "if"} THEN Entry(l).kind
         ELSE IF Loops(Entry(l)) /\ Len(frames[l]) >= MaxDepth THEN "done" ELSE "on"

Advancing(l) == host = "walk" /\ walker = l

Goes(l, stack) ==
  /\ frames' = [frames EXCEPT ![l] = stack]
  /\ UNCHANGED <<job, walker, ev, host, ringVars, deviceVars>>

\* Over a tile, into a loop, or out of a branch.
CollectTile(l) ==
  /\ Advancing(l) /\ Stop(l) = "on" /\ ~AtEnd(frames[l]) /\ Entry(l).kind = "tile"
  /\ Goes(l, Step(frames[l]))
  /\ seg' = [seg EXCEPT ![l] = Extended(@, Last(frames[l]).pc)]

EnterLoop(l) ==
  /\ Advancing(l) /\ Stop(l) = "on" /\ ~AtEnd(frames[l])
  /\ \/ Entry(l).kind = "while" /\ Goes(l, Pushed(frames[l], Entry(l).x, 0))
     \/ Entry(l).kind = "for" /\ Goes(l, IF Entry(l).trips = 0 THEN Step(frames[l])
                                         ELSE Pushed(frames[l], Entry(l).y, Entry(l).trips))
  /\ UNCHANGED seg

LeaveBranch(l) ==
  /\ Advancing(l) /\ Stop(l) = "on" /\ AtEnd(frames[l])
  /\ Goes(l, Popped(frames[l]))
  /\ UNCHANGED seg

\* Lane l has come to a stop, the same as lane 1's or the host gives up.
EndAdvance(l) ==
  /\ Advancing(l) /\ Stop(l) # "on"
  /\ ev' = IF l = 1 THEN Stop(l) ELSE ev
  /\ IF Stop(l) # ev'
     THEN /\ host' = "error" /\ staging' = [s \in SlotIds |-> Freed]
          /\ UNCHANGED walker
     ELSE /\ host'   = IF l = NLanes THEN "stage" ELSE "walk"
          /\ walker' = IF l = NLanes THEN l ELSE l + 1
          /\ UNCHANGED staging
  /\ UNCHANGED <<job, frames, seg, ring, staged, deviceVars>>

Advance(l) == CollectTile(l) \/ EnterLoop(l) \/ LeaveBranch(l) \/ EndAdvance(l)

(* Enqueueing *)

\* A command carries what it is meant to transfer or run (image), for stating
\* that it does.
Write(from, n) ==
  [cmd |-> "write", from |-> from, n |-> n,
   image |-> [s \in from .. from + n - 1 |-> staging[s]]]

Segment(slot) == [cmd |-> "segment", slot |-> slot, image |-> staging[slot]]

Matmul(task)  == [cmd |-> "matmul", task |-> task]

GroupCommands_FirstSlots ==
  IF staged = 0 THEN <<>>
  ELSE <<Write(ring, staged)>>
         \o [i \in 1 .. staged |-> [Segment(ring + i - 1) EXCEPT !.slot = i - 1]]

\* flush_group's commands.
GroupCommands ==
  IF staged = 0 THEN <<>>
  ELSE <<Write(ring, staged)>> \o [i \in 1 .. staged |-> Segment(ring + i - 1)]

\* An enqueue fails: what was enqueued before it stays, and the host returns.
Fails(commands) ==
  /\ MayFail
  /\ \E k \in 0 .. Len(commands) - 1 : queue' = queue \o SubSeq(commands, 1, k)
  /\ host' = "error"
  /\ staging' = [s \in SlotIds |-> Freed]
  /\ UNCHANGED <<ring, staged>>

\* flush_group, and then further commands; host goes on to next.
Flush(further, next) ==
  /\ LET commands == GroupCommands \o further
     IN \/ /\ queue'  = queue \o commands
           /\ ring'   = ring + staged
           /\ staged' = 0
           /\ host'   = next
           /\ UNCHANGED staging
        \/ Fails(commands)
  /\ UNCHANGED <<slots, done, arena>>

Run(l) == [k \in 1 .. seg[l].count |-> job.streams[l][seg[l].off + k - 1]]

Tasks    == {i \in DOMAIN job.prog : \E l \in LaneIds : \E e \in ToSet(Run(l)) : e.task = i}
AnyTiles == \E l \in LaneIds : seg[l].count > 0

\* routable_phase: nothing but matmuls, each left to a kernel of its own.
Routable == \A i \in Tasks : job.prog[i].fn = "matmul"

\* The order is that of their first tiles, lane by lane; which does not matter.
TaskOrder      == Ascending(Tasks)
MatmulCommands == [k \in 1 .. Cardinality(Tasks) |-> Matmul(TaskOrder[k])]

InPhase == host = "stage" /\ AnyTiles
KeepsWalk == UNCHANGED <<job, frames, walker, seg, ev>>

Route ==
  /\ InPhase /\ Routable
  /\ Flush(MatmulCommands, "control")
  /\ KeepsWalk

\* launch_seg.
StageSlot ==
  /\ InPhase /\ ~Routable
  /\ ring + staged < Slots
  /\ staging' = [staging EXCEPT ![ring + staged] = seg]
  /\ staged'  = staged + 1
  /\ host'    = "control"
  /\ UNCHANGED ring /\ UNCHANGED deviceVars
  /\ KeepsWalk

WrapRing ==
  /\ InPhase /\ ~Routable
  /\ ring + staged = Slots
  /\ Flush(<<>>, "wrap")
  /\ KeepsWalk

Wrapped_NoDrain ==
  /\ host = "wrap"
  /\ ring' = 0
  /\ host' = "stage"
  /\ UNCHANGED <<staged, staging>> /\ UNCHANGED deviceVars
  /\ KeepsWalk

\* clFinish, and the ring starts over.
Wrapped ==
  /\ host = "wrap" /\ queue = <<>>
  /\ ring' = 0
  /\ host' = "stage"
  /\ UNCHANGED <<staged, staging>> /\ UNCHANGED deviceVars
  /\ KeepsWalk

EmptyPhase ==
  /\ host = "stage" /\ ~AnyTiles
  /\ host' = "control"
  /\ UNCHANGED ringVars /\ UNCHANGED deviceVars
  /\ KeepsWalk

(* Control, after the phase has been staged *)

Continue(stacks) ==
  /\ frames' = stacks
  /\ walker' = 1 /\ seg' = NoSlot
  /\ host'   = "walk"
  /\ UNCHANGED <<job, ev>>

PassBarrier ==
  /\ host = "control" /\ ev = "barrier"
  /\ Continue([l \in LaneIds |-> Step(frames[l])])
  /\ UNCHANGED ringVars /\ UNCHANGED deviceVars

EndIteration_NoCount ==
  /\ host = "control" /\ ev = "for"
  /\ Continue([l \in LaneIds |-> Rewound(frames[l], Owner(l).y, Last(frames[l]).phase)])
  /\ UNCHANGED ringVars /\ UNCHANGED deviceVars

\* Counted loops stream into the queue without the host waiting.
EndIteration ==
  /\ host = "control" /\ ev = "for"
  /\ Continue([l \in LaneIds |->
                 LET left == Last(frames[l]).phase - 1
                 IN IF left > 0 THEN Rewound(frames[l], Owner(l).y, left)
                    ELSE Popped(frames[l])])
  /\ UNCHANGED ringVars /\ UNCHANGED deviceVars

RecheckCond ==
  /\ host = "control" /\ ev = "body"
  /\ Continue([l \in LaneIds |-> Rewound(frames[l], Owner(l).x, 0)])
  /\ UNCHANGED ringVars /\ UNCHANGED deviceVars

\* What is staged is enqueued before the host blocks.
FlushAndWait ==
  /\ host = "control"
  /\ \/ ev \in {"cond", "if"} /\ Flush(<<>>, "read")
     \/ ev = "done" /\ Flush(<<>>, "drain")
  /\ KeepsWalk

TestCond_NoDrain ==
  /\ host = "read" /\ ev = "cond"
  /\ LET taken == Flag(job.at, arena, Owner(1).flag)
     IN Continue([l \in LaneIds |-> IF taken THEN Rewound(frames[l], Owner(l).y, 1)
                                    ELSE Popped(frames[l])])
  /\ ring' = 0
  /\ UNCHANGED <<staged, staging>> /\ UNCHANGED deviceVars

\* The blocking read of the loop flag, which an in-order queue answers when it
\* is empty; lane 1's entry names the flag.
TestCond ==
  /\ host = "read" /\ ev = "cond" /\ queue = <<>>
  /\ LET taken == Flag(job.at, arena, Owner(1).flag)
     IN Continue([l \in LaneIds |-> IF taken THEN Rewound(frames[l], Owner(l).y, 1)
                                    ELSE Popped(frames[l])])
  /\ ring' = 0
  /\ UNCHANGED <<staged, staging>> /\ UNCHANGED deviceVars

\* ... and of a branch flag.
TestBranch ==
  /\ host = "read" /\ ev = "if" /\ queue = <<>>
  /\ LET taken     == Flag(job.at, arena, Entry(1).flag)
         Branch(l) == IF taken THEN Entry(l).x ELSE Entry(l).y
     IN IF \E l \in LaneIds : Branch(l).len > 0 /\ Len(frames[l]) >= MaxDepth
        THEN /\ host' = "error"
             /\ staging' = [s \in SlotIds |-> Freed]
             /\ KeepsWalk
        ELSE /\ Continue([l \in LaneIds |->
                            IF Branch(l).len = 0 THEN Step(frames[l])
                            ELSE Pushed(frames[l], Branch(l), 2)])
             /\ UNCHANGED staging
  /\ ring' = 0
  /\ UNCHANGED staged /\ UNCHANGED deviceVars

Return ==
  /\ host = "drain" /\ queue = <<>>
  /\ host' = "ok"
  /\ ring' = 0
  /\ staging' = [s \in SlotIds |-> Freed]
  /\ UNCHANGED staged /\ UNCHANGED deviceVars
  /\ KeepsWalk

HostStep ==
  \/ (\E l \in LaneIds : Advance(l)) \/ Route \/ StageSlot \/ WrapRing \/ Wrapped \/ EmptyPhase
  \/ PassBarrier \/ EndIteration \/ RecheckCond \/ FlushAndWait
  \/ TestCond \/ TestBranch \/ Return

(* The device *)

hostVars == <<job, frames, walker, seg, ev, host, ringVars>>

Executes(cmd) == queue # <<>> /\ Head(queue).cmd = cmd

TransferSlots ==
  /\ Executes("write")
  /\ LET w == Head(queue)
     IN slots' = [s \in SlotIds |-> IF s \in DOMAIN w.image THEN staging[s] ELSE slots[s]]
  /\ queue' = Tail(queue)
  /\ UNCHANGED <<done, arena, hostVars>>

\* The tiles of lane l's part of the running segment, in the lane's order.
LaneTiles(l) ==
  LET s == slots[Head(queue).slot][l]
      Tiles(e) == [k \in 1 .. e.hi - e.lo |-> [task |-> e.task, t |-> e.lo + k - 1]]
  IN FlattenSeq([k \in 1 .. s.count |-> Tiles(job.streams[l][s.off + k - 1])])

\* vm2_seg: the work groups of a segment run in any interleaving.
RunSegmentTile(l) ==
  /\ Executes("segment")
  /\ done[l] < Len(LaneTiles(l))
  /\ LET next == LaneTiles(l)[done[l] + 1]
     IN arena' = Stored(job, arena, job.prog[next.task], next.t)
  /\ done' = [done EXCEPT ![l] = @ + 1]
  /\ UNCHANGED <<slots, queue, hostVars>>

EndSegment ==
  /\ Executes("segment")
  /\ \A l \in LaneIds : done[l] = Len(LaneTiles(l))
  /\ queue' = Tail(queue)
  /\ done'  = [l \in LaneIds |-> 0]
  /\ UNCHANGED <<slots, arena, hostVars>>

RunMatmul ==
  /\ Executes("matmul")
  /\ LET ins == job.prog[Head(queue).task]
         Place(t) == job.at[ins.dst] + t
         tiles == 0 .. NTiles(ins) - 1
     IN arena' = [k \in DOMAIN arena |->
                    IF k \in {Place(t) : t \in tiles}
                    THEN Value(job, job.at, arena, ins, k - Place(0)) ELSE arena[k]]
  /\ queue' = Tail(queue)
  /\ UNCHANGED <<slots, done, hostVars>>

DeviceStep == TransferSlots \/ (\E l \in LaneIds : RunSegmentTile(l)) \/ EndSegment \/ RunMatmul

Returned == host \in {"ok", "error"}

Terminated == Returned /\ queue = <<>> /\ UNCHANGED vars

Next == HostStep \/ DeviceStep \/ Terminated

Spec == Init /\ [][Next]_vars
------------------------------------------------------------------------------
(* Properties *)

\* Host memory an enqueued write still has to read is left alone ("must stay
\* untouched until the next drain", LaunchHostDispatch).
StagingHeld ==
  \A k \in DOMAIN queue : queue[k].cmd = "write" =>
    \A s \in DOMAIN queue[k].image : staging[s] = queue[k].image[s]

\* A segment's kernel finds in its slot the segment it was enqueued for, however
\* far the host has run ahead of it.
SlotsCurrent ==
  Executes("segment") => slots[Head(queue).slot] = Head(queue).image

\* The lanes' streams always take the walk to the same kind of transition
\* ("non-uniform control across lanes" is never reported).
UniformWalk == host # "error"
=============================================================================
