----------------------------- MODULE EngineProofs -----------------------------
(***************************************************************************)
(* Theorems about the two engines that take a walk through the lanes'      *)
(* streams, for every program the lowering hands on and any number of      *)
(* lanes and slots.                                                        *)
(*                                                                         *)
(* The host engine (LaunchHostDispatch, runtime.cc): the ring of segments  *)
(* holds what is enqueued, however far the host runs ahead of the device,  *)
(* and the lanes' streams take the host through the program in step.       *)
(*                                                                         *)
(* The megakernel (vm2, vm_main.cl): its lanes never race and never part.  *)
(* Whichever lanes are ahead, those between the same two barriers are in   *)
(* one level of the program, whose tiles are clear of one another and of   *)
(* every flag the lanes still have to read.                                *)
(***************************************************************************)
EXTENDS HostDispatch, LaneVM, JobProofs

(* The host engine *)


Entries(q) == {q[k] : k \in 1 .. Len(q)}
IsList(q)  == q \in Seq(Entries(q))

\* Is slot s the target of an enqueued write?
Covers(c, s) == c.cmd = "write" /\ s \in DOMAIN c.image

\* The ring, the staged group behind it, and the two copies of the slots.
RingOK ==
  /\ ring \in Nat /\ staged \in Nat /\ ring + staged <= Slots
  /\ host \in {"wrap", "read", "drain", "ok"} => staged = 0
  /\ DOMAIN staging = SlotIds /\ staging = [s \in SlotIds |-> staging[s]]

\* Writes and segments are of slots that have been flushed since the last
\* drain, and were built from what the host's copy still has there.
QueueOK ==
  /\ IsList(queue)
  /\ \A k \in DOMAIN queue :
       /\ \A s : Covers(queue[k], s) => s \in 0 .. ring - 1 /\ queue[k].image[s] = staging[s]
       /\ queue[k].cmd = "segment" =>
            queue[k].slot \in 0 .. ring - 1 /\ queue[k].image = staging[queue[k].slot]

\* A segment's slot is on the device, or the write that will put it there is in
\* the queue before it.
SlotsOK ==
  \A k \in DOMAIN queue : queue[k].cmd = "segment" =>
    /\ \A j \in DOMAIN queue : Covers(queue[j], queue[k].slot) => j < k
    /\ \/ \E j \in DOMAIN queue : Covers(queue[j], queue[k].slot)
       \/ slots[queue[k].slot] = queue[k].image

RingInv == IsFiniteSet(DOMAIN job.prog) /\ (UniformWalk => RingOK /\ QueueOK /\ SlotsOK)
------------------------------------------------------------------------------
(* Lists *)

LEMMA ListShape ==
  ASSUME NEW q, IsList(q) PROVE Len(q) \in Nat /\ DOMAIN q = 1 .. Len(q)
  BY DEF IsList

LEMMA ListOf ==
  ASSUME NEW S, NEW q \in Seq(S) PROVE IsList(q)
  BY DEF IsList, Entries

LEMMA ListsJoined ==
  ASSUME NEW p, NEW q, IsList(p), IsList(q)
  PROVE  /\ IsList(p \o q)
         /\ Len(p \o q) = Len(p) + Len(q)
         /\ \A k \in 1 .. Len(p) + Len(q) :
              (p \o q)[k] = IF k <= Len(p) THEN p[k] ELSE q[k - Len(p)]
<1> DEFINE S == Entries(p) \cup Entries(q)
<1>1. p \in Seq(S) /\ q \in Seq(S)  BY DEF IsList, Entries
<1> HIDE DEF S
<1>2. IsList(p \o q)
  <2>1. p \o q \in Seq(S)  BY <1>1
  <2> QED BY <2>1, ListOf
<1>3. Len(p \o q) = Len(p) + Len(q)  BY <1>1
<1>4. ASSUME NEW k \in 1 .. Len(p) + Len(q)
      PROVE  (p \o q)[k] = IF k <= Len(p) THEN p[k] ELSE q[k - Len(p)]
  BY <1>1
<1> QED BY <1>2, <1>3, <1>4

LEMMA Behind ==
  ASSUME NEW q, IsList(q), q # <<>>
  PROVE  /\ IsList(Tail(q))
         /\ Len(q) \in Nat /\ Len(q) >= 1
         /\ Len(Tail(q)) = Len(q) - 1 /\ Head(q) = q[1]
         /\ \A k \in 1 .. Len(q) - 1 : Tail(q)[k] = q[k + 1]
<1> DEFINE S == Entries(q)
<1>1. q \in Seq(S)  BY DEF IsList
<1> HIDE DEF S
<1>2. IsList(Tail(q))
  <2>1. Tail(q) \in Seq(S)  BY <1>1
  <2> QED BY <2>1, ListOf
<1>3. Len(q) \in Nat /\ Len(q) >= 1  BY <1>1
<1>4. Len(Tail(q)) = Len(q) - 1 /\ Head(q) = q[1]  BY <1>1
<1>5. ASSUME NEW k \in 1 .. Len(q) - 1 PROVE Tail(q)[k] = q[k + 1]  BY <1>1
<1> QED BY <1>2, <1>3, <1>4, <1>5
------------------------------------------------------------------------------
(* The queue moves *)

\* The host goes on and leaves ring, queue and slots alone.
LEMMA Elsewhere ==
  ASSUME RingOK, QueueOK, SlotsOK, UNCHANGED <<ringVars, slots, queue>>,
         host' \in {"wrap", "read", "drain", "ok"} => staged = 0
  PROVE  RingOK' /\ QueueOK' /\ SlotsOK'
  BY DEF RingOK, QueueOK, SlotsOK, ringVars, Covers

\* Behind a drained queue the ring starts over.
LEMMA Restarted ==
  ASSUME RingOK, QueueOK, staged = 0, queue = <<>>, ring' = 0, UNCHANGED <<staged, slots, queue>>,
         staging' = staging \/ staging' = [s \in SlotIds |-> Freed]
  PROVE  RingOK' /\ QueueOK' /\ SlotsOK'
<1>1. RingOK'  BY SlotsPositive DEF RingOK
<1>2. IsList(queue)' /\ DOMAIN queue' = {}  BY DEF QueueOK, IsList
<1> QED BY <1>1, <1>2 DEF QueueOK, SlotsOK

\* A slot is staged behind all that is enqueued.
LEMMA Staging ==
  ASSUME RingOK, QueueOK, SlotsOK, StageSlot
  PROVE  RingOK' /\ QueueOK' /\ SlotsOK'
<1> USE DEF StageSlot, InPhase, deviceVars
<1>1. \A s \in 0 .. ring - 1 : staging'[s] = staging[s]
  BY DEF RingOK, SlotIds
<1>2. RingOK'
  <2>1. ring + staged \in SlotIds  BY SlotsPositive DEF RingOK, SlotIds
  <2>2. DOMAIN staging' = SlotIds /\ staging' = [s \in SlotIds |-> staging'[s]]
    BY <2>1 DEF RingOK
  <2> QED BY <2>2, SlotsPositive DEF RingOK
<1>3. QueueOK'  BY <1>1 DEF QueueOK, Covers
<1>4. SlotsOK'  BY DEF SlotsOK, Covers
<1> QED BY <1>2, <1>3, <1>4

\* The device is through with a command that is not a write.
LEMMA Worked ==
  ASSUME RingOK, QueueOK, SlotsOK, queue # <<>>, Head(queue).cmd # "write", queue' = Tail(queue),
         UNCHANGED <<ringVars, slots, host>>
  PROVE  RingOK' /\ QueueOK' /\ SlotsOK'
<1> USE DEF ringVars
<1>1. RingOK'  BY DEF RingOK
<1>2. IsList(queue) /\ IsList(queue')  BY Behind DEF QueueOK
<1>3. /\ Len(queue) \in Nat /\ Len(queue) >= 1 /\ DOMAIN queue = 1 .. Len(queue)
      /\ DOMAIN queue' = 1 .. Len(queue) - 1
      /\ \A k \in DOMAIN queue' : k + 1 \in DOMAIN queue /\ queue'[k] = queue[k + 1]
  BY <1>2, Behind, ListShape
<1>4. QueueOK'  BY <1>2, <1>3 DEF QueueOK, Covers
<1>5. ~\E s : Covers(queue[1], s)  BY <1>2, Behind DEF Covers
<1>6. SlotsOK'
  <2> SUFFICES ASSUME NEW k \in DOMAIN queue', queue'[k].cmd = "segment"
               PROVE  /\ \A j \in DOMAIN queue' : Covers(queue'[j], queue'[k].slot) => j < k
                      /\ \/ \E j \in DOMAIN queue' : Covers(queue'[j], queue'[k].slot)
                         \/ slots'[queue'[k].slot] = queue'[k].image
    BY DEF SlotsOK, Covers
  <2>1. queue[k + 1].cmd = "segment" /\ k + 1 \in DOMAIN queue /\ queue'[k] = queue[k + 1]
    BY <1>3
  <2>2. \A j \in DOMAIN queue' : Covers(queue'[j], queue'[k].slot) => j < k
    BY <1>3, <2>1 DEF SlotsOK
  <2>3. ASSUME NEW j \in DOMAIN queue, Covers(queue[j], queue[k + 1].slot)
        PROVE  \E i \in DOMAIN queue' : Covers(queue'[i], queue'[k].slot)
    <3>1. j - 1 \in DOMAIN queue' /\ queue'[j - 1] = queue[j]  BY <1>3, <1>5, <2>3
    <3> QED BY <3>1, <2>1, <2>3
  <2> QED BY <2>1, <2>2, <2>3 DEF SlotsOK
<1> QED BY <1>1, <1>4, <1>6

\* A write that is worked off brings its slots up to date.
LEMMA Transferred ==
  ASSUME RingOK, QueueOK, SlotsOK, TransferSlots
  PROVE  RingOK' /\ QueueOK' /\ SlotsOK'
<1> USE DEF TransferSlots, Executes, hostVars, ringVars
<1>1. RingOK'  BY DEF RingOK
<1>2. IsList(queue) /\ IsList(queue')  BY Behind DEF QueueOK
<1>3. /\ Len(queue) \in Nat /\ Len(queue) >= 1 /\ DOMAIN queue = 1 .. Len(queue)
      /\ DOMAIN queue' = 1 .. Len(queue) - 1 /\ Head(queue) = queue[1]
      /\ \A k \in DOMAIN queue' : k + 1 \in DOMAIN queue /\ queue'[k] = queue[k + 1]
  BY <1>2, Behind, ListShape
<1>4. QueueOK'  BY <1>2, <1>3 DEF QueueOK, Covers
<1>5. \A s \in SlotIds : slots'[s] = IF Covers(queue[1], s) THEN staging[s] ELSE slots[s]
  BY <1>3 DEF Covers
<1>6. SlotsOK'
  <2> SUFFICES ASSUME NEW k \in DOMAIN queue', queue'[k].cmd = "segment"
               PROVE  /\ \A j \in DOMAIN queue' : Covers(queue'[j], queue'[k].slot) => j < k
                      /\ \/ \E j \in DOMAIN queue' : Covers(queue'[j], queue'[k].slot)
                         \/ slots'[queue'[k].slot] = queue'[k].image
    BY DEF SlotsOK, Covers
  <2> DEFINE s == queue[k + 1].slot
  <2>1. queue[k + 1].cmd = "segment" /\ k + 1 \in DOMAIN queue /\ queue'[k] = queue[k + 1]
    BY <1>3
  <2>2. \A j \in DOMAIN queue' : Covers(queue'[j], queue'[k].slot) => j < k
    BY <1>3, <2>1 DEF SlotsOK
  <2>3. s \in SlotIds /\ queue[k + 1].image = staging[s]
    <3>1. s \in 0 .. ring - 1 /\ queue[k + 1].image = staging[s]  BY <2>1 DEF QueueOK
    <3>2. ring \in Nat /\ ring <= Slots  BY SlotsPositive DEF RingOK
    <3> QED BY <3>1, <3>2, SlotsPositive DEF SlotIds
  <2>4. CASE Covers(queue[1], s)
    BY <2>1, <2>2, <2>3, <2>4, <1>5
  <2>5. ASSUME ~Covers(queue[1], s), NEW j \in DOMAIN queue, Covers(queue[j], s)
        PROVE  \E i \in DOMAIN queue' : Covers(queue'[i], queue'[k].slot)
    <3>1. j - 1 \in DOMAIN queue' /\ queue'[j - 1] = queue[j]  BY <1>3, <2>5
    <3> QED BY <3>1, <2>1, <2>5
  <2>6. CASE ~Covers(queue[1], s)
    BY <1>5, <2>1, <2>2, <2>3, <2>5, <2>6 DEF SlotsOK
  <2> QED BY <2>4, <2>6
<1> QED BY <1>1, <1>4, <1>6
------------------------------------------------------------------------------
(* A flush *)

LEMMA ListIs ==
  ASSUME NEW n \in Nat, NEW S, NEW q \in [1 .. n -> S]
  PROVE  IsList(q) /\ Len(q) = n
<1>1. q \in Seq(S)  BY SeqDef
<1>2. Len(q) \in Nat /\ DOMAIN q = 1 .. Len(q)  BY <1>1, LenProperties
<1>3. Len(q) = n  BY <1>2
<1> QED BY <1>1, <1>3, ListOf

LEMMA OneCommand ==
  ASSUME NEW c PROVE IsList(<<c>>) /\ Len(<<c>>) = 1 /\ <<c>>[1] = c
<1>1. <<c>> \in Seq({c})  OBVIOUS
<1> QED BY <1>1, ListOf

\* Every tile of a segment belongs to an instruction: there are finitely many.
LEMMA MatmulShape ==
  ASSUME IsFiniteSet(DOMAIN job.prog)
  PROVE  IsList(MatmulCommands) /\ \A k \in 1 .. Len(MatmulCommands) : MatmulCommands[k].cmd = "matmul"
<1> DEFINE n == Cardinality(Tasks)
           C == {MatmulCommands[k] : k \in 1 .. n}
<1>1. n \in Nat  BY FS_Subset, FS_CardinalityType DEF Tasks
<1>2. MatmulCommands \in [1 .. n -> C]  BY DEF MatmulCommands
<1>3. IsList(MatmulCommands) /\ Len(MatmulCommands) = n  BY <1>1, <1>2, ListIs
<1> QED BY <1>3 DEF MatmulCommands, Matmul

\* A group: the write of the staged slots, then a segment of each.
LEMMA GroupShape ==
  ASSUME RingOK
  PROVE  /\ IsList(GroupCommands)
         /\ Len(GroupCommands) = IF staged = 0 THEN 0 ELSE staged + 1
         /\ \A k \in 1 .. Len(GroupCommands) :
              GroupCommands[k] = IF k = 1 THEN Write(ring, staged) ELSE Segment(ring + k - 2)
<1>0. staged \in Nat /\ ring \in Nat  BY DEF RingOK
<1>1. CASE staged = 0
  <2>1. IsList(<<>>) /\ Len(<<>>) = 0
    <3>1. <<>> \in Seq({}) /\ Len(<<>>) = 0  OBVIOUS
    <3> QED BY <3>1, ListOf
  <2>2. GroupCommands = <<>>  BY <1>1 DEF GroupCommands
  <2> QED BY <1>1, <2>1, <2>2
<1>2. CASE staged # 0
  <2> DEFINE segments == [i \in 1 .. staged |-> Segment(ring + i - 1)]
             C == {segments[i] : i \in 1 .. staged}
             first == <<Write(ring, staged)>>
  <2>1. segments \in [1 .. staged -> C]  OBVIOUS
  <2>2. IsList(segments) /\ Len(segments) = staged  BY <1>0, <2>1, ListIs
  <2>3. IsList(first) /\ Len(first) = 1 /\ first[1] = Write(ring, staged)  BY OneCommand
  <2>4. GroupCommands = first \o segments  BY <1>2 DEF GroupCommands
  <2>5. \A i \in 1 .. staged : segments[i] = Segment(ring + i - 1)  OBVIOUS
  <2> HIDE DEF segments, first, C
  <2>6. /\ IsList(GroupCommands) /\ Len(GroupCommands) = 1 + staged
        /\ \A k \in 1 .. 1 + staged :
             GroupCommands[k] = IF k <= 1 THEN first[k] ELSE segments[k - 1]
    <3>1. /\ IsList(first \o segments)
          /\ Len(first \o segments) = Len(first) + Len(segments)
          /\ \A k \in 1 .. Len(first) + Len(segments) :
               (first \o segments)[k] = IF k <= Len(first) THEN first[k] ELSE segments[k - Len(first)]
      BY <2>2, <2>3, ListsJoined
    <3> QED BY <2>2, <2>3, <2>4, <3>1
  <2>7. ASSUME NEW k \in 1 .. 1 + staged
        PROVE  GroupCommands[k] = IF k = 1 THEN Write(ring, staged) ELSE Segment(ring + k - 2)
    <3>1. CASE k = 1  BY <1>0, <2>3, <2>6, <3>1
    <3>2. CASE k # 1
      <4>1. k - 1 \in 1 .. staged /\ ring + (k - 1) - 1 = ring + k - 2  BY <1>0, <3>2
      <4> QED BY <1>0, <2>5, <2>6, <3>2, <4>1
    <3> QED BY <3>1, <3>2
  <2> QED BY <1>0, <1>2, <2>6, <2>7
<1> QED BY <1>1, <1>2

\* What is flushed goes to slots that nothing in the queue is about.
LEMMA GroupFlushed ==
  ASSUME RingOK, QueueOK, SlotsOK, NEW further, IsList(further),
         \A k \in 1 .. Len(further) : further[k].cmd = "matmul",
         queue' = queue \o (GroupCommands \o further), ring' = ring + staged, staged' = 0,
         UNCHANGED <<staging, slots>>
  PROVE  RingOK' /\ QueueOK' /\ SlotsOK'
<1> DEFINE n == Len(queue)  g == Len(GroupCommands)  f == Len(further)
<1>0. ring \in Nat /\ staged \in Nat /\ ring + staged <= Slots /\ Slots \in Nat
  BY SlotsPositive DEF RingOK
<1>1. RingOK'  BY <1>0 DEF RingOK
<1>2. n \in Nat /\ g \in Nat /\ f \in Nat /\ g = (IF staged = 0 THEN 0 ELSE staged + 1)
      /\ DOMAIN queue = 1 .. n
  BY GroupShape, ListShape DEF QueueOK
<1>3. IsList(queue) /\ IsList(GroupCommands)  BY GroupShape DEF QueueOK
<1>4. /\ IsList(GroupCommands \o further) /\ Len(GroupCommands \o further) = g + f
      /\ \A k \in 1 .. g + f :
           (GroupCommands \o further)[k] = IF k <= g THEN GroupCommands[k] ELSE further[k - g]
  BY <1>3, ListsJoined
<1>5. /\ IsList(queue') /\ Len(queue') = n + (g + f)
      /\ \A k \in 1 .. n + (g + f) :
           queue'[k] = IF k <= n THEN queue[k] ELSE (GroupCommands \o further)[k - n]
  BY <1>3, <1>4, ListsJoined
<1>6. DOMAIN queue' = 1 .. n + g + f  BY <1>2, <1>5, ListShape
<1>7. \A k \in 1 .. n : queue'[k] = queue[k]  BY <1>2, <1>5
<1>8. ASSUME NEW k \in n + 1 .. n + g
      PROVE  staged > 0 /\ queue'[k] = IF k = n + 1 THEN Write(ring, staged)
                                       ELSE Segment(ring + (k - n) - 2)
  <2>1. k - n \in 1 .. g /\ k \in 1 .. n + (g + f) /\ k > n /\ staged > 0  BY <1>0, <1>2
  <2>2. queue'[k] = GroupCommands[k - n]  BY <1>2, <1>4, <1>5, <2>1
  <2> QED BY <1>2, <2>1, <2>2, GroupShape
<1>9. ASSUME NEW k \in n + g + 1 .. n + g + f PROVE queue'[k].cmd = "matmul"
  <2>1. /\ k - n \in 1 .. g + f /\ k \in 1 .. n + (g + f) /\ (k - n) - g \in 1 .. f
        /\ ~(k <= n) /\ ~(k - n <= g)
    <3>1. n \in Nat /\ g \in Nat /\ f \in Nat  BY <1>2
    <3> HIDE DEF n, g, f
    <3> QED BY <3>1
  <2>2. queue'[k] = (GroupCommands \o further)[k - n]  BY <1>5, <2>1, Zenon
  <2>3. (GroupCommands \o further)[k - n] = further[(k - n) - g]  BY <1>4, <2>1, Zenon
  <2> QED BY <1>0, <2>1, <2>2, <2>3
\* The new write covers the staged slots, the old commands only earlier ones.
<1>10. g > 0 => /\ queue'[n + 1].cmd = "write"
                /\ \A s : Covers(queue'[n + 1], s) <=> s \in ring .. ring + staged - 1
                /\ \A s \in ring .. ring + staged - 1 : queue'[n + 1].image[s] = staging[s]
  <2>1. CASE g > 0
    <3>1. n + 1 \in n + 1 .. n + g  BY <1>2, <2>1
    <3>2. queue'[n + 1] = Write(ring, staged)  BY <1>8, <3>1
    <3> QED BY <3>2 DEF Write, Covers
  <2> QED BY <2>1, <1>2
<1>11. ASSUME NEW k \in n + 2 .. n + g
       PROVE  /\ queue'[k].cmd = "segment" /\ queue'[k].slot \in ring .. ring + staged - 1
              /\ queue'[k].image = staging[queue'[k].slot]
  <2>1. k \in n + 1 .. n + g /\ k # n + 1 /\ ring + (k - n) - 2 \in ring .. ring + staged - 1
    BY <1>0, <1>2
  <2>2. queue'[k] = Segment(ring + (k - n) - 2)  BY <1>8, <2>1
  <2> QED BY <2>1, <2>2 DEF Segment
<1>12. ASSUME NEW k \in DOMAIN queue'
       PROVE  \/ k \in 1 .. n
              \/ k = n + 1 /\ g > 0
              \/ k \in n + 2 .. n + g
              \/ k \in n + g + 1 .. n + g + f
  BY <1>2, <1>6
<1> HIDE DEF n, g, f
\* What an old command is about lies below the ring.
<1>13. ASSUME NEW k \in 1 .. n
       PROVE  /\ \A s : Covers(queue'[k], s) => s \in 0 .. ring - 1 /\ queue'[k].image[s] = staging[s]
              /\ queue'[k].cmd = "segment" =>
                   queue'[k].slot \in 0 .. ring - 1 /\ queue'[k].image = staging[queue'[k].slot]
  <2>1. k \in DOMAIN queue /\ queue'[k] = queue[k]  BY <1>2, <1>7
  <2> QED BY <2>1 DEF QueueOK, Covers
<1>14. \A s \in 0 .. ring - 1 : s \in 0 .. (ring + staged) - 1 /\ s \notin ring .. ring + staged - 1
  BY <1>0
<1>15. \A s \in ring .. ring + staged - 1 : s \in 0 .. (ring + staged) - 1  BY <1>0
<1>16. QueueOK'
  <2> SUFFICES ASSUME NEW k \in DOMAIN queue'
      PROVE  /\ \A s : Covers(queue'[k], s) => s \in 0 .. ring' - 1 /\ queue'[k].image[s] = staging'[s]
             /\ queue'[k].cmd = "segment" =>
                  queue'[k].slot \in 0 .. ring' - 1 /\ queue'[k].image = staging'[queue'[k].slot]
    BY <1>5 DEF QueueOK, Covers
  <2>1. CASE k \in 1 .. n  BY <2>1, <1>13, <1>14
  <2>2. CASE k = n + 1 /\ g > 0  BY <2>2, <1>10, <1>15 DEF Covers
  <2>3. CASE k \in n + 2 .. n + g  BY <2>3, <1>11, <1>15 DEF Covers
  <2>4. CASE k \in n + g + 1 .. n + g + f  BY <2>4, <1>9 DEF Covers
  <2> QED BY <1>12, <2>1, <2>2, <2>3, <2>4
<1>17. SlotsOK'
  <2> SUFFICES ASSUME NEW k \in DOMAIN queue', queue'[k].cmd = "segment"
               PROVE  /\ \A j \in DOMAIN queue' : Covers(queue'[j], queue'[k].slot) => j < k
                      /\ \/ \E j \in DOMAIN queue' : Covers(queue'[j], queue'[k].slot)
                         \/ slots'[queue'[k].slot] = queue'[k].image
    BY DEF SlotsOK, Covers
  <2> DEFINE s == queue'[k].slot
  <2>1. CASE k \in 1 .. n
    <3>1. s \in 0 .. ring - 1 /\ s = queue[k].slot /\ queue[k].cmd = "segment" /\ k \in DOMAIN queue
      BY <2>1, <1>13, <1>7, <1>2
    <3>2. ASSUME NEW j \in DOMAIN queue', Covers(queue'[j], s) PROVE j \in 1 .. n
      <4>1. ~(j = n + 1 /\ g > 0)  BY <3>1, <3>2, <1>10, <1>14
      <4>2. j \notin n + 2 .. n + g  BY <3>2, <1>11 DEF Covers
      <4>3. j \notin n + g + 1 .. n + g + f  BY <3>2, <1>9 DEF Covers
      <4> QED BY <1>12, <4>1, <4>2, <4>3
    <3>3. \A j \in 1 .. n : j \in DOMAIN queue /\ j \in DOMAIN queue'  BY <1>2, <1>6
    <3>4. \A j \in DOMAIN queue' : Covers(queue'[j], s) => j < k
      BY <3>1, <3>2, <3>3, <1>7 DEF SlotsOK
    <3>5. CASE \E j \in DOMAIN queue : Covers(queue[j], queue[k].slot)
      BY <3>1, <3>3, <3>4, <3>5, <1>2, <1>7
    <3>6. CASE ~\E j \in DOMAIN queue : Covers(queue[j], queue[k].slot)
      BY <2>1, <3>1, <3>4, <3>6, <1>7 DEF SlotsOK
    <3> QED BY <3>5, <3>6
  <2>2. CASE k \in n + 2 .. n + g
    <3>0. g > 0 /\ n + 1 \in 1 .. n + g + f /\ n + 1 < k
      <4>1. n \in Nat /\ g \in Nat /\ f \in Nat  BY <1>2
      <4> QED BY <2>2, <4>1
    <3>1. s \in ring .. ring + staged - 1 /\ g > 0 /\ n + 1 \in DOMAIN queue' /\ n + 1 < k
      BY <2>2, <3>0, <1>11, <1>6
    <3>2. Covers(queue'[n + 1], s)  BY <3>1, <1>10
    <3>3. ASSUME NEW j \in DOMAIN queue', Covers(queue'[j], s) PROVE j < k
      <4>1. j \notin 1 .. n  BY <3>1, <3>3, <1>13, <1>14
      <4>2. j \notin n + 2 .. n + g  BY <3>3, <1>11 DEF Covers
      <4>3. j \notin n + g + 1 .. n + g + f  BY <3>3, <1>9 DEF Covers
      <4> QED BY <1>12, <3>1, <4>1, <4>2, <4>3
    <3> QED BY <3>1, <3>2, <3>3
  <2>3. k # n + 1 \/ g = 0  BY <1>2, <1>10
  <2>4. k \notin n + g + 1 .. n + g + f  BY <1>9
  <2>5. g = 0 \/ g > 0  BY <1>2
  <2>6. k \in 1 .. n \/ k \in n + 2 .. n + g  BY <1>12, <2>3, <2>4, <2>5
  <2> QED BY <2>1, <2>2, <2>6
<1> QED BY <1>1, <1>16, <1>17
------------------------------------------------------------------------------
(* The inductive invariant *)

LEMMA InitInv == ASSUME Init PROVE RingInv
<1>1. IsFiniteSet(DOMAIN job.prog)
  <2>1. PICK j \in Jobs : job = Loaded(j)  BY DEF Init
  <2>2. job.prog = j.prog /\ WellFormed(j)  BY <2>1, JobsFormed DEF Loaded
  <2>3. Len(job.prog) \in Nat /\ DOMAIN job.prog = 1 .. Len(job.prog)  BY <2>2 DEF WellFormed
  <2> QED BY <2>3, FS_Interval
<1>2. RingOK
  <2>1. staging = [s \in SlotIds |-> NoSlot] /\ ring = 0 /\ staged = 0 /\ host = "walk"  BY DEF Init
  <2>2. DOMAIN staging = SlotIds /\ staging = [s \in SlotIds |-> staging[s]]  BY <2>1
  <2> QED BY <2>1, <2>2, SlotsPositive DEF RingOK
<1>3. IsList(queue) /\ DOMAIN queue = {}
  <2>1. queue \in Seq({}) /\ Len(queue) = 0  BY DEF Init
  <2>2. IsList(queue)  BY <2>1, ListOf
  <2>3. 1 .. 0 = {}  OBVIOUS
  <2> QED BY <2>1, <2>2, <2>3, ListShape
<1> QED BY <1>1, <1>2, <1>3 DEF RingInv, QueueOK, SlotsOK

\* A flush either comes off or takes the host out.
LEMMA FlushStep ==
  ASSUME RingInv, UniformWalk, NEW further, IsList(further),
         \A k \in 1 .. Len(further) : further[k].cmd = "matmul",
         NEW next, Flush(further, next)
  PROVE  UniformWalk' => RingOK' /\ QueueOK' /\ SlotsOK'
<1>1. CASE Fails(GroupCommands \o further)  BY <1>1 DEF Fails, UniformWalk
<1>2. CASE ~Fails(GroupCommands \o further)
  <2>1. /\ queue' = queue \o (GroupCommands \o further)
        /\ ring' = ring + staged /\ staged' = 0 /\ UNCHANGED <<staging, slots>>
    BY <1>2 DEF Flush
  <2> QED BY <2>1, GroupFlushed DEF RingInv
<1> QED BY <1>1, <1>2

LEMMA NoFurther == IsList(<<>>) /\ \A k \in 1 .. Len(<<>>) : <<>>[k].cmd = "matmul"
<1>1. <<>> \in Seq({}) /\ Len(<<>>) = 0  OBVIOUS
<1>2. IsList(<<>>)  BY <1>1, ListOf
<1>3. 1 .. 0 = {}  OBVIOUS
<1> QED BY <1>1, <1>2, <1>3

LEMMA HostInv ==
  ASSUME RingInv, UniformWalk, HostStep
  PROVE  UniformWalk' => RingOK' /\ QueueOK' /\ SlotsOK'
<1> USE DEF KeepsWalk, Continue, InPhase, deviceVars
<1>0. RingOK /\ QueueOK /\ SlotsOK  BY DEF RingInv
<1>1. ASSUME NEW l \in LaneIds, Advance(l) PROVE UniformWalk' => RingOK' /\ QueueOK' /\ SlotsOK'
  <2>1. CASE EndAdvance(l)
    BY <1>0, <2>1, Elsewhere DEF EndAdvance, UniformWalk, ringVars
  <2>2. CASE CollectTile(l) \/ EnterLoop(l) \/ LeaveBranch(l)
    <3>1. UNCHANGED <<ringVars, slots, queue, host>>
      BY <2>2 DEF CollectTile, EnterLoop, LeaveBranch, Goes
    <3> QED BY <1>0, <3>1, Elsewhere DEF RingOK
  <2> QED BY <1>1, <2>1, <2>2 DEF Advance
<1>2. CASE Route
  <2>1. IsList(MatmulCommands) /\ \A k \in 1 .. Len(MatmulCommands) : MatmulCommands[k].cmd = "matmul"
    BY MatmulShape DEF RingInv
  <2> QED BY <1>2, <2>1, FlushStep DEF Route
<1>3. CASE StageSlot  BY <1>0, <1>3, Staging
<1>4. CASE WrapRing  BY <1>4, NoFurther, FlushStep DEF WrapRing
<1>5. CASE Wrapped
  BY <1>0, <1>5, Restarted DEF Wrapped, RingOK
<1>6. CASE EmptyPhase  BY <1>0, <1>6, Elsewhere DEF EmptyPhase
<1>7. CASE PassBarrier  BY <1>0, <1>7, Elsewhere DEF PassBarrier
<1>8. CASE EndIteration  BY <1>0, <1>8, Elsewhere DEF EndIteration
<1>9. CASE RecheckCond  BY <1>0, <1>9, Elsewhere DEF RecheckCond
<1>10. CASE FlushAndWait  BY <1>10, NoFurther, FlushStep DEF FlushAndWait
<1>11. CASE TestCond  BY <1>0, <1>11, Restarted DEF TestCond, RingOK
<1>12. CASE TestBranch  BY <1>0, <1>12, Restarted DEF TestBranch, RingOK
<1>13. CASE Return  BY <1>0, <1>13, Restarted DEF Return, RingOK
<1> QED BY <1>1, <1>2, <1>3, <1>4, <1>5, <1>6, <1>7, <1>8, <1>9, <1>10, <1>11, <1>12, <1>13 DEF HostStep

LEMMA DeviceInv ==
  ASSUME RingInv, UniformWalk, DeviceStep
  PROVE  RingOK' /\ QueueOK' /\ SlotsOK'
<1>0. RingOK /\ QueueOK /\ SlotsOK  BY DEF RingInv
<1>1. CASE TransferSlots  BY <1>0, <1>1, Transferred
<1>2. ASSUME NEW l \in LaneIds, RunSegmentTile(l) PROVE RingOK' /\ QueueOK' /\ SlotsOK'
  <2>1. UNCHANGED <<ringVars, slots, queue, host>>  BY <1>2 DEF RunSegmentTile, hostVars
  <2> QED BY <1>0, <2>1, Elsewhere DEF RingOK
<1>3. CASE EndSegment
  <2>1. queue # <<>> /\ Head(queue).cmd # "write" /\ queue' = Tail(queue)
        /\ UNCHANGED <<ringVars, slots, host>>
    BY <1>3 DEF EndSegment, Executes, hostVars
  <2> QED BY <1>0, <2>1, Worked
<1>4. CASE RunMatmul
  <2>1. queue # <<>> /\ Head(queue).cmd # "write" /\ queue' = Tail(queue)
        /\ UNCHANGED <<ringVars, slots, host>>
    BY <1>4 DEF RunMatmul, Executes, hostVars
  <2> QED BY <1>0, <2>1, Worked
<1> QED BY <1>1, <1>2, <1>3, <1>4 DEF DeviceStep

LEMMA SameJob == ASSUME [Next]_vars PROVE job' = job
  BY DEF Next, HostStep, Advance, CollectTile, EnterLoop, LeaveBranch, EndAdvance, Goes, Advancing,
         Route, StageSlot, WrapRing, Wrapped, EmptyPhase, PassBarrier,
         EndIteration, RecheckCond, FlushAndWait, TestCond, TestBranch, Return, KeepsWalk, Continue,
         DeviceStep, TransferSlots, RunSegmentTile, EndSegment, RunMatmul, hostVars, Terminated, vars

\* An error is where the host returns: nothing follows but the device's work.
LEMMA StaysReturned == ASSUME [Next]_vars, host = "error" PROVE host' = "error"
  BY DEF Next, HostStep, Advance, CollectTile, EnterLoop, LeaveBranch, EndAdvance, Goes, Advancing,
         Route, StageSlot, WrapRing, Wrapped, EmptyPhase, PassBarrier,
         EndIteration, RecheckCond, FlushAndWait, TestCond, TestBranch, Return, KeepsWalk, Continue,
         InPhase, DeviceStep, TransferSlots, RunSegmentTile, EndSegment, RunMatmul, hostVars, Terminated, vars

LEMMA NextInv == ASSUME RingInv, [Next]_vars PROVE RingInv'
<1>1. job' = job  BY SameJob
<1>2. ASSUME UniformWalk' PROVE RingOK' /\ QueueOK' /\ SlotsOK'
  <2>1. UniformWalk  BY <1>2, StaysReturned DEF UniformWalk
  <2>2. CASE HostStep  BY <1>2, <2>1, <2>2, HostInv
  <2>3. CASE DeviceStep  BY <2>1, <2>3, DeviceInv
  <2>4. CASE UNCHANGED vars
    BY <2>1, <2>4, Elsewhere DEF RingInv, RingOK, vars, deviceVars
  <2> QED BY <2>2, <2>3, <2>4 DEF Next, Terminated
<1> QED BY <1>1, <1>2 DEF RingInv

THEOREM RingInductive == Spec => []RingInv
  BY InitInv, NextInv, PTL DEF Spec

\* Until the host returns an error, the memory an enqueued write still has to
\* read is what it was enqueued with: no slot of the staging array is reused
\* before the device has drained (LaunchHostDispatch's ring).
THEOREM StagingIsHeld == Spec => [](UniformWalk => StagingHeld)
<1>1. ASSUME RingInv, UniformWalk PROVE StagingHeld
  BY <1>1 DEF RingInv, QueueOK, StagingHeld, Covers
<1> QED BY <1>1, RingInductive, PTL

\* Until then every kernel of a group finds its own segment in its slot,
\* whatever the host has staged and flushed since it enqueued the kernel.
THEOREM SlotsAreCurrent == Spec => [](UniformWalk => SlotsCurrent)
<1>1. ASSUME RingInv, UniformWalk, Executes("segment")
      PROVE  slots[Head(queue).slot] = Head(queue).image
  <2>1. IsList(queue) /\ queue # <<>> /\ Head(queue).cmd = "segment"
    BY <1>1 DEF RingInv, QueueOK, Executes
  <2>2. Head(queue) = queue[1] /\ 1 \in DOMAIN queue /\ DOMAIN queue \subseteq Nat \ {0}
    BY <2>1, Behind, ListShape
  <2>3. ~\E j \in DOMAIN queue : Covers(queue[j], queue[1].slot)
    BY <1>1, <2>1, <2>2 DEF RingInv, SlotsOK
  <2> QED BY <1>1, <2>1, <2>2, <2>3 DEF RingInv, SlotsOK
<1>2. RingInv => (UniformWalk => SlotsCurrent)  BY <1>1 DEF SlotsCurrent
<1> QED BY <1>2, RingInductive, PTL
------------------------------------------------------------------------------
(* A lane of the host's walk *)

\* What lane l's walk stops for is what its trail stops for.
LEMMA StopsFor ==
  ASSUME NEW w, IsChart(w), job.streams = w.streams, NEW l \in LaneIds, NEW A \in Trails(w),
         Fits(w, l, frames[l], A)
  PROVE  Stop(l) = Halts(w, A)
<1> DEFINE s == frames[l]
<1>1. /\ Finds(w, l, s, A)
      /\ AtRoot(s) <=> Depth(A) = 1
      /\ Depth(A) # 1 => Directs(w, l, Around(A), w.streams[l][Last(s).widx])
  BY Sight
<1>2. /\ s \in Seq(Frames) /\ Len(s) = Depth(A) /\ Last(s).phase = Inner(A).ph
  BY FitsTop DEF Framing
<1>3. Entry(l) = w.streams[l][Last(s).pc] /\ Owner(l) = w.streams[l][Last(s).widx]
  BY DEF Entry, Owner
<1> HIDE DEF s
<1>4. ASSUME AtTiles(w, A) PROVE Stop(l) = Halts(w, A)
  <2>1. ~AtEnd(s) /\ Entry(l).kind = "tile"  BY <1>1, <1>3, <1>4 DEF Finds, AtTiles, AtClose
  <2>2. Stop(l) = "on"  BY <2>1 DEF Stop, Loops, s
  <2> QED BY <1>4, <2>2 DEF Halts
<1>5. ASSUME ~AtTiles(w, A), AtRegion(w, A) PROVE Stop(l) = Halts(w, A)
  <2>1. ~AtEnd(s) /\ Directs(w, l, Inner(A), Entry(l))  BY <1>1, <1>3, <1>5 DEF Finds, AtRegion, AtClose
  <2>2. /\ Entry(l).kind = RegionOf(w, Inner(A)).op /\ Entry(l).trips = RegionOf(w, Inner(A)).trips
        /\ RegionOf(w, Inner(A)).op \in {"while", "for", "if"}
    <3>1. Inner(A) \in Places(w) /\ Inner(A).m \in 1 .. Count(w, Inner(A).g) /\ Steering(w, Inner(A).g, Inner(A).m)
      BY <1>5, TrailFacts DEF AtRegion
    <3> QED BY <2>1, <3>1, RegionKinds DEF Directs
  <2>3. Loops(Entry(l)) <=> Enters(w, A)  BY <2>2 DEF Loops, Enters
  <2>4. Halts(w, A) = IF RegionOf(w, Inner(A)).op = "if" THEN "if"
                      ELSE IF Enters(w, A) /\ Depth(A) >= MaxDepth THEN "done" ELSE "on"
    BY <1>5 DEF Halts
  <2>5. Stop(l) = IF Entry(l).kind \in {"barrier", "if"} THEN Entry(l).kind
                  ELSE IF Loops(Entry(l)) /\ Len(s) >= MaxDepth THEN "done" ELSE "on"
    BY <2>1 DEF Stop, s
  <2> QED BY <1>2, <2>2, <2>3, <2>4, <2>5
<1>6. ASSUME ~AtTiles(w, A), ~AtRegion(w, A), ~AtClose(w, A) PROVE Stop(l) = Halts(w, A)
  <2>1. A.past /\ A.past \in BOOLEAN  BY <1>6, TrailFacts DEF AtTiles, AtRegion
  <2>2. ~AtEnd(s) /\ Entry(l) = Barrier  BY <1>1, <1>3, <1>6, <2>1 DEF Finds
  <2>3. Entry(l).kind = "barrier"  BY <2>2 DEF Barrier
  <2>4. Stop(l) = "barrier"  BY <2>2, <2>3 DEF Stop, s
  <2> QED BY <1>6, <2>4 DEF Halts
<1>7. ASSUME ~AtTiles(w, A), ~AtRegion(w, A), AtClose(w, A) PROVE Stop(l) = Halts(w, A)
  <2>1. AtEnd(s)  BY <1>1, <1>7 DEF Finds
  <2>2. CASE Depth(A) = 1
    <3>1. Stop(l) = "done"  BY <1>1, <2>1, <2>2 DEF Stop, s
    <3> QED BY <1>7, <2>2, <3>1 DEF Halts
  <2>3. CASE Depth(A) # 1
    <3>1. Owner(l).kind = RegionOf(w, Around(A)).op  BY <1>1, <1>3, <2>3 DEF Directs
    <3>2. Stop(l) = IF Owner(l).kind # "while" THEN IF Owner(l).kind = "if" THEN "on" ELSE "for"
                    ELSE IF Last(s).phase = 0 THEN "cond" ELSE "body"
      BY <1>1, <2>1, <2>3 DEF Stop, s
    <3>3. Halts(w, A) = Shuts(w, A)  BY <1>7, <2>3 DEF Halts
    <3> QED BY <1>2, <3>1, <3>2, <3>3 DEF Shuts
  <2> QED BY <2>2, <2>3
<1> QED BY <1>4, <1>5, <1>6, <1>7

\* A step of a lane on its own.
LEMMA LaneGoesOn ==
  ASSUME NEW w, IsChart(w), job.streams = w.streams, NEW o \in Trails(w), NEW l \in LaneIds,
         Walks(w, o, l, frames[l]), NEW s,
         \/ /\ Stop(l) = "on" /\ ~AtEnd(frames[l]) /\ Entry(l).kind = "tile" /\ s = Step(frames[l])
         \/ /\ Stop(l) = "on" /\ ~AtEnd(frames[l])
            /\ \/ Entry(l).kind = "while" /\ s = Pushed(frames[l], Entry(l).x, 0)
               \/ Entry(l).kind = "for" /\ s = (IF Entry(l).trips = 0 THEN Step(frames[l])
                                                ELSE Pushed(frames[l], Entry(l).y, Entry(l).trips))
         \/ Stop(l) = "on" /\ AtEnd(frames[l]) /\ s = Popped(frames[l])
  PROVE  Walks(w, o, l, s)
<1> DEFINE f == frames[l]
<1>1. PICK A \in Course(w, o) : Fits(w, l, f, A)  BY DEF Walks
<1>2. A \in Trails(w)  BY FollowOn
<1>3. Halts(w, A) = "on" /\ Goal(w, A) \in Course(w, o)  BY <1>1, <1>2, StopsFor, FollowOn
<1>4. /\ Finds(w, l, f, A) /\ A.past \in BOOLEAN
      /\ AtRoot(f) <=> Depth(A) = 1
  BY <1>1, <1>2, Sight, TrailFacts
<1>5. Entry(l) = w.streams[l][Last(f).pc]  BY DEF Entry
<1> HIDE DEF f
<1>6. CASE AtTiles(w, A)
  <2>1. ~AtEnd(f) /\ Entry(l).kind = "tile"  BY <1>4, <1>5, <1>6 DEF Finds, AtTiles, AtClose
  <2>2. s = Step(f)  BY <2>1 DEF f
  <2>3. Lands(w, l, s, A)  BY <1>1, <1>2, <1>6, <2>2, StepTile
  <2> QED BY <2>3, LandsWalks
<1>7. CASE AtRegion(w, A)
  <2> DEFINE q == Inner(A)
  <2>1. q \in Places(w) /\ q.m \in 1 .. Count(w, q.g) /\ Steering(w, q.g, q.m)
    BY <1>2, <1>7, TrailFacts DEF AtRegion
  <2>2. /\ RegionOf(w, q).op \in {"while", "for", "if"} /\ RegionOf(w, q).trips \in Nat
        /\ Sub(w, q, "x") \in Inside(w, q) /\ Sub(w, q, "y") \in Inside(w, q)
    BY <2>1, RegionKinds
  <2>3. ~AtEnd(f) /\ Directs(w, l, q, Entry(l))  BY <1>4, <1>5, <1>7 DEF Finds, AtRegion, AtClose
  <2>4. /\ Entry(l).kind = RegionOf(w, q).op /\ Entry(l).trips = RegionOf(w, q).trips
        /\ Entry(l).x = Stretch(w, Sub(w, q, "x"), l) /\ Entry(l).y = Stretch(w, Sub(w, q, "y"), l)
    BY <2>3 DEF Directs, Sub
  <2>5. ~AtTiles(w, A) /\ Goal(w, A) = IF RegionOf(w, q).op = "while" THEN Onto(w, A.at, Sub(w, q, "x"), 0)
                      ELSE IF RegionOf(w, q).trips = 0 THEN Passed(A)
                      ELSE Onto(w, A.at, Sub(w, q, "y"), RegionOf(w, q).trips)
    BY <1>7 DEF Goal, AtTiles, AtRegion
  <2> HIDE DEF q
  <2>6. CASE Entry(l).kind = "while"
    <3>1. s = Pushed(f, Stretch(w, Sub(w, q, "x"), l), 0)  BY <2>3, <2>4, <2>6 DEF f
    <3>2. Lands(w, l, s, Onto(w, A.at, Sub(w, q, "x"), 0))  BY <1>1, <1>2, <1>7, <2>2, <3>1, PushFits DEF q
    <3>3. Goal(w, A) = Onto(w, A.at, Sub(w, q, "x"), 0)  BY <2>4, <2>5, <2>6
    <3> QED BY <1>3, <3>2, <3>3, LandsWalks
  <2>7. CASE Entry(l).kind # "while"
    <3>1. Entry(l).kind = "for"  BY <2>2, <2>3, <2>4, <2>7 DEF f
    <3>2. CASE RegionOf(w, q).trips = 0
      <4>1. s = Step(f)  BY <2>3, <2>4, <3>1, <3>2 DEF f
      <4>2. Fits(w, l, s, Passed(A))  BY <1>1, <1>2, <1>7, <4>1, StepOver
      <4>3. Goal(w, A) = Passed(A)  BY <2>4, <2>5, <2>7, <3>2
      <4> QED BY <1>3, <4>2, <4>3 DEF Walks
    <3>3. CASE RegionOf(w, q).trips # 0
      <4>1. s = Pushed(f, Stretch(w, Sub(w, q, "y"), l), RegionOf(w, q).trips)
        BY <2>3, <2>4, <3>1, <3>3 DEF f
      <4>2. Lands(w, l, s, Onto(w, A.at, Sub(w, q, "y"), RegionOf(w, q).trips))
        BY <1>1, <1>2, <1>7, <2>2, <4>1, PushFits DEF q
      <4>3. Goal(w, A) = Onto(w, A.at, Sub(w, q, "y"), RegionOf(w, q).trips)  BY <2>4, <2>5, <2>7, <3>3
      <4> QED BY <1>3, <4>2, <4>3, LandsWalks
    <3> QED BY <3>2, <3>3
  <2> QED BY <2>6, <2>7
<1>8. CASE ~AtTiles(w, A) /\ ~AtRegion(w, A)
  <2>1. AtClose(w, A) /\ Depth(A) # 1 /\ Goal(w, A) = Left(A)  BY <1>3, <1>8 DEF Halts, Goal
  <2>2. AtEnd(f)  BY <1>4, <2>1 DEF Finds
  <2>3. s = Popped(f)  BY <2>2 DEF f
  <2>4. Fits(w, l, s, Left(A))  BY <1>1, <1>2, <2>1, <2>3, PopFits
  <2> QED BY <1>3, <2>1, <2>4 DEF Walks
<1> QED BY <1>6, <1>7, <1>8

\* Lanes in step: at trails of one walk through the program's streams.
InStep(stacks) ==
  \E w, o : /\ IsChart(w) /\ w.streams = job.streams /\ BranchesFit(w.prog, w.main)
            /\ o \in Trails(w)
            /\ \A l \in LaneIds : Walks(w, o, l, stacks[l])

WalkInv ==
  /\ host # "error" /\ walker \in LaneIds /\ ev # "on" /\ DOMAIN frames = LaneIds
  /\ InStep(frames)
  /\ \A l \in LaneIds : l < walker \/ host # "walk" => Stop(l) = ev

LEMMA WalkStarts ==
  ASSUME \A j \in Jobs : BranchesFit(j.prog, j.main), Init
  PROVE  WalkInv
<1>1. PICK j \in Jobs : job = Loaded(j)  BY DEF Init
<1>2. Listing(j.prog, j.main)  BY JobsFormed, WellFormedListing
<1>3. job.streams = ScheduleProgram(j.prog, j.main).streams /\ job.rootLens = ScheduleProgram(j.prog, j.main).rootLens
  BY <1>1 DEF Loaded
<1>4. PICK Z, pl : StreamsOf(j.prog, j.main, job.streams, job.rootLens, Z, pl)
  BY <1>2, <1>3, ProgramScheduled
<1> DEFINE w == [prog |-> j.prog, main |-> j.main, streams |-> job.streams, rootLens |-> job.rootLens,
                 lists |-> Z, spots |-> pl]
<1>5. IsChart(w) /\ w.streams = job.streams /\ w.rootLens = job.rootLens /\ BranchesFit(w.prog, w.main)
  BY <1>2, <1>4 DEF IsChart
<1> HIDE DEF w
<1>6. RootTrail(w) \in Trails(w) /\ \A l \in LaneIds : Walks(w, RootTrail(w), l, RootWalk(w.rootLens[l]))
  BY <1>5, RootStart
<1>7. \A l \in LaneIds : frames[l] = RootWalk(w.rootLens[l])  BY <1>5 DEF Init
<1>8. InStep(frames)  BY <1>5, <1>6, <1>7 DEF InStep
<1>9. walker \in LaneIds /\ \A l \in LaneIds : ~(l < walker)  BY NLanesPositive DEF Init, LaneIds
<1> QED BY <1>8, <1>9 DEF Init, WalkInv

\* Two lanes that have stopped have stopped for the same.
LEMMA OneStop ==
  ASSUME InStep(frames), NEW l \in LaneIds, Stop(l) # "on", NEW k \in LaneIds, Stop(k) # "on"
  PROVE  Stop(l) = Stop(k)
<1>1. PICK w, o : /\ IsChart(w) /\ w.streams = job.streams /\ o \in Trails(w)
                  /\ \A n \in LaneIds : Walks(w, o, n, frames[n])
  BY DEF InStep
<1>2. PICK A \in Course(w, o) : Fits(w, l, frames[l], A)  BY <1>1 DEF Walks
<1>3. PICK B \in Course(w, o) : Fits(w, k, frames[k], B)  BY <1>1 DEF Walks
<1>4. A \in Trails(w) /\ B \in Trails(w)  BY <1>1, FollowOn
<1>5. Stop(l) = Halts(w, A) /\ Stop(k) = Halts(w, B)  BY <1>1, <1>2, <1>3, <1>4, StopsFor
<1>6. A = B  BY <1>1, <1>5, FollowOn
<1> QED BY <1>5, <1>6

\* All lanes have stopped: at one trail.
LEMMA AllStopped ==
  ASSUME InStep(frames), NEW e, e # "on", \A l \in LaneIds : Stop(l) = e
  PROVE  \E w : \E A \in Trails(w) :
           /\ IsChart(w) /\ w.streams = job.streams /\ BranchesFit(w.prog, w.main) /\ Halts(w, A) = e
           /\ \A l \in LaneIds : Fits(w, l, frames[l], A)
<1>1. PICK w, o : /\ IsChart(w) /\ w.streams = job.streams /\ BranchesFit(w.prog, w.main) /\ o \in Trails(w)
                  /\ \A n \in LaneIds : Walks(w, o, n, frames[n])
  BY DEF InStep
<1>2. 1 \in LaneIds  BY NLanesPositive DEF LaneIds
<1>3. PICK A \in Course(w, o) : Fits(w, 1, frames[1], A)  BY <1>1, <1>2 DEF Walks
<1>4. A \in Trails(w)  BY <1>1, FollowOn
<1>5. Halts(w, A) = e  BY <1>1, <1>2, <1>3, <1>4, StopsFor
<1>6. ASSUME NEW l \in LaneIds PROVE Fits(w, l, frames[l], A)
  <2>1. PICK B \in Course(w, o) : Fits(w, l, frames[l], B)  BY <1>1 DEF Walks
  <2>2. B \in Trails(w)  BY <1>1, FollowOn
  <2>3. Halts(w, B) = e  BY <1>1, <2>1, <2>2, StopsFor
  <2>4. A = B  BY <1>1, <1>5, <2>3, FollowOn
  <2> QED BY <2>1, <2>4
<1> QED BY <1>1, <1>4, <1>5, <1>6

\* What does not move the walk.
LEMMA WalkRests ==
  ASSUME WalkInv, UNCHANGED <<job, frames, walker, ev>>, host' # "error", host = "walk" => host' = "walk"
  PROVE  WalkInv'
<1>1. \A l \in LaneIds : Stop(l)' = Stop(l)  BY DEF Stop, Entry, Owner
<1>2. InStep(frames)' = InStep(frames)  BY DEF InStep
<1> QED BY <1>1, <1>2 DEF WalkInv

\* A lane goes on.
LEMMA WalkGoesOn ==
  ASSUME WalkInv, NEW l \in LaneIds, Advancing(l), NEW s, Goes(l, s),
         \/ /\ Stop(l) = "on" /\ ~AtEnd(frames[l]) /\ Entry(l).kind = "tile" /\ s = Step(frames[l])
         \/ /\ Stop(l) = "on" /\ ~AtEnd(frames[l])
            /\ \/ Entry(l).kind = "while" /\ s = Pushed(frames[l], Entry(l).x, 0)
               \/ Entry(l).kind = "for" /\ s = (IF Entry(l).trips = 0 THEN Step(frames[l])
                                                ELSE Pushed(frames[l], Entry(l).y, Entry(l).trips))
         \/ Stop(l) = "on" /\ AtEnd(frames[l]) /\ s = Popped(frames[l])
  PROVE  WalkInv'
<1>1. PICK w, o : /\ IsChart(w) /\ w.streams = job.streams /\ BranchesFit(w.prog, w.main) /\ o \in Trails(w)
                  /\ \A n \in LaneIds : Walks(w, o, n, frames[n])
  BY DEF WalkInv, InStep
<1>2. Walks(w, o, l, s)  BY <1>1, LaneGoesOn
<1>3. /\ DOMAIN frames' = LaneIds /\ frames'[l] = s
      /\ \A k \in LaneIds : k # l => frames'[k] = frames[k]
      /\ job' = job /\ walker' = walker /\ ev' = ev /\ host' = host /\ host = "walk" /\ walker = l
  BY DEF Goes, WalkInv, Advancing
<1>4. InStep(frames)'
  <2>1. \A n \in LaneIds : Walks(w, o, n, frames'[n])  BY <1>1, <1>2, <1>3
  <2> QED BY <1>1, <1>3, <2>1 DEF InStep
<1>5. ASSUME NEW k \in LaneIds, k < l PROVE Stop(k)' = ev'
  <2>1. k # l  BY <1>5 DEF LaneIds
  <2>2. frames'[k] = frames[k] /\ Stop(k) = ev  BY <1>3, <1>5, <2>1 DEF WalkInv
  <2> QED BY <1>3, <2>2 DEF Stop, Entry, Owner
<1> QED BY <1>3, <1>4, <1>5 DEF WalkInv

\* A lane has stopped.
LEMMA WalkStops ==
  ASSUME WalkInv, NEW l \in LaneIds, EndAdvance(l)
  PROVE  WalkInv'
<1> USE DEF EndAdvance, Advancing
<1>1. host = "walk" /\ walker = l /\ Stop(l) # "on" /\ NLanes \in Nat /\ l \in 1 .. NLanes /\ LaneIds = 1 .. NLanes
  BY NLanesPositive DEF LaneIds
<1>2. \A k \in LaneIds : Stop(k)' = Stop(k)  BY DEF Stop, Entry, Owner
<1>3. InStep(frames)'  BY DEF InStep, WalkInv
<1>4. ev' = Stop(l)
  <2>1. CASE l = 1  BY <2>1
  <2>2. CASE l # 1
    <3>1. 1 \in LaneIds /\ 1 < walker  BY <1>1, <2>2
    <3>2. Stop(1) = ev /\ ev # "on"  BY <3>1 DEF WalkInv
    <3>3. Stop(l) = Stop(1)  BY <1>1, <3>1, <3>2, OneStop DEF WalkInv
    <3> QED BY <2>2, <3>2, <3>3
  <2> QED BY <2>1, <2>2
<1>5. /\ host' = (IF l = NLanes THEN "stage" ELSE "walk") /\ walker' = (IF l = NLanes THEN l ELSE l + 1)
      /\ frames' = frames
  BY <1>4
<1>6. ASSUME NEW k \in LaneIds, k < walker' \/ host' # "walk" PROVE Stop(k)' = ev'
  <2>1. k = l \/ k < walker  BY <1>1, <1>5, <1>6
  <2>2. k < walker => Stop(k) = ev /\ ev # "on"  BY DEF WalkInv
  <2>3. Stop(k) = Stop(l)
    <3>1. CASE k = l  BY <3>1
    <3>2. CASE k < walker  BY <1>1, <2>2, <3>2, OneStop DEF WalkInv
    <3> QED BY <2>1, <3>1, <3>2
  <2> QED BY <1>2, <1>4, <2>3
<1>7. walker' \in LaneIds /\ host' # "error" /\ ev' # "on"  BY <1>1, <1>4, <1>5
<1> QED BY <1>3, <1>5, <1>6, <1>7 DEF WalkInv

\* All lanes go on from one trail.
LEMMA WalkContinues ==
  ASSUME WalkInv, NEW stacks, DOMAIN stacks = LaneIds, Continue(stacks), InStep(stacks)
  PROVE  WalkInv'
<1> USE DEF Continue
<1>1. InStep(frames)'  BY DEF InStep
<1>2. walker' \in LaneIds /\ \A l \in LaneIds : ~(l < walker')  BY NLanesPositive DEF LaneIds
<1> QED BY <1>1, <1>2 DEF WalkInv

LEMMA ControlInStep ==
  ASSUME WalkInv, host # "walk"
  PROVE  /\ ev = "barrier" => InStep([l \in LaneIds |-> Step(frames[l])])
         /\ ev = "for" => InStep([l \in LaneIds |->
                                    IF Last(frames[l]).phase - 1 > 0
                                    THEN Rewound(frames[l], Owner(l).y, Last(frames[l]).phase - 1)
                                    ELSE Popped(frames[l])])
         /\ ev = "body" => InStep([l \in LaneIds |-> Rewound(frames[l], Owner(l).x, 0)])
         /\ ev = "cond" => /\ InStep([l \in LaneIds |-> Rewound(frames[l], Owner(l).y, 1)])
                           /\ InStep([l \in LaneIds |-> Popped(frames[l])])
         /\ ev = "if" => /\ \A l \in LaneIds : Len(frames[l]) < MaxDepth
                         /\ \A taken \in BOOLEAN :
                              InStep([l \in LaneIds |-> InBranch(frames[l], IF taken THEN Entry(l).x ELSE Entry(l).y)])
<1>0. \A l \in LaneIds : Stop(l) = ev  BY DEF WalkInv
<1>1. PICK w : \E A \in Trails(w) :
        /\ IsChart(w) /\ w.streams = job.streams /\ BranchesFit(w.prog, w.main) /\ Halts(w, A) = ev
        /\ \A l \in LaneIds : Fits(w, l, frames[l], A)
  BY <1>0, AllStopped DEF WalkInv
<1>2. PICK A \in Trails(w) :
        /\ IsChart(w) /\ w.streams = job.streams /\ BranchesFit(w.prog, w.main) /\ Halts(w, A) = ev
        /\ \A l \in LaneIds : Fits(w, l, frames[l], A)
  BY <1>1
<1>3. \A l \in LaneIds : Entry(l) = EntryOf(w, l, frames[l]) /\ Owner(l) = OwnerOf(w, l, frames[l])
  BY <1>2 DEF Entry, Owner, EntryOf, OwnerOf
<1>4. ASSUME NEW stacks, \E o \in Trails(w) : \A l \in LaneIds : Walks(w, o, l, stacks[l])
      PROVE  InStep(stacks)
  BY <1>2, <1>4 DEF InStep
<1>5. ASSUME ev = "barrier" PROVE InStep([l \in LaneIds |-> Step(frames[l])])
  <2>1. PICK o \in Trails(w) : \A l \in LaneIds : \A s : Fits(w, l, s, A) => Walks(w, o, l, Step(s))
    BY <1>2, <1>5, BarrierPassed
  <2> QED BY <1>2, <1>4, <2>1
<1>6. ASSUME ev = "for"
      PROVE  InStep([l \in LaneIds |-> IF Last(frames[l]).phase - 1 > 0
                                       THEN Rewound(frames[l], Owner(l).y, Last(frames[l]).phase - 1)
                                       ELSE Popped(frames[l])])
  <2>1. PICK n \in Int : \A l \in LaneIds : Last(frames[l]).phase = n
    <3>1. Inner(A).ph \in Int
      <4>1. Inner(A) \in Places(w)  BY <1>2, TrailFacts
      <4> QED BY <4>1 DEF Places
    <3>2. \A l \in LaneIds : Last(frames[l]).phase = Inner(A).ph  BY <1>2, FitsTop DEF Framing
    <3> QED BY <3>1, <3>2
  <2>2. CASE n - 1 > 0
    <3>1. n - 1 \in Int  BY <2>1
    <3>2. PICK o \in Trails(w) : \A l \in LaneIds : \A s :
            Fits(w, l, s, A) => Walks(w, o, l, Rewound(s, OwnerOf(w, l, s).y, n - 1))
      BY <1>2, <1>6, <3>1, LoopTurned
    <3> QED BY <1>2, <1>3, <1>4, <2>1, <2>2, <3>2
  <2>3. CASE ~(n - 1 > 0)
    <3>1. PICK o \in Trails(w) : \A l \in LaneIds : \A s : Fits(w, l, s, A) => Walks(w, o, l, Popped(s))
      BY <1>2, <1>6, LoopTurned
    <3> QED BY <1>2, <1>4, <2>1, <2>3, <3>1
  <2> QED BY <2>2, <2>3
<1>7. ASSUME ev = "body" PROVE InStep([l \in LaneIds |-> Rewound(frames[l], Owner(l).x, 0)])
  <2>1. PICK o \in Trails(w) : \A l \in LaneIds : \A s :
          Fits(w, l, s, A) => Walks(w, o, l, Rewound(s, OwnerOf(w, l, s).x, 0))
    BY <1>2, <1>7, LoopTurned
  <2> QED BY <1>2, <1>3, <1>4, <2>1
<1>8. ASSUME ev = "cond"
      PROVE  /\ InStep([l \in LaneIds |-> Rewound(frames[l], Owner(l).y, 1)])
             /\ InStep([l \in LaneIds |-> Popped(frames[l])])
  <2>1. PICK o \in Trails(w) : \A l \in LaneIds : \A s :
          Fits(w, l, s, A) => Walks(w, o, l, Rewound(s, OwnerOf(w, l, s).y, 1))
    BY <1>2, <1>8, LoopTurned
  <2>2. PICK p \in Trails(w) : \A l \in LaneIds : \A s : Fits(w, l, s, A) => Walks(w, p, l, Popped(s))
    BY <1>2, <1>8, LoopTurned
  <2>3. InStep([l \in LaneIds |-> Rewound(frames[l], Owner(l).y, 1)])  BY <1>2, <1>3, <1>4, <2>1
  <2>4. InStep([l \in LaneIds |-> Popped(frames[l])])  BY <1>2, <1>4, <2>2
  <2> QED BY <2>3, <2>4
<1>9. ASSUME ev = "if"
      PROVE  /\ \A l \in LaneIds : Len(frames[l]) < MaxDepth
             /\ \A taken \in BOOLEAN :
                  InStep([l \in LaneIds |-> InBranch(frames[l], IF taken THEN Entry(l).x ELSE Entry(l).y)])
  <2>1. Depth(A) < MaxDepth  BY <1>2, <1>9, BranchStart, BranchFits
  <2>2. \A l \in LaneIds : Len(frames[l]) < MaxDepth  BY <1>2, <2>1, FitsTop
  <2>3. ASSUME NEW taken \in BOOLEAN
        PROVE  InStep([l \in LaneIds |-> InBranch(frames[l], IF taken THEN Entry(l).x ELSE Entry(l).y)])
    <3>1. PICK o \in Trails(w) : \A l \in LaneIds : \A s : Fits(w, l, s, A) =>
            Walks(w, o, l, InBranch(s, IF taken THEN EntryOf(w, l, s).x ELSE EntryOf(w, l, s).y))
      BY <1>2, <1>9, BranchTaken
    <3> QED BY <1>2, <1>3, <1>4, <3>1
  <2> QED BY <2>2, <2>3
<1> QED BY <1>5, <1>6, <1>7, <1>8, <1>9

LEMMA WalkOn ==
  ASSUME ~MayFail, WalkInv, [Next]_vars
  PROVE  WalkInv'
<1>1. ASSUME NEW l \in LaneIds, Advance(l) PROVE WalkInv'
  <2>1. CASE CollectTile(l)  BY <2>1, WalkGoesOn DEF CollectTile
  <2>2. CASE EnterLoop(l)
    <3>1. CASE Entry(l).kind = "while" /\ Goes(l, Pushed(frames[l], Entry(l).x, 0))
      BY <2>2, <3>1, WalkGoesOn DEF EnterLoop
    <3>2. CASE Entry(l).kind = "for" /\ Goes(l, IF Entry(l).trips = 0 THEN Step(frames[l])
                                                 ELSE Pushed(frames[l], Entry(l).y, Entry(l).trips))
      BY <2>2, <3>2, WalkGoesOn DEF EnterLoop
    <3> QED BY <2>2, <3>1, <3>2 DEF EnterLoop
  <2>3. CASE LeaveBranch(l)  BY <2>3, WalkGoesOn DEF LeaveBranch
  <2>4. CASE EndAdvance(l)  BY <2>4, WalkStops
  <2> QED BY <1>1, <2>1, <2>2, <2>3, <2>4 DEF Advance
<1>2. ASSUME NEW further, NEW next, Flush(further, next) PROVE host' = next
  BY <1>2 DEF Flush, Fails
<1>3. CASE Route
  <2>1. host = "stage" /\ host' = "control" /\ KeepsWalk  BY <1>2, <1>3 DEF Route, InPhase
  <2> QED BY <2>1, WalkRests DEF KeepsWalk
<1>4. CASE StageSlot  BY <1>4, WalkRests DEF StageSlot, InPhase, KeepsWalk
<1>5. CASE WrapRing
  <2>1. host = "stage" /\ host' = "wrap" /\ KeepsWalk  BY <1>2, <1>5 DEF WrapRing, InPhase
  <2> QED BY <2>1, WalkRests DEF KeepsWalk
<1>6. CASE Wrapped  BY <1>6, WalkRests DEF Wrapped, KeepsWalk
<1>7. CASE EmptyPhase  BY <1>7, WalkRests DEF EmptyPhase, KeepsWalk
<1>8. CASE PassBarrier
  <2> DEFINE stacks == [l \in LaneIds |-> Step(frames[l])]
  <2>1. InStep(stacks) /\ Continue(stacks) /\ DOMAIN stacks = LaneIds  BY <1>8, ControlInStep DEF PassBarrier
  <2> HIDE DEF stacks
  <2> QED BY <2>1, WalkContinues
<1>9. CASE EndIteration
  <2> DEFINE stacks == [l \in LaneIds |-> IF Last(frames[l]).phase - 1 > 0
                                          THEN Rewound(frames[l], Owner(l).y, Last(frames[l]).phase - 1)
                                          ELSE Popped(frames[l])]
  <2>1. InStep(stacks) /\ Continue(stacks) /\ DOMAIN stacks = LaneIds  BY <1>9, ControlInStep DEF EndIteration
  <2> HIDE DEF stacks
  <2> QED BY <2>1, WalkContinues
<1>10. CASE RecheckCond
  <2> DEFINE stacks == [l \in LaneIds |-> Rewound(frames[l], Owner(l).x, 0)]
  <2>1. InStep(stacks) /\ Continue(stacks) /\ DOMAIN stacks = LaneIds  BY <1>10, ControlInStep DEF RecheckCond
  <2> HIDE DEF stacks
  <2> QED BY <2>1, WalkContinues
<1>11. CASE FlushAndWait
  <2>1. host = "control" /\ host' \in {"read", "drain"} /\ KeepsWalk  BY <1>2, <1>11 DEF FlushAndWait
  <2> QED BY <2>1, WalkRests DEF KeepsWalk
<1>12. CASE TestCond
  <2> DEFINE taken == Flag(job.at, arena, Owner(1).flag)
             stacks == [l \in LaneIds |-> IF taken THEN Rewound(frames[l], Owner(l).y, 1) ELSE Popped(frames[l])]
  <2>1. Continue(stacks) /\ DOMAIN stacks = LaneIds /\ host # "walk" /\ ev = "cond"  BY <1>12 DEF TestCond
  <2>2. /\ InStep([l \in LaneIds |-> Rewound(frames[l], Owner(l).y, 1)])
        /\ InStep([l \in LaneIds |-> Popped(frames[l])])
    BY <2>1, ControlInStep
  <2>3. InStep(stacks)
    <3>1. CASE taken
      <4>1. stacks = [l \in LaneIds |-> Rewound(frames[l], Owner(l).y, 1)]  BY <3>1
      <4> QED BY <2>2, <4>1
    <3>2. CASE ~taken
      <4>1. stacks = [l \in LaneIds |-> Popped(frames[l])]  BY <3>2
      <4> QED BY <2>2, <4>1
    <3> QED BY <3>1, <3>2
  <2> HIDE DEF stacks
  <2> QED BY <2>1, <2>3, WalkContinues
<1>13. CASE TestBranch
  <2> DEFINE taken == Flag(job.at, arena, Entry(1).flag)
             Branch(l) == IF taken THEN Entry(l).x ELSE Entry(l).y
             stacks == [l \in LaneIds |-> InBranch(frames[l], Branch(l))]
  <2>1. host # "walk" /\ ev = "if"  BY <1>13 DEF TestBranch
  <2>2. /\ \A l \in LaneIds : Len(frames[l]) < MaxDepth
        /\ InStep(stacks)
    <3>1. taken \in BOOLEAN  BY DEF Flag
    <3> HIDE DEF taken
    <3> QED BY <2>1, <3>1, ControlInStep
  <2>3. ~\E l \in LaneIds : Branch(l).len > 0 /\ Len(frames[l]) >= MaxDepth
    <3>1. ASSUME NEW l \in LaneIds PROVE ~(Len(frames[l]) >= MaxDepth)
      <4>1. PICK w, o : /\ IsChart(w) /\ o \in Trails(w) /\ \A n \in LaneIds : Walks(w, o, n, frames[n])
        BY DEF WalkInv, InStep
      <4>2. PICK A \in Course(w, o) : Fits(w, l, frames[l], A)  BY <4>1 DEF Walks
      <4>3. Len(frames[l]) \in Nat
        <5>1. A \in Trails(w)  BY <4>1, FollowOn
        <5>2. Len(frames[l]) = Depth(A) /\ Depth(A) \in Nat  BY <4>1, <4>2, <5>1, FitsTop, TrailFacts
        <5> QED BY <5>2
      <4> QED BY <2>2, <4>3, MaxDepthNat
    <3> QED BY <3>1
  <2>4. Continue(stacks)
    <3>1. Continue([l \in LaneIds |-> IF Branch(l).len = 0 THEN Step(frames[l]) ELSE Pushed(frames[l], Branch(l), 2)])
      BY <1>13, <2>3 DEF TestBranch
    <3> QED BY <3>1 DEF InBranch
  <2>5. DOMAIN stacks = LaneIds  OBVIOUS
  <2> HIDE DEF stacks
  <2> QED BY <2>2, <2>4, <2>5, WalkContinues
<1>14. CASE Return  BY <1>14, WalkRests DEF Return, KeepsWalk
<1>15. CASE DeviceStep
  <2>1. UNCHANGED hostVars
    BY <1>15 DEF DeviceStep, TransferSlots, RunSegmentTile, EndSegment, RunMatmul
  <2> QED BY <2>1, WalkRests DEF hostVars, WalkInv
<1>16. CASE Terminated \/ UNCHANGED vars
  <2>1. UNCHANGED vars  BY <1>16 DEF Terminated
  <2> QED BY <2>1, WalkRests DEF vars, WalkInv
<1> QED BY <1>1, <1>3, <1>4, <1>5, <1>6, <1>7, <1>8, <1>9, <1>10, <1>11, <1>12, <1>13, <1>14, <1>15, <1>16
        DEF Next, HostStep

\* Where enqueues succeed and no branch is too deep for the frames of a walk, the
\* host never gives up: whatever the flags it reads, all lanes' streams take the
\* walk to the same kind of stop, round the same loops and into the same branches
\* (advance and the control after it; "non-uniform control across lanes" and "IF
\* nesting exceeds MAX_DEPTH" are never reported).
THEOREM LanesInStep ==
  ASSUME ~MayFail, \A j \in Jobs : BranchesFit(j.prog, j.main)
  PROVE  Spec => []UniformWalk
<1>1. Init => WalkInv  BY WalkStarts
<1>2. WalkInv /\ [Next]_vars => WalkInv'  BY WalkOn
<1>3. WalkInv => UniformWalk  BY DEF WalkInv, UniformWalk
<1> QED BY <1>1, <1>2, <1>3, PTL DEF Spec

\* Such a launch never gives host memory back early: the staging array holds what
\* is enqueued until the device has read it, and every kernel finds its segment.
COROLLARY LaunchHolds ==
  ASSUME ~MayFail, \A j \in Jobs : BranchesFit(j.prog, j.main)
  PROVE  Spec => [](StagingHeld /\ SlotsCurrent)
<1>1. Spec => []UniformWalk  BY LanesInStep
<1> QED BY <1>1, StagingIsHeld, SlotsAreCurrent, PTL
------------------------------------------------------------------------------
(* The megakernel: a level of tiles *)

LevelOf(w, g, m)  == LevelsFor(w.prog, w.main, g)[m]
TasksOf(w, g, m)  == ToSet(LevelOf(w, g, m).members)
PackedOf(w, g, m) == PackUnits(Units(w.prog, LevelOf(w, g, m).members))

TimeOf(w) == PhaseTime(w.prog, w.main, RootLevels(w.prog, w.main))

\* A level of a list, unless the root is idle.
LEMMA LevelIs ==
  ASSUME NEW w, IsChart(w), NEW g \in w.lists, NEW m \in 1 .. Count(w, g), ~Steering(w, g, m)
  PROVE  /\ Free(w.prog, TasksOf(w, g, m))
         /\ TasksOf(w, g, m) \subseteq Busy(w.prog, Listed(w.prog, w.main, g))
         /\ \A i \in TasksOf(w, g, m) : ~IsRegion(w.prog[i])
         /\ g = RootList => \A i \in TasksOf(w, g, m) : TimeOf(w)[i] = m
<1> DEFINE p == w.prog
           mainLen == w.main
           levels == LevelsFor(p, mainLen, g)
           D == TasksOf(w, g, m)
<1>1. Listing(p, mainLen) /\ Plain(p) /\ g \in AllLists(p)
  BY DEF IsChart, StreamsOf, KnownLists, Listing
<1>2. m \in 1 .. Len(levels) /\ ~levels[m].region /\ D = ToSet(levels[m].members)
  BY DEF Count, Steering, TasksOf, LevelOf
<1>3. CASE g = RootList /\ Busy(p, 1 .. mainLen) = {}
  <2>1. levels = <<Idle, Idle>>  BY <1>3 DEF LevelsFor
  <2>2. Len(levels) = 2 /\ \A k \in 1 .. 2 : levels[k] = Idle  BY <2>1
  <2>3. D = {}  BY <1>2, <2>2 DEF Idle, ToSet
  <2>4. Free(p, {})
    <3>1. Len(p) \in Nat  BY <1>1 DEF Plain
    <3> QED BY <3>1 DEF Free
  <2> QED BY <2>3, <2>4
<1>4. CASE ~(g = RootList /\ Busy(p, 1 .. mainLen) = {})
  <2>1. levels = ListLevels(p, mainLen, g)  BY <1>4 DEF LevelsFor
  <2>2. Layered(p, Busy(p, Listed(p, mainLen, g)), levels)  BY <1>1, <2>1, ListLayered
  <2>3. D = Members(levels, m)  BY <1>2 DEF Members
  <2>4. /\ D \subseteq Busy(p, Listed(p, mainLen, g)) /\ OneKind(p, levels, m)
        /\ \A i, k \in D : i < k => ~Boundary(p[i], p[k])
    BY <1>2, <2>2, <2>3 DEF Layered
  <2>5. Listed(p, mainLen, g) \subseteq 1 .. Len(p)  BY <1>1, ListFacts
  <2>6. Free(p, D)  BY <2>4, <2>5 DEF Free, Busy
  <2>7. \A i \in D : ~IsRegion(p[i])  BY <1>2, <2>3, <2>4 DEF OneKind
  <2>8. g = RootList => \A i \in D : TimeOf(w)[i] = m
    <3> SUFFICES ASSUME g = RootList, NEW i \in D PROVE TimeOf(w)[i] = m  OBVIOUS
    <3>1. levels = RootLevels(p, mainLen)  BY <2>1 DEF ListLevels, RootLevels, RangeOf
    <3> QED BY <1>1, <1>2, <2>3, <3>1, RootTime DEF TimeOf
  <2> QED BY <2>4, <2>6, <2>7, <2>8
<1> QED BY <1>3, <1>4

\* All that a level runs has one time.
LEMMA LevelTime ==
  ASSUME NEW w, IsChart(w), NEW g \in w.lists, NEW m \in 1 .. Count(w, g), ~Steering(w, g, m),
         NEW i \in TasksOf(w, g, m), NEW k \in TasksOf(w, g, m)
  PROVE  TimeOf(w)[i] = TimeOf(w)[k]
<1>1. CASE g = RootList  BY <1>1, LevelIs
<1>2. CASE g # RootList
  <2>1. Listing(w.prog, w.main) /\ g \in SubLists(w.prog)
    BY <1>2 DEF IsChart, StreamsOf, KnownLists, AllLists
  <2>2. i \in Listed(w.prog, w.main, g) /\ k \in Listed(w.prog, w.main, g)  BY LevelIs DEF Busy
  <2> QED BY <2>1, <2>2, SameTime DEF TimeOf
<1> QED BY <1>1, <1>2

\* Lane l runs tile t of instruction i in level m of list g.
RunsIn(w, l, g, m, i, t) ==
  /\ t \in Nat
  /\ \E x \in Nat : Pos(w, g, m, l) <= x /\ x < Beyond(w, g, m, l) /\ Runs(w.streams[l][x], i, t)

\* The stretch of a level of tiles is what the packing made of it.
LEMMA LevelPacked ==
  ASSUME NEW w, IsChart(w), NEW g \in w.lists, NEW m \in 1 .. Count(w, g), ~Steering(w, g, m),
         NEW l \in LaneIds, NEW x \in Nat, Pos(w, g, m, l) <= x, x < Beyond(w, g, m, l)
  PROVE  /\ PackOK(w.prog, TasksOf(w, g, m), PackedOf(w, g, m))
         /\ \E q \in 1 .. Len(PackedOf(w, g, m)[l]) : w.streams[l][x] = PackedOf(w, g, m)[l][q]
<1> DEFINE p == w.prog
           levels == LevelsFor(p, w.main, g)
           r == w.spots[g][l]
           s == w.streams[l]
           D == TasksOf(w, g, m)
           b == PackedOf(w, g, m)[l]
<1>1. /\ Sections(p, levels, Len(levels), l, s, From(w, g, l), To(w, g, l), r.sec)
      /\ Plain(p) /\ m \in 1 .. Len(levels)
  BY DEF IsChart, StreamsOf, InStreams, InLane, Count, From, To, Listing
<1>2. Free(p, D)  BY LevelIs
<1>3. PackOK(p, D, PackedOf(w, g, m)) /\ b \in Seq(TileEntries(D))
  BY <1>1, <1>2, PhaseBody DEF PackedOf, TasksOf
<1>4. Body(p, levels[m], l) = b  BY DEF Body, Steering, PackedOf, LevelOf
<1> HIDE DEF D, b
<1>5. PICK c \in Nat, z \in Nat : c = r.sec[m] /\ z = Len(b) /\ z = Size(p, levels, l, m)
  BY <1>1, <1>4 DEF Sections, Size
<1>6. Pos(w, g, m, l) = c /\ Beyond(w, g, m, l) = c + z  BY <1>5 DEF Pos, Beyond
<1>7. PICK q \in 1 .. z : x = c + q - 1
  <2>1. x - c + 1 \in 1 .. z /\ x = c + (x - c + 1) - 1  BY <1>5, <1>6
  <2> QED BY <2>1
<1>8. Alike(s[c + q - 1], b[q])  BY <1>1, <1>4, <1>5 DEF Sections
<1>9. b[q] \in TileEntries(D)  BY <1>3, <1>5, ElementOfSeq
<1>10. ~Steers(b[q])  BY <1>9 DEF TileEntries, TileEntry, Steers
<1>11. s[x] = b[q]  BY <1>7, <1>8, <1>10, AlikeFacts
<1> QED BY <1>3, <1>5, <1>11 DEF D, b

\* What a lane runs there is a tile of an instruction of the level.
LEMMA EntryRuns ==
  ASSUME NEW w, IsChart(w), NEW g \in w.lists, NEW m \in 1 .. Count(w, g), ~Steering(w, g, m),
         NEW l \in LaneIds, NEW x \in Nat, Pos(w, g, m, l) <= x, x < Beyond(w, g, m, l)
  PROVE  /\ w.streams[l][x] \in TileEntries(TasksOf(w, g, m))
         /\ w.streams[l][x].kind = "tile" /\ w.streams[l][x].task \in TasksOf(w, g, m)
         /\ w.streams[l][x].lo \in Nat /\ w.streams[l][x].hi \in Nat /\ w.streams[l][x].lo < w.streams[l][x].hi
         /\ w.streams[l][x].hi <= NTiles(w.prog[w.streams[l][x].task])
<1>1. PICK q \in 1 .. Len(PackedOf(w, g, m)[l]) : w.streams[l][x] = PackedOf(w, g, m)[l][q]
  BY LevelPacked
<1>2. PackOK(w.prog, TasksOf(w, g, m), PackedOf(w, g, m))  BY LevelPacked
<1>3. Proper(w.prog, TasksOf(w, g, m), PackedOf(w, g, m)[l][q])  BY <1>2 DEF PackOK
<1>4. PackedOf(w, g, m)[l] \in Seq(TileEntries(TasksOf(w, g, m)))  BY <1>2 DEF PackOK
<1>5. PackedOf(w, g, m)[l][q] \in TileEntries(TasksOf(w, g, m))  BY <1>4, ElementOfSeq
<1>6. \A e \in TileEntries(TasksOf(w, g, m)) : e.lo \in Nat /\ e.hi \in Nat  BY DEF TileEntries, TileEntry
<1> QED BY <1>1, <1>3, <1>5, <1>6 DEF Proper

LEMMA TaskRuns ==
  ASSUME NEW w, IsChart(w), NEW g \in w.lists, NEW m \in 1 .. Count(w, g), ~Steering(w, g, m),
         NEW l \in LaneIds, NEW i, NEW t, RunsIn(w, l, g, m, i, t)
  PROVE  /\ i \in TasksOf(w, g, m) /\ t \in Nat /\ t < NTiles(w.prog[i])
         /\ PackOK(w.prog, TasksOf(w, g, m), PackedOf(w, g, m))
         /\ \E q : RunAt(PackedOf(w, g, m), l, q, i, t)
<1>1. t \in Nat /\ \E x \in Nat : Pos(w, g, m, l) <= x /\ x < Beyond(w, g, m, l) /\ Runs(w.streams[l][x], i, t)
  BY DEF RunsIn
<1>2. PICK x \in Nat : Pos(w, g, m, l) <= x /\ x < Beyond(w, g, m, l) /\ Runs(w.streams[l][x], i, t)
  BY <1>1
<1>3. w.streams[l][x].task = i /\ t < w.streams[l][x].hi  BY <1>2 DEF Runs
<1>4. /\ i \in TasksOf(w, g, m) /\ w.streams[l][x].hi \in Nat /\ w.streams[l][x].hi <= NTiles(w.prog[i])
  BY <1>2, <1>3, EntryRuns
<1>5. Listing(w.prog, w.main) /\ Plain(w.prog)  BY DEF IsChart, Listing
<1>6. NTiles(w.prog[i]) \in Nat
  <2>1. i \in 1 .. Len(w.prog)  BY <1>4, LevelIs DEF Free
  <2>2. w.prog[i].n \in Nat  BY <1>5, <2>1 DEF Plain
  <2> QED BY <2>2, TilesCounted
<1>7. t < NTiles(w.prog[i])  BY <1>1, <1>3, <1>4, <1>6
<1>8. /\ PackOK(w.prog, TasksOf(w, g, m), PackedOf(w, g, m))
      /\ \E q \in 1 .. Len(PackedOf(w, g, m)[l]) : w.streams[l][x] = PackedOf(w, g, m)[l][q]
  BY <1>2, LevelPacked
<1>9. PICK q \in 1 .. Len(PackedOf(w, g, m)[l]) : w.streams[l][x] = PackedOf(w, g, m)[l][q]
  BY <1>8
<1>10. RunAt(PackedOf(w, g, m), l, q, i, t)  BY <1>2, <1>9 DEF RunAt
<1> QED BY <1>1, <1>4, <1>7, <1>8, <1>10
------------------------------------------------------------------------------
(* What tiles touch *)

\* w is a chart of job j, and jb the job as it is loaded.
ChartOf(w, j, jb) ==
  /\ IsChart(w) /\ WellFormed(j) /\ w.prog = j.prog /\ w.main = j.main
  /\ jb.prog = j.prog /\ jb.at = ReuseArena(j) /\ jb.size = j.size

\* Address x is in buffer b.
InBuffer(j, b, x) == x \in Nat /\ ReuseArena(j)[b] <= x /\ x < ReuseArena(j)[b] + j.size[b]

\* Tile t of instruction ins touches address x of its buffer b.
WritesTile(j, ins, t, b, x) ==
  b \in Writes(ins) /\ ins.off \in Nat /\ x = ReuseArena(j)[b] + ins.off + t

ReadsTile(j, ins, t, b, x) ==
  b \in Reads(ins) /\ (Spread(ins, b) \/ x = ReuseArena(j)[b] + t)

\* Tile t of i is one of a compute instruction's.
IsTile(j, i, t) ==
  i \in 1 .. Len(j.prog) /\ j.prog[i].op \in {"ew", "shaped"} /\ t \in Nat /\ t < NTiles(j.prog[i])

LEMMA BufferPlace ==
  ASSUME NEW j, WellFormed(j), NEW b \in DOMAIN j.size
  PROVE  ReuseArena(j)[b] \in Nat /\ j.size[b] \in Nat
<1>1. ReuseArena(j) \in [DOMAIN j.size -> Nat]  BY ArenaSound
<1>2. j.size \in [DOMAIN j.size -> Nat]  BY DEF WellFormed, BufferForm
<1> QED BY <1>1, <1>2

\* A tile stays within its buffers.
LEMMA TileTouches ==
  ASSUME NEW w, NEW j, NEW jb, ChartOf(w, j, jb), NEW i, NEW t, IsTile(j, i, t), NEW x
  PROVE  /\ x \in WritesAt(jb, j.prog[i], t) =>
              \E b \in DOMAIN j.size : WritesTile(j, j.prog[i], t, b, x) /\ InBuffer(j, b, x)
         /\ x \in ReadsAt(jb, j.prog[i], t) =>
              \E b \in DOMAIN j.size : ReadsTile(j, j.prog[i], t, b, x) /\ InBuffer(j, b, x)
<1> DEFINE ins == j.prog[i]
<1>1. /\ jb.at = ReuseArena(j) /\ jb.size = j.size /\ WellFormed(j)
      /\ i \in 1 .. Len(j.prog) /\ ins.op \in {"ew", "shaped"} /\ t \in Nat /\ t < NTiles(ins)
  BY DEF ChartOf, IsTile
<1>2. Plain(j.prog)  BY <1>1, WellFormedListing DEF Listing
<1>3. NTiles(ins) \in Nat  BY <1>1, <1>2, TilesCounted DEF Plain
<1>4. /\ Reads(ins) \cup Writes(ins) \subseteq DOMAIN j.size
      /\ \A b \in Reads(ins) : Spread(ins, b) \/ NTiles(ins) <= j.size[b]
      /\ \A b \in Writes(ins) : ins.off \in Nat /\ ins.off + NTiles(ins) <= j.size[b]
  BY <1>1 DEF WellFormed, BufferForm
<1> HIDE DEF ins
<1>5. ASSUME x \in WritesAt(jb, ins, t)
      PROVE  \E b \in DOMAIN j.size : WritesTile(j, ins, t, b, x) /\ InBuffer(j, b, x)
  <2>1. PICK b \in Writes(ins) : x = ReuseArena(j)[b] + ins.off + t  BY <1>1, <1>5 DEF WritesAt
  <2>2. b \in DOMAIN j.size  BY <1>4
  <2>3. PICK a \in Nat, n \in Nat, o \in Nat, m \in Nat :
          a = ReuseArena(j)[b] /\ n = j.size[b] /\ o = ins.off /\ m = NTiles(ins) /\ o + m <= n
    BY <1>1, <1>3, <1>4, <2>2, BufferPlace
  <2>4. x \in Nat /\ a <= x /\ x < a + n
    <3>1. x = a + o + t /\ t \in Nat /\ t < m  BY <1>1, <2>1, <2>3
    <3>2. o + t < n  BY <2>3, <3>1
    <3> QED BY <2>3, <3>1, <3>2
  <2> QED BY <2>1, <2>2, <2>3, <2>4 DEF WritesTile, InBuffer
<1>6. ASSUME x \in ReadsAt(jb, ins, t)
      PROVE  \E b \in DOMAIN j.size : ReadsTile(j, ins, t, b, x) /\ InBuffer(j, b, x)
  <2>1. PICK b \in Reads(ins) :
          x \in IF Spread(ins, b) THEN jb.at[b] .. jb.at[b] + jb.size[b] - 1 ELSE {jb.at[b] + t}
    BY <1>6 DEF ReadsAt
  <2>2. b \in DOMAIN j.size  BY <1>4
  <2>3. PICK a \in Nat, n \in Nat : a = ReuseArena(j)[b] /\ n = j.size[b]  BY <1>1, <2>2, BufferPlace
  <2>4. CASE Spread(ins, b)
    <3>1. x \in a .. a + n - 1  BY <1>1, <2>1, <2>3, <2>4
    <3>2. x \in Nat /\ a <= x /\ x < a + n  BY <2>3, <3>1
    <3> QED BY <2>2, <2>3, <2>4, <3>2 DEF ReadsTile, InBuffer
  <2>5. CASE ~Spread(ins, b)
    <3>1. x = a + t  BY <1>1, <2>1, <2>3, <2>5
    <3>2. NTiles(ins) <= n  BY <1>4, <2>3, <2>5
    <3>3. x \in Nat /\ a <= x /\ x < a + n  BY <1>1, <1>3, <2>3, <3>1, <3>2
    <3> QED BY <2>2, <2>3, <3>1, <3>3 DEF ReadsTile, InBuffer
  <2> QED BY <2>4, <2>5
<1> QED BY <1>5, <1>6 DEF ins

\* Addresses of buffers that live at one time are apart.
LEMMA BuffersApart ==
  ASSUME NEW j, WellFormed(j),
         NEW i \in Busy(j.prog, 1 .. Len(j.prog)), NEW k \in Busy(j.prog, 1 .. Len(j.prog)),
         Times(j)[i] = Times(j)[k],
         NEW b \in DOMAIN j.size, NEW c \in DOMAIN j.size, Uses(j.prog[i], b), Uses(j.prog[k], c),
         NEW x, InBuffer(j, b, x), InBuffer(j, c, x)
  PROVE  b = c
<1> SUFFICES ASSUME b # c PROVE FALSE  OBVIOUS
<1>1. Apart(ReuseArena(j), j.size, b, c)  BY SharedTime
<1>2. PICK a \in Nat, n \in Nat : a = ReuseArena(j)[b] /\ n = j.size[b]  BY BufferPlace
<1>3. PICK d \in Nat, m \in Nat : d = ReuseArena(j)[c] /\ m = j.size[c]  BY BufferPlace
<1>4. a + n <= d \/ d + m <= a  BY <1>1, <1>2, <1>3 DEF Apart
<1>5. x \in Nat /\ a <= x /\ x < a + n /\ d <= x /\ x < d + m  BY <1>2, <1>3 DEF InBuffer
<1> QED BY <1>4, <1>5

\* What a lane runs of a level is a tile.
LEMMA RunsTile ==
  ASSUME NEW w, NEW j, NEW jb, ChartOf(w, j, jb), NEW g \in w.lists, NEW m \in 1 .. Count(w, g),
         ~Steering(w, g, m), NEW l, NEW i, NEW t, l \in LaneIds, RunsIn(w, l, g, m, i, t)
  PROVE  IsTile(j, i, t) /\ i \in Busy(j.prog, 1 .. Len(j.prog)) /\ i \in TasksOf(w, g, m)
<1>1. IsChart(w) /\ w.prog = j.prog  BY DEF ChartOf
<1>2. /\ i \in TasksOf(w, g, m) /\ t \in Nat /\ t < NTiles(w.prog[i])  BY <1>1, TaskRuns
<1>3. /\ i \in Busy(w.prog, Listed(w.prog, w.main, g)) /\ ~IsRegion(w.prog[i])
      /\ i \in 1 .. Len(w.prog)
  BY <1>1, <1>2, LevelIs DEF Free
<1>4. InsForm(w.prog[i])  BY <1>1, <1>3 DEF IsChart, Listing
<1>5. w.prog[i].op \in {"ew", "shaped"}  BY <1>3, <1>4 DEF InsForm, Busy, IsRegion
<1> QED BY <1>1, <1>2, <1>3, <1>5 DEF IsTile, Busy

\* Different tiles of one instruction touch different addresses of a buffer one of
\* them writes.
LEMMA OneTaskClear ==
  ASSUME NEW j, WellFormed(j), Unviewed(j.prog), NEW i, NEW t, NEW u, IsTile(j, i, t), IsTile(j, i, u), t # u,
         NEW b \in DOMAIN j.size, NEW x, WritesTile(j, j.prog[i], t, b, x),
         ReadsTile(j, j.prog[i], u, b, x) \/ WritesTile(j, j.prog[i], u, b, x)
  PROVE  FALSE
<1> DEFINE ins == j.prog[i]
<1>1. PICK a \in Nat, o \in Nat : a = ReuseArena(j)[b] /\ o = ins.off  BY BufferPlace DEF WritesTile
<1>2. x = a + o + t /\ t \in Nat /\ u \in Nat  BY <1>1 DEF WritesTile, IsTile
<1>3. CASE WritesTile(j, ins, u, b, x)
  <2>1. x = a + o + u  BY <1>1, <1>3 DEF WritesTile
  <2> QED BY <1>1, <1>2, <2>1
<1>4. CASE ReadsTile(j, ins, u, b, x)
  <2>1. b \in Reads(ins) \cap Writes(ins)  BY <1>4 DEF ReadsTile, WritesTile
  <2>2. /\ i \in 1 .. Len(j.prog) /\ ins.op \in {"ew", "shaped"}
        /\ ins.op = "shaped" => Reads(ins) \cap Writes(ins) = {}
        /\ IsMap(ins) => ins.off = 0
    BY DEF IsTile, WellFormed, BufferForm
  <2>3. IsMap(ins) /\ o = 0  BY <1>1, <2>1, <2>2 DEF IsMap
  <2>4. ~Spread(ins, b)  BY <2>2, <2>3 DEF Spread, Unviewed
  <2>5. x = a + u  BY <1>1, <1>4, <2>4 DEF ReadsTile
  <2> QED BY <1>1, <1>2, <2>3, <2>5
<1> QED BY <1>3, <1>4

\* So do tiles of different instructions that do not clash.
LEMMA NoClashClear ==
  ASSUME NEW j, WellFormed(j), NEW i, NEW t, NEW k, NEW u, IsTile(j, i, t), IsTile(j, k, u), i # k,
         ~Clash(j.prog[i], t, j.prog[k], u),
         NEW b \in DOMAIN j.size, NEW x, WritesTile(j, j.prog[i], t, b, x),
         ReadsTile(j, j.prog[k], u, b, x) \/ WritesTile(j, j.prog[k], u, b, x)
  PROVE  FALSE
<1> DEFINE p == j.prog[i]
           q == j.prog[k]
<1>1. PICK a \in Nat, o \in Nat : a = ReuseArena(j)[b] /\ o = p.off  BY BufferPlace DEF WritesTile
<1>2. x = a + o + t /\ t \in Nat /\ u \in Nat /\ b \in Writes(p)  BY <1>1 DEF WritesTile, IsTile
<1>3. b \in Reads(q) \cup Writes(q)  BY DEF ReadsTile, WritesTile
<1>4. /\ i \in 1 .. Len(j.prog) /\ k \in 1 .. Len(j.prog)
      /\ IsMap(p) => p.off = 0
      /\ IsMap(q) => q.off = 0
  BY DEF IsTile, WellFormed, BufferForm
<1>5. CASE t = u \/ Spread(p, b) \/ Spread(q, b)
  <2>1. SameGroup(p, q) /\ b \notin Reads(p) \cup Reads(q)  BY <1>2, <1>3, <1>5 DEF Clash
  <2>2. WritesTile(j, q, u, b, x)  BY <2>1 DEF ReadsTile
  <2>3. b \in Writes(p) \cap Writes(q)  BY <1>2, <2>2 DEF WritesTile
  <2>4. (p.off .. p.off + NTiles(p) - 1) \cap (q.off .. q.off + NTiles(q) - 1) = {}
    BY <1>4, <2>1, <2>3 DEF WellFormed, BufferForm
  <2>5. PICK v \in Nat : v = q.off  BY <2>2 DEF WritesTile
  <2>6. x = a + v + u  BY <1>1, <2>2, <2>5 DEF WritesTile
  <2>7. Plain(j.prog)  BY WellFormedListing DEF Listing
  <2>8. PICK m \in Nat, n \in Nat : m = NTiles(p) /\ n = NTiles(q)  BY <1>4, <2>7, TilesCounted DEF Plain
  <2>9. t < m /\ u < n  BY <2>8 DEF IsTile
  <2>10. o + t = v + u  BY <1>1, <1>2, <2>5, <2>6
  <2>11. o + t \in o .. o + m - 1 /\ v + u \in v .. v + n - 1  BY <1>1, <1>2, <2>5, <2>8, <2>9
  <2> HIDE DEF p, q
  <2>12. (o .. o + m - 1) \cap (v .. v + n - 1) = {}  BY <1>1, <2>4, <2>5, <2>8
  <2> QED BY <2>10, <2>11, <2>12
<1>6. CASE t # u /\ ~Spread(p, b) /\ ~Spread(q, b)
  <2>1. p.off = 0 /\ q.off = 0  BY <1>4, <1>6 DEF Spread
  <2>2. x = a + u  BY <1>1, <1>6, <2>1 DEF ReadsTile, WritesTile
  <2> QED BY <1>1, <1>2, <1>6, <2>1, <2>2
<1> QED BY <1>5, <1>6

LEMMA ClashBack ==
  ASSUME NEW p, NEW s, NEW q, NEW t, Clash(p, s, q, t) PROVE Clash(q, t, p, s)
BY DEF Clash, SameGroup

\* Two lanes' tiles of one level do not clash.
LEMMA LanesDoNotClash ==
  ASSUME NEW w, IsChart(w), Unviewed(w.prog), NEW g \in w.lists, NEW m \in 1 .. Count(w, g), ~Steering(w, g, m),
         NEW l \in LaneIds, NEW k \in LaneIds, l # k,
         NEW i, NEW t, NEW h, NEW u, RunsIn(w, l, g, m, i, t), RunsIn(w, k, g, m, h, u)
  PROVE  IF i = h THEN t # u ELSE ~Clash(w.prog[i], t, w.prog[h], u)
<1> DEFINE D == TasksOf(w, g, m)
           out == PackedOf(w, g, m)
<1>1. PICK x : i \in D /\ t \in Nat /\ PackOK(w.prog, D, out) /\ RunAt(out, l, x, i, t)
  BY TaskRuns
<1>2. PICK y : h \in D /\ u \in Nat /\ RunAt(out, k, y, h, u)
  BY TaskRuns
<1>3. Free(w.prog, D) /\ Plain(w.prog) /\ D \subseteq Nat  BY LevelIs DEF IsChart, Listing, Free
<1> HIDE DEF D, out
<1>4. ASSUME t = u, Joined(w.prog, D, i, h) PROVE FALSE
  <2>1. InOrder(l, x, i, k, y, h)  BY <1>1, <1>2, <1>4 DEF PackOK
  <2> QED BY <2>1 DEF InOrder
<1>5. CASE i = h
  <2>1. Joined(w.prog, D, i, h)  BY <1>5 DEF Joined
  <2> QED BY <1>4, <1>5, <2>1
<1>6. CASE i # h
  <2> SUFFICES ASSUME Clash(w.prog[i], t, w.prog[h], u) PROVE FALSE  BY <1>6
  <2>1. i < h \/ h < i  BY <1>1, <1>2, <1>3, <1>6
  <2>2. CASE i < h
    <3>1. t = u /\ Joined(w.prog, D, i, h)  BY <1>1, <1>2, <1>3, <2>2, ClashJoined
    <3> QED BY <1>4, <3>1
  <2>3. CASE h < i
    <3>1. Clash(w.prog[h], u, w.prog[i], t)  BY ClashBack
    <3>2. u = t /\ Joined(w.prog, D, h, i)  BY <1>1, <1>2, <1>3, <2>3, <3>1, ClashJoined
    <3>3. Joined(w.prog, D, i, h)  BY <3>2 DEF Joined
    <3> QED BY <1>4, <3>2, <3>3
  <2> QED BY <2>1, <2>2, <2>3
<1> QED BY <1>5, <1>6

\* Tile s of p writes nothing that tile t of q touches.
ClearOf(jb, p, s, q, t) == WritesAt(jb, p, s) \cap (ReadsAt(jb, q, t) \cup WritesAt(jb, q, t)) = {}

\* Two lanes that run one level never touch one address with a write among them.
LEMMA TilesClear ==
  ASSUME NEW w, NEW j, NEW jb, ChartOf(w, j, jb), Unviewed(j.prog),
         NEW g \in w.lists, NEW m \in 1 .. Count(w, g), ~Steering(w, g, m),
         NEW l \in LaneIds, NEW k \in LaneIds, l # k,
         NEW i, NEW t, NEW h, NEW u, RunsIn(w, l, g, m, i, t), RunsIn(w, k, g, m, h, u)
  PROVE  ClearOf(jb, j.prog[i], t, j.prog[h], u)
<1> SUFFICES ASSUME NEW x, x \in WritesAt(jb, j.prog[i], t),
                    x \in ReadsAt(jb, j.prog[h], u) \/ x \in WritesAt(jb, j.prog[h], u)
             PROVE  FALSE
  BY DEF ClearOf
<1>1. IsChart(w) /\ w.prog = j.prog /\ w.main = j.main /\ WellFormed(j)  BY DEF ChartOf
<1>2. IsTile(j, i, t) /\ i \in Busy(j.prog, 1 .. Len(j.prog)) /\ i \in TasksOf(w, g, m)  BY RunsTile
<1>3. IsTile(j, h, u) /\ h \in Busy(j.prog, 1 .. Len(j.prog)) /\ h \in TasksOf(w, g, m)  BY RunsTile
<1>4. Times(j)[i] = Times(j)[h]
  <2>1. TimeOf(w) = Times(j)  BY <1>1 DEF TimeOf, Times
  <2> QED BY <1>1, <1>2, <1>3, <2>1, LevelTime
<1>5. PICK b \in DOMAIN j.size : WritesTile(j, j.prog[i], t, b, x) /\ InBuffer(j, b, x)
  BY <1>2, TileTouches
<1>6. PICK c \in DOMAIN j.size :
        /\ ReadsTile(j, j.prog[h], u, c, x) \/ WritesTile(j, j.prog[h], u, c, x)
        /\ InBuffer(j, c, x)
  BY <1>3, TileTouches
<1>7. Uses(j.prog[i], b) /\ Uses(j.prog[h], c)
  BY <1>2, <1>3, <1>5, <1>6 DEF Uses, WritesTile, ReadsTile, IsTile, IsRegion
<1>8. b = c  BY <1>1, <1>2, <1>3, <1>4, <1>5, <1>6, <1>7, BuffersApart
<1>9. IF i = h THEN t # u ELSE ~Clash(j.prog[i], t, j.prog[h], u)  BY <1>1, LanesDoNotClash
<1>10. CASE i = h  BY <1>1, <1>2, <1>3, <1>5, <1>6, <1>8, <1>9, <1>10, OneTaskClear
<1>11. CASE i # h  BY <1>1, <1>2, <1>3, <1>5, <1>6, <1>8, <1>9, <1>11, NoClashClear
<1> QED BY <1>10, <1>11

\* Nor does a lane write the flag another one reads, where a region runs at the level's time.
LEMMA FlagClear ==
  ASSUME NEW w, NEW j, NEW jb, ChartOf(w, j, jb),
         NEW g \in w.lists, NEW m \in 1 .. Count(w, g), ~Steering(w, g, m),
         NEW l \in LaneIds, NEW i, NEW t, RunsIn(w, l, g, m, i, t),
         NEW r \in Regions(j.prog), j.prog[r].op \in {"while", "if"}, TimeOf(w)[r] = TimeOf(w)[i],
         j.prog[r].dst \notin Writes(j.prog[i])
  PROVE  WritesAt(jb, j.prog[i], t) \cap ReadsAt(jb, FlagRead(j.prog[r].dst), 0) = {}
<1> DEFINE c == j.prog[r].dst
<1> SUFFICES ASSUME NEW x, x \in WritesAt(jb, j.prog[i], t), x \in ReadsAt(jb, FlagRead(c), 0) PROVE FALSE
  OBVIOUS
<1>1. w.prog = j.prog /\ w.main = j.main /\ WellFormed(j) /\ jb.at = ReuseArena(j) /\ jb.size = j.size
  BY DEF ChartOf
<1>2. IsTile(j, i, t) /\ i \in Busy(j.prog, 1 .. Len(j.prog))  BY RunsTile
<1>3. r \in 1 .. Len(j.prog) /\ c # NoBuf /\ c \in Writes(j.prog[r])
      /\ Reads(j.prog[r]) \cup Writes(j.prog[r]) \subseteq DOMAIN j.size
  BY <1>1 DEF WellFormed, BufferForm, Regions, Writes
<1>4. c \in DOMAIN j.size /\ r \in Busy(j.prog, 1 .. Len(j.prog)) /\ Uses(j.prog[r], c)
  BY <1>3 DEF Busy, Uses
<1>5. InBuffer(j, c, x)
  <2>1. x \in jb.at[c] .. jb.at[c] + jb.size[c] - 1
    BY <1>3 DEF ReadsAt, FlagRead, Shaped, Compute, Spread, IsMap, Reads, NoBuf
  <2>2. PICK a \in Nat, n \in Nat : a = ReuseArena(j)[c] /\ n = j.size[c]  BY <1>1, <1>4, BufferPlace
  <2>3. x \in a .. a + n - 1  BY <1>1, <2>1, <2>2
  <2> QED BY <2>2, <2>3 DEF InBuffer
<1>6. PICK b \in DOMAIN j.size : WritesTile(j, j.prog[i], t, b, x) /\ InBuffer(j, b, x)
  BY <1>2, TileTouches
<1>7. Uses(j.prog[i], b) /\ b \in Writes(j.prog[i])  BY <1>6 DEF Uses, WritesTile
<1>8. Times(j)[i] = Times(j)[r]  BY <1>1 DEF TimeOf, Times
<1>9. b = c  BY <1>1, <1>2, <1>4, <1>5, <1>6, <1>7, <1>8, BuffersApart
<1> QED BY <1>7, <1>9

LEMMA FlagReadWrites == ASSUME NEW jb, NEW b, NEW t PROVE WritesAt(jb, FlagRead(b), t) = {}
BY DEF WritesAt, FlagRead, Shaped, Compute, Writes, NoBuf
------------------------------------------------------------------------------
(* From barrier to barrier *)

\* What a lane at trail A waits for, or "on".
Awaits(w, A) ==
  IF AtTiles(w, A) \/ AtRegion(w, A) THEN "on"
  ELSE IF ~AtClose(w, A) THEN "barrier"
  ELSE IF Depth(A) = 1 THEN "done" ELSE Shuts(w, A)

Parked(w, A) == Awaits(w, A) \in {"barrier", "for", "cond", "body"}

FlagOf(w, q) == RegionOf(w, q).dst

Branches(w, A) == AtRegion(w, A) /\ RegionOf(w, Inner(A)).op = "if"

Side(T, b) == IF b \in T THEN "x" ELSE "y"

\* Where it goes on to by itself, T being the flags that are true.
Turn(w, T, A) ==
  IF Branches(w, A) THEN Onto(w, A.at, Sub(w, Inner(A), Side(T, FlagOf(w, Inner(A)))), 2)
  ELSE Goal(w, A)

Moving(w)     == {A \in Trails(w) : Awaits(w, A) = "on"}
Turns(w, T)   == [A \in Moving(w) |-> Turn(w, T, A)]
Tour(w, T, o) == Reach(Trails(w), Turns(w, T), o)

LEMMA TurnTrail ==
  ASSUME NEW w, IsChart(w), NEW T, NEW A \in Moving(w)
  PROVE  Turn(w, T, A) \in Trails(w)
<1>1. A \in Trails(w) /\ Awaits(w, A) = "on"  BY DEF Moving
<1>2. CASE Branches(w, A)
  <2> DEFINE g == Sub(w, Inner(A), Side(T, FlagOf(w, Inner(A))))
  <2>1. AtRegion(w, A) /\ g \in Inside(w, Inner(A))  BY <1>2 DEF Branches, Sub, Inside, Side
  <2>2. Turn(w, T, A) = Onto(w, A.at, g, 2)  BY <1>2 DEF Turn
  <2> HIDE DEF g
  <2>3. 2 \in Int  OBVIOUS
  <2> QED BY <1>1, <2>1, <2>2, <2>3, EnterTrail
<1>3. CASE ~Branches(w, A)
  <2>1. AtTiles(w, A) \/ AtRegion(w, A) \/ Depth(A) # 1  BY <1>1 DEF Awaits
  <2>2. Turn(w, T, A) = Goal(w, A)  BY <1>3 DEF Turn
  <2> QED BY <1>1, <2>1, <2>2, GoalIs
<1> QED BY <1>2, <1>3

LEMMA TurnsOn ==
  ASSUME NEW w, IsChart(w), NEW T
  PROVE  \A B \in Trails(w) \cap DOMAIN Turns(w, T) : Turns(w, T)[B] \in Trails(w)
BY TurnTrail DEF Turns

LEMMA TourOn ==
  ASSUME NEW w, IsChart(w), NEW T, NEW o \in Trails(w)
  PROVE  /\ o \in Tour(w, T, o) /\ Tour(w, T, o) \subseteq Trails(w)
         /\ \A A \in Tour(w, T, o) : Awaits(w, A) = "on" => Turn(w, T, A) \in Tour(w, T, o)
         /\ \A A, B \in Tour(w, T, o) : Awaits(w, A) # "on" /\ Awaits(w, B) # "on" => A = B
<1> DEFINE S == Trails(w)  next == Turns(w, T)
<1>1. \A B \in S \cap DOMAIN next : next[B] \in S  BY TurnsOn
<1>2. Tour(w, T, o) \subseteq S  BY DEF Tour, Reach
<1>3. o \in Tour(w, T, o)  BY ReachOn DEF Tour
<1>4. ASSUME NEW A \in Tour(w, T, o), Awaits(w, A) = "on" PROVE Turn(w, T, A) \in Tour(w, T, o)
  <2>1. A \in Moving(w)  BY <1>2, <1>4 DEF Moving
  <2>2. A \in DOMAIN next /\ next[A] = Turn(w, T, A) /\ next[A] \in S  BY <2>1, TurnTrail DEF Turns
  <2>3. A \in Reach(S, next, o) \cap DOMAIN next  BY <2>2 DEF Tour
  <2>4. next[A] \in Reach(S, next, o)
    <3> HIDE DEF S, next
    <3> QED BY <2>2, <2>3, ReachOn DEF S
  <2> QED BY <2>2, <2>4 DEF Tour
<1>5. ASSUME NEW A \in Tour(w, T, o), NEW B \in Tour(w, T, o), Awaits(w, A) # "on", Awaits(w, B) # "on"
      PROVE  A = B
  <2>1. A \notin DOMAIN next /\ B \notin DOMAIN next  BY <1>5 DEF Turns, Moving
  <2>2. A \in Reach(S, next, o) /\ B \in Reach(S, next, o)  BY DEF Tour
  <2>3. o \in S  OBVIOUS
  <2> HIDE DEF S, next
  <2> QED BY <1>1, <2>1, <2>2, <2>3, OneEnd
<1> QED BY <1>2, <1>3, <1>4, <1>5

\* A set that is closed under turns has all of a tour.
LEMMA TourWithin ==
  ASSUME NEW w, IsChart(w), NEW T, NEW C, C \subseteq Trails(w), NEW o \in C,
         \A X \in C : Awaits(w, X) = "on" => Turn(w, T, X) \in C
  PROVE  Tour(w, T, o) \subseteq C
<1>1. \A X \in C \cap DOMAIN Turns(w, T) : Turns(w, T)[X] \in C  BY DEF Turns, Moving
<1> QED BY <1>1, ReachWithin DEF Tour

\* What comes after where a lane moves on.
LEMMA TourFrom ==
  ASSUME NEW w, IsChart(w), NEW T, NEW X \in Trails(w), Awaits(w, X) = "on"
  PROVE  Tour(w, T, X) \subseteq {X} \cup Tour(w, T, Turn(w, T, X))
<1> DEFINE S == Trails(w)  next == Turns(w, T)
<1>1. \A B \in S \cap DOMAIN next : next[B] \in S  BY TurnsOn
<1>2. X \in S \cap DOMAIN next /\ next[X] = Turn(w, T, X)  BY DEF Turns, Moving
<1> HIDE DEF S, next
<1>3. Reach(S, next, X) \subseteq {X} \cup Reach(S, next, next[X])  BY <1>1, <1>2, ReachFrom
<1> QED BY <1>2, <1>3 DEF Tour, S, next

LEMMA TourOneWay ==
  ASSUME NEW w, IsChart(w), NEW T, NEW o \in Trails(w), NEW A \in Tour(w, T, o), NEW B \in Tour(w, T, o)
  PROVE  B \in Tour(w, T, A) \/ A \in Tour(w, T, B)
<1> DEFINE S == Trails(w)  next == Turns(w, T)
<1>1. \A X \in S \cap DOMAIN next : next[X] \in S  BY TurnsOn
<1>2. A \in Reach(S, next, o) /\ B \in Reach(S, next, o) /\ o \in S  BY DEF Tour
<1> HIDE DEF S, next
<1>3. B \in Reach(S, next, A) \/ A \in Reach(S, next, B)  BY <1>1, <1>2, OneWay
<1> QED BY <1>3 DEF Tour, S, next

\* A lane that lands on a tour is on it.
OnTour(w, T, o, l, s) == \E A \in Tour(w, T, o) : Fits(w, l, s, A)

LEMMA TilesTurn ==
  ASSUME NEW w, NEW T, NEW A, AtTiles(w, A)
  PROVE  Awaits(w, A) = "on" /\ Turn(w, T, A) = Passed(A)
BY DEF Awaits, Turn, Branches, AtTiles, AtRegion, Goal

LEMMA TourLands ==
  ASSUME NEW w, IsChart(w), NEW T, NEW o \in Trails(w), NEW A \in Tour(w, T, o), NEW l, NEW s, Lands(w, l, s, A)
  PROVE  OnTour(w, T, o, l, s)
<1>1. CASE Fits(w, l, s, A)  BY <1>1 DEF OnTour
<1>2. CASE AtTiles(w, A) /\ Fits(w, l, s, Passed(A))
  <2>1. Passed(A) \in Tour(w, T, o)  BY <1>2, TilesTurn, TourOn
  <2> QED BY <1>2, <2>1 DEF OnTour
<1> QED BY <1>1, <1>2 DEF Lands

LEMMA TourLeaves ==
  ASSUME NEW w, IsChart(w), NEW T, NEW o \in Trails(w) PROVE Leaves(w, Tour(w, T, o))
<1> SUFFICES ASSUME NEW B \in Tour(w, T, o)
             PROVE  /\ AtTiles(w, B) => Passed(B) \in Tour(w, T, o)
                    /\ AtClose(w, B) /\ Depth(B) # 1 /\ RegionOf(w, Around(B)).op = "if" => Left(B) \in Tour(w, T, o)
  BY DEF Leaves
<1>1. Awaits(w, B) = "on" => Turn(w, T, B) \in Tour(w, T, o)  BY TourOn
<1>2. AtTiles(w, B) => Awaits(w, B) = "on" /\ Turn(w, T, B) = Passed(B)  BY TilesTurn
<1>3. AtClose(w, B) /\ Depth(B) # 1 /\ RegionOf(w, Around(B)).op = "if"
        => Awaits(w, B) = "on" /\ Turn(w, T, B) = Left(B)
  BY DEF AtClose, AtTiles, AtRegion, Awaits, Shuts, Turn, Branches, Goal
<1> QED BY <1>1, <1>2, <1>3

\* A lane past its level stays past tiles and regions.
LEMMA PastStays ==
  ASSUME NEW w, IsChart(w), NEW T, NEW o \in Trails(w), o.past
  PROVE  \A X \in Tour(w, T, o) : X.past
<1> DEFINE C == {X \in Trails(w) : X.past}
<1>1. ASSUME NEW X \in C, Awaits(w, X) = "on" PROVE Turn(w, T, X) \in C
  <2>1. ~AtTiles(w, X) /\ ~AtRegion(w, X)  BY DEF AtTiles, AtRegion
  <2>2. Depth(X) # 1  BY <1>1, <2>1 DEF Awaits
  <2>3. Turn(w, T, X) = Left(X)  BY <2>1 DEF Turn, Branches, Goal
  <2> QED BY <2>2, <2>3, LeftTrail
<1>2. o \in C /\ C \subseteq Trails(w)  OBVIOUS
<1> HIDE DEF C
<1>3. Tour(w, T, o) \subseteq C  BY <1>1, <1>2, TourWithin
<1> QED BY <1>3 DEF C

\* After a level of tiles a lane is past tiles and regions until it waits.
LEMMA AfterTiles ==
  ASSUME NEW w, IsChart(w), NEW T, NEW D \in Trails(w), AtTiles(w, D), NEW X \in Tour(w, T, D), X # D
  PROVE  X.past
<1>1. X \in Tour(w, T, Passed(D))  BY TilesTurn, TourFrom
<1>2. Passed(D) \in Trails(w) /\ Passed(D).past  BY PassedTrail
<1> QED BY <1>1, <1>2, PastStays

\* So a tour has one level of tiles,
LEMMA OneTileLevel ==
  ASSUME NEW w, IsChart(w), NEW T, NEW o \in Trails(w), NEW D \in Tour(w, T, o), NEW E \in Tour(w, T, o),
         AtTiles(w, D), AtTiles(w, E)
  PROVE  D = E
<1>1. D \in Trails(w) /\ E \in Trails(w) /\ ~D.past /\ ~E.past  BY TourOn DEF AtTiles
<1>2. E \in Tour(w, T, D) \/ D \in Tour(w, T, E)  BY TourOneWay
<1> QED BY <1>1, <1>2, AfterTiles

\* and regions come before it.
LEMMA RegionBefore ==
  ASSUME NEW w, IsChart(w), NEW T, NEW o \in Trails(w), NEW A \in Tour(w, T, o), NEW D \in Tour(w, T, o),
         AtRegion(w, A), AtTiles(w, D)
  PROVE  Turn(w, T, A) \in Trails(w) /\ D \in Tour(w, T, Turn(w, T, A))
<1>1. A \in Trails(w) /\ D \in Trails(w) /\ ~A.past /\ A # D  BY TourOn DEF AtRegion, AtTiles
<1>2. Awaits(w, A) = "on"  BY DEF Awaits
<1>3. A \notin Tour(w, T, D)  BY <1>1, AfterTiles
<1>4. D \in Tour(w, T, A)  BY <1>3, TourOneWay
<1>5. D \in Tour(w, T, Turn(w, T, A))  BY <1>1, <1>2, <1>4, TourFrom
<1>6. A \in Moving(w)  BY <1>1, <1>2 DEF Moving
<1> QED BY <1>5, <1>6, TurnTrail

\* A walk in lists of C, or past what it has to run.
Within(w, C, X) == X.past \/ Listed(w.prog, w.main, Inner(X).g) \subseteq C

\* A lane that begins in lists of C stays in them until it waits.
LEMMA TourStays ==
  ASSUME NEW w, IsChart(w), NEW C, \A h \in SubLists(w.prog) : h[1] \in C => Listed(w.prog, w.main, h) \subseteq C,
         NEW T, NEW o \in Trails(w), Within(w, C, o)
  PROVE  \A X \in Tour(w, T, o) : Within(w, C, X)
<1> DEFINE K == {X \in Trails(w) : Within(w, C, X)}
<1>1. ASSUME NEW X \in K, AtRegion(w, X), NEW g \in Inside(w, Inner(X)), NEW ph \in Int
      PROVE  Onto(w, X.at, g, ph) \in K
  <2>1. X \in Trails(w) /\ ~X.past /\ Listed(w.prog, w.main, Inner(X).g) \subseteq C
    BY <1>1 DEF Within, AtRegion
  <2>2. Inner(X) \in Places(w) /\ Inner(X).m \in 1 .. Count(w, Inner(X).g) /\ Steering(w, Inner(X).g, Inner(X).m)
    BY <1>1, <2>1, TrailFacts DEF AtRegion
  <2>3. g[1] \in C /\ g \in SubLists(w.prog)  BY <2>1, <2>2, InsideLists
  <2>4. g \in w.lists /\ Onto(w, X.at, g, ph) \in Trails(w) /\ Inner(Onto(w, X.at, g, ph)) = Begun(w, g, ph)
    BY <1>1, <2>1, EnterTrail
  <2>5. Begun(w, g, ph).g = g  BY DEF Begun
  <2>6. Within(w, C, Onto(w, X.at, g, ph))  BY <2>3, <2>4, <2>5 DEF Within
  <2> QED BY <2>4, <2>6
<1>2. ASSUME NEW X \in K, Awaits(w, X) = "on" PROVE Turn(w, T, X) \in K
  <2>1. CASE AtRegion(w, X)
    <3> DEFINE q == Inner(X)
    <3>1. q \in Places(w) /\ q.m \in 1 .. Count(w, q.g) /\ Steering(w, q.g, q.m)
      BY <2>1, TrailFacts DEF AtRegion
    <3>2. /\ RegionOf(w, q).op \in {"while", "for", "if"} /\ RegionOf(w, q).trips \in Nat
          /\ Sub(w, q, "x") \in Inside(w, q) /\ Sub(w, q, "y") \in Inside(w, q)
      BY <3>1, RegionKinds
    <3>3. Side(T, FlagOf(w, q)) \in {"x", "y"}  BY DEF Side
    <3>4. ~AtTiles(w, X)  BY <2>1 DEF AtTiles, AtRegion
    <3>5. CASE Branches(w, X)
      <4>1. Sub(w, q, Side(T, FlagOf(w, q))) \in Inside(w, q) /\ 2 \in Int  BY <3>2, <3>3
      <4>2. Turn(w, T, X) = Onto(w, X.at, Sub(w, q, Side(T, FlagOf(w, q))), 2)  BY <3>5 DEF Turn
      <4> QED BY <1>1, <2>1, <4>1, <4>2
    <3>6. CASE ~Branches(w, X) /\ RegionOf(w, q).op = "while"
      <4>1. Turn(w, T, X) = Onto(w, X.at, Sub(w, q, "x"), 0) /\ 0 \in Int  BY <2>1, <3>4, <3>6 DEF Turn, Goal
      <4> QED BY <1>1, <2>1, <3>2, <4>1
    <3>7. CASE ~Branches(w, X) /\ RegionOf(w, q).op # "while" /\ RegionOf(w, q).trips # 0
      <4>1. Turn(w, T, X) = Onto(w, X.at, Sub(w, q, "y"), RegionOf(w, q).trips) /\ RegionOf(w, q).trips \in Int
        BY <2>1, <3>2, <3>4, <3>7 DEF Turn, Goal
      <4> QED BY <1>1, <2>1, <3>2, <4>1
    <3>8. CASE ~Branches(w, X) /\ RegionOf(w, q).op # "while" /\ RegionOf(w, q).trips = 0
      <4>1. Turn(w, T, X) = Passed(X)  BY <2>1, <3>4, <3>8 DEF Turn, Goal
      <4> QED BY <4>1, PassedTrail DEF Within
    <3> QED BY <3>5, <3>6, <3>7, <3>8
  <2>2. CASE AtTiles(w, X)
    <3>1. Turn(w, T, X) = Passed(X)  BY <2>2, TilesTurn
    <3> QED BY <3>1, PassedTrail DEF Within
  <2>3. CASE ~AtRegion(w, X) /\ ~AtTiles(w, X)
    <3>1. Depth(X) # 1  BY <1>2, <2>3 DEF Awaits
    <3>2. Turn(w, T, X) = Left(X)  BY <2>3 DEF Turn, Branches, Goal
    <3> QED BY <3>1, <3>2, LeftTrail DEF Within
  <2> QED BY <2>1, <2>2, <2>3
<1>3. o \in K /\ K \subseteq Trails(w)  OBVIOUS
<1> HIDE DEF K
<1>4. Tour(w, T, o) \subseteq K  BY <1>2, <1>3, TourWithin
<1> QED BY <1>4 DEF K

\* Instruction i runs at region r's time and leaves its flag alone.
Spares(w, r, i) == TimeOf(w)[i] = TimeOf(w)[r] /\ w.prog[r].dst \notin Writes(w.prog[i])

\* The tiles of a tour that begins in a branch, or in a loop whose flag was read.
LEMMA FlagSpared ==
  ASSUME NEW w, NEW j, NEW jb, ChartOf(w, j, jb), NEW g \in SubLists(w.prog),
         w.prog[g[1]].op = "if" \/ (w.prog[g[1]].op = "while" /\ g[2] = "y"),
         NEW T, NEW o \in Trails(w), Inner(o).g = g,
         NEW D \in Tour(w, T, o), AtTiles(w, D), NEW i \in Listed(w.prog, w.main, Inner(D).g)
  PROVE  Spares(w, g[1], i)
<1>1. IsChart(w) /\ w.prog = j.prog /\ w.main = j.main /\ FlagForm(j.prog) /\ Listing(w.prog, w.main)
  BY DEF ChartOf, WellFormed, IsChart
<1>2. PICK C \in SUBSET (1 .. Len(w.prog)) :
        Encloses(w.prog, g, C) /\ \A k \in C : w.prog[g[1]].dst \notin Writes(w.prog[k])
  BY <1>1 DEF FlagForm
<1>3. ASSUME NEW h \in SubLists(w.prog)
      PROVE  /\ Listed(w.prog, 0, h) = Listed(w.prog, w.main, h)
             /\ \A k \in Listed(w.prog, w.main, h) : TimeOf(w)[k] = TimeOf(w)[h[1]]
  <2>1. h # RootList  BY <1>1, ListFacts
  <2>2. Listed(w.prog, 0, h) = Listed(w.prog, w.main, h)  BY <2>1 DEF Listed, RangeOf
  <2> QED BY <1>1, <2>2, SameTime DEF TimeOf
<1> DEFINE K == {k \in C : TimeOf(w)[k] = TimeOf(w)[g[1]]}
<1>4. ASSUME NEW h \in SubLists(w.prog), h[1] \in K PROVE Listed(w.prog, w.main, h) \subseteq K
  <2>1. Listed(w.prog, w.main, h) \subseteq C  BY <1>2, <1>3, <1>4 DEF Encloses
  <2> QED BY <1>3, <1>4, <2>1
<1>5. Listed(w.prog, w.main, g) \subseteq K  BY <1>2, <1>3 DEF Encloses
<1> HIDE DEF K
<1>6. Within(w, K, o)  BY <1>5 DEF Within
<1>7. Within(w, K, D)  BY <1>1, <1>4, <1>6, TourStays
<1>8. i \in K  BY <1>7 DEF Within, AtTiles
<1> QED BY <1>2, <1>8 DEF K, Spares
------------------------------------------------------------------------------
(* At a barrier *)

\* Where lanes go on to once they have passed the barrier they wait at, at trail B.
Opening(w, T, B) ==
  IF Awaits(w, B) = "barrier" THEN Onward(B)
  ELSE IF Awaits(w, B) = "for"
  THEN IF Inner(B).ph = 1 THEN Left(B) ELSE Again(w, B, Sub(w, Around(B), "y"), Inner(B).ph - 1)
  ELSE IF Awaits(w, B) = "cond"
  THEN IF FlagOf(w, Around(B)) \in T THEN Again(w, B, Sub(w, Around(B), "y"), 1) ELSE Left(B)
  ELSE IF Awaits(w, B) = "body" THEN Again(w, B, Sub(w, Around(B), "x"), 0)
  ELSE B

\* What it waits for tells where it is.
LEMMA AwaitsIs ==
  ASSUME NEW w, IsChart(w), NEW B \in Trails(w), Parked(w, B)
  PROVE  /\ ~AtTiles(w, B) /\ ~AtRegion(w, B) /\ B.past
         /\ Awaits(w, B) = "barrier" => ~AtClose(w, B) /\ Inner(B).m < Count(w, Inner(B).g)
         /\ Awaits(w, B) # "barrier" =>
              /\ AtClose(w, B) /\ Depth(B) # 1 /\ Around(B) \in Places(w)
              /\ Around(B).m \in 1 .. Count(w, Around(B).g) /\ Steering(w, Around(B).g, Around(B).m)
              /\ Sub(w, Around(B), "x") \in Inside(w, Around(B)) /\ Sub(w, Around(B), "y") \in Inside(w, Around(B))
              /\ Awaits(w, B) = Shuts(w, B)
<1>1. ~AtTiles(w, B) /\ ~AtRegion(w, B) /\ Awaits(w, B) # "on" /\ Awaits(w, B) # "done"
  BY DEF Awaits, Parked
<1>2. B.past  BY <1>1, TrailFacts DEF AtTiles, AtRegion
<1>3. Awaits(w, B) # "barrier" => AtClose(w, B) /\ Depth(B) # 1 /\ Awaits(w, B) = Shuts(w, B)
  BY <1>1 DEF Awaits
<1>4. Awaits(w, B) = "barrier" => ~AtClose(w, B)
  BY <1>1 DEF Awaits, Shuts
<1>5. ~AtClose(w, B) => Inner(B).m < Count(w, Inner(B).g)
  <2> SUFFICES ASSUME ~AtClose(w, B) PROVE Inner(B).m < Count(w, Inner(B).g)  OBVIOUS
  <2>1. Inner(B).m \in 0 .. Count(w, Inner(B).g) /\ Inner(B).m # Count(w, Inner(B).g)
    BY <1>2 DEF Trails, IsTrail, AtClose, Inner
  <2>2. Count(w, Inner(B).g) \in Nat
    <3>1. 1 \in LaneIds  BY NLanesPositive DEF LaneIds
    <3>2. Inner(B).g \in w.lists  BY TrailFacts DEF Places
    <3> QED BY <3>1, <3>2, ListSpots
  <2> QED BY <2>1, <2>2
<1>6. Depth(B) # 1 =>
        /\ Around(B) \in Places(w)
        /\ Around(B).m \in 1 .. Count(w, Around(B).g) /\ Steering(w, Around(B).g, Around(B).m)
  BY TrailFacts DEF Nests
<1>7. Sub(w, Around(B), "x") \in Inside(w, Around(B)) /\ Sub(w, Around(B), "y") \in Inside(w, Around(B))
  BY DEF Sub, Inside
<1> QED BY <1>1, <1>2, <1>3, <1>4, <1>5, <1>6, <1>7

LEMMA PhaseInt ==
  ASSUME NEW w, IsChart(w), NEW B \in Trails(w)
  PROVE  Inner(B).ph \in Int /\ Inner(B).ph - 1 \in Int
<1>1. Inner(B).ph \in Int  BY TrailFacts DEF Places
<1> QED BY <1>1

LEMMA OpeningTrail ==
  ASSUME NEW w, IsChart(w), NEW T, NEW B \in Trails(w)
  PROVE  Opening(w, T, B) \in Trails(w)
<1>1. CASE Awaits(w, B) = "barrier"
  <2>1. Onward(B) \in Trails(w)  BY <1>1, AwaitsIs, OnwardTrail DEF Parked
  <2> QED BY <1>1, <2>1 DEF Opening
<1>2. CASE Awaits(w, B) \in {"for", "cond", "body"}
  <2>1. /\ Depth(B) # 1
        /\ Sub(w, Around(B), "x") \in Inside(w, Around(B)) /\ Sub(w, Around(B), "y") \in Inside(w, Around(B))
    BY <1>2, AwaitsIs DEF Parked
  <2>2. Left(B) \in Trails(w)  BY <2>1, LeftTrail
  <2>3. Again(w, B, Sub(w, Around(B), "y"), Inner(B).ph - 1) \in Trails(w)  BY <2>1, PhaseInt, AgainTrail
  <2>4. Again(w, B, Sub(w, Around(B), "y"), 1) \in Trails(w)
    <3>1. 1 \in Int  OBVIOUS
    <3> QED BY <2>1, <3>1, AgainTrail
  <2>5. Again(w, B, Sub(w, Around(B), "x"), 0) \in Trails(w)
    <3>1. 0 \in Int  OBVIOUS
    <3> QED BY <2>1, <3>1, AgainTrail
  <2> QED BY <1>2, <2>2, <2>3, <2>4, <2>5 DEF Opening
<1>3. CASE Awaits(w, B) \notin {"barrier", "for", "cond", "body"}  BY <1>3 DEF Opening
<1> QED BY <1>1, <1>2, <1>3

\* What a lane at B makes of its frames there.
Opened(w, T, B, l, s) ==
  IF Awaits(w, B) = "barrier" THEN Step(s)
  ELSE IF Awaits(w, B) = "for"
  THEN IF Inner(B).ph = 1 THEN Popped(s) ELSE Rewound(s, OwnerOf(w, l, s).y, Inner(B).ph - 1)
  ELSE IF Awaits(w, B) = "cond"
  THEN IF FlagOf(w, Around(B)) \in T THEN Rewound(s, OwnerOf(w, l, s).y, 1) ELSE Popped(s)
  ELSE Rewound(s, OwnerOf(w, l, s).x, 0)

LEMMA Opens ==
  ASSUME NEW w, IsChart(w), NEW T, NEW B \in Trails(w), Parked(w, B), NEW l \in LaneIds, NEW s, Fits(w, l, s, B)
  PROVE  OnTour(w, T, Opening(w, T, B), l, Opened(w, T, B, l, s))
<1>1. Opening(w, T, B) \in Trails(w)  BY OpeningTrail
<1>2. Opening(w, T, B) \in Tour(w, T, Opening(w, T, B))  BY <1>1, TourOn
<1> SUFFICES Lands(w, l, Opened(w, T, B, l, s), Opening(w, T, B))  BY <1>1, <1>2, TourLands
<1>3. CASE Awaits(w, B) = "barrier"
  <2>1. B.past /\ ~AtClose(w, B)  BY <1>3, AwaitsIs
  <2>2. Lands(w, l, Step(s), Onward(B))  BY <2>1, BarrierStepped
  <2> QED BY <1>3, <2>2 DEF Opening, Opened
<1>4. CASE Awaits(w, B) \in {"for", "cond", "body"}
  <2> DEFINE q == Around(B)
  <2>1. /\ Depth(B) # 1 /\ Sub(w, q, "x") \in Inside(w, q) /\ Sub(w, q, "y") \in Inside(w, q)
    BY <1>4, AwaitsIs
  <2>2. Directs(w, l, q, OwnerOf(w, l, s))  BY <2>1, Sight DEF OwnerOf
  <2>3. OwnerOf(w, l, s).x = Stretch(w, Sub(w, q, "x"), l) /\ OwnerOf(w, l, s).y = Stretch(w, Sub(w, q, "y"), l)
    BY <2>2 DEF Directs, Sub
  <2> HIDE DEF q
  <2>4. Lands(w, l, Popped(s), Left(B))  BY <2>1, PopFits DEF Lands
  <2>5. Lands(w, l, Rewound(s, OwnerOf(w, l, s).y, Inner(B).ph - 1), Again(w, B, Sub(w, q, "y"), Inner(B).ph - 1))
    <3>1. Lands(w, l, Rewound(s, Stretch(w, Sub(w, q, "y"), l), Inner(B).ph - 1), Again(w, B, Sub(w, q, "y"), Inner(B).ph - 1))
      BY <2>1, PhaseInt, RewindFits DEF q
    <3> QED BY <2>3, <3>1
  <2>6. Lands(w, l, Rewound(s, OwnerOf(w, l, s).y, 1), Again(w, B, Sub(w, q, "y"), 1))
    <3>1. 1 \in Int  OBVIOUS
    <3>2. Lands(w, l, Rewound(s, Stretch(w, Sub(w, q, "y"), l), 1), Again(w, B, Sub(w, q, "y"), 1))
      BY <2>1, <3>1, RewindFits DEF q
    <3> QED BY <2>3, <3>2
  <2>7. Lands(w, l, Rewound(s, OwnerOf(w, l, s).x, 0), Again(w, B, Sub(w, q, "x"), 0))
    <3>1. 0 \in Int  OBVIOUS
    <3>2. Lands(w, l, Rewound(s, Stretch(w, Sub(w, q, "x"), l), 0), Again(w, B, Sub(w, q, "x"), 0))
      BY <2>1, <3>1, RewindFits DEF q
    <3> QED BY <2>3, <3>2
  <2>8. CASE Awaits(w, B) = "for"  BY <2>4, <2>5, <2>8 DEF Opening, Opened, q
  <2>9. CASE Awaits(w, B) = "cond"  BY <2>4, <2>6, <2>9 DEF Opening, Opened, q
  <2>10. CASE Awaits(w, B) = "body"  BY <2>7, <2>10 DEF Opening, Opened, q
  <2> QED BY <1>4, <2>8, <2>9, <2>10
<1> QED BY <1>3, <1>4 DEF Parked
------------------------------------------------------------------------------
(* What lanes touch between two barriers *)

\* Lanes read the flag of the region at q once they have passed the barrier at B.
Watched(w, T, B, q) ==
  \/ Awaits(w, B) = "cond" /\ q = Around(B)
  \/ \E A \in Tour(w, T, Opening(w, T, B)) : Branches(w, A) /\ q = Inner(A)

LEMMA WatchedRegion ==
  ASSUME NEW w, IsChart(w), NEW T, NEW B \in Trails(w), NEW q, Watched(w, T, B, q)
  PROVE  /\ q \in Places(w) /\ Target(w, q.g, q.m) \in Regions(w.prog)
         /\ RegionOf(w, q).op \in {"while", "if"}
<1>1. CASE Awaits(w, B) = "cond" /\ q = Around(B)
  <2>1. /\ q \in Places(w) /\ q.m \in 1 .. Count(w, q.g) /\ Steering(w, q.g, q.m)
        /\ Shuts(w, B) = "cond"
    BY <1>1, AwaitsIs DEF Parked
  <2>2. RegionOf(w, q).op = "while"  BY <1>1, <2>1 DEF Shuts
  <2> QED BY <2>1, <2>2, InsideLists
<1>2. CASE \E A \in Tour(w, T, Opening(w, T, B)) : Branches(w, A) /\ q = Inner(A)
  <2>1. PICK A \in Tour(w, T, Opening(w, T, B)) : Branches(w, A) /\ q = Inner(A)  BY <1>2
  <2>2. A \in Trails(w)  BY OpeningTrail, TourOn
  <2>3. q \in Places(w) /\ q.m \in 1 .. Count(w, q.g) /\ Steering(w, q.g, q.m) /\ RegionOf(w, q).op = "if"
    BY <2>1, <2>2, TrailFacts DEF Branches, AtRegion
  <2> QED BY <2>3, InsideLists
<1> QED BY <1>1, <1>2 DEF Watched

\* The level of tiles that lanes run before the next barrier leaves the flag alone.
LEMMA WatchedSpared ==
  ASSUME NEW w, NEW j, NEW jb, ChartOf(w, j, jb), NEW T, NEW B \in Trails(w), NEW q, Watched(w, T, B, q),
         NEW D \in Tour(w, T, Opening(w, T, B)), AtTiles(w, D),
         NEW i \in Listed(w.prog, w.main, Inner(D).g)
  PROVE  Spares(w, Target(w, q.g, q.m), i)
<1> DEFINE o == Opening(w, T, B)
           r == Target(w, q.g, q.m)
<1>1. IsChart(w) /\ w.prog = j.prog /\ w.main = j.main  BY DEF ChartOf
<1>2. o \in Trails(w) /\ r \in Regions(w.prog)  BY <1>1, OpeningTrail, WatchedRegion
<1>3. CASE Awaits(w, B) = "cond" /\ q = Around(B)
  <2> DEFINE g == Sub(w, q, "y")
  <2>1. g \in SubLists(w.prog) /\ g[1] = r /\ g[2] = "y"  BY <1>2 DEF Sub, SubLists
  <2>2. w.prog[r].op = "while"
    <3>1. Shuts(w, B) = "cond"  BY <1>1, <1>3, AwaitsIs DEF Parked
    <3> QED BY <1>3, <3>1 DEF Shuts, RegionOf
  <2>3. CASE FlagOf(w, q) \in T
    <3>1. o = Again(w, B, g, 1)  BY <1>3, <2>3 DEF Opening
    <3>2. Inner(o).g = g
      <4>1. Depth(B) # 1 /\ g \in Inside(w, Around(B)) /\ 1 \in Int  BY <1>1, <1>3, AwaitsIs DEF Parked
      <4> HIDE DEF g, o
      <4>2. Inner(Again(w, B, g, 1)) = Begun(w, g, 1)  BY <1>1, <4>1, AgainTrail
      <4> QED BY <3>1, <4>2 DEF Begun
    <3>3. D \in Tour(w, T, o)  OBVIOUS
    <3> HIDE DEF g, o, r
    <3>4. w.prog[g[1]].op = "while" /\ g[2] = "y"  BY <2>1, <2>2
    <3>5. Spares(w, g[1], i)  BY <1>2, <2>1, <3>2, <3>3, <3>4, FlagSpared
    <3> QED BY <2>1, <3>5 DEF r
  <2>4. CASE FlagOf(w, q) \notin T
    <3>1. o = Left(B)  BY <1>3, <2>4 DEF Opening
    <3>2. o.past  BY <3>1 DEF Left
    <3>3. D.past  BY <1>1, <1>2, <3>2, PastStays
    <3> QED BY <3>3 DEF AtTiles
  <2> QED BY <2>3, <2>4
<1>4. CASE \E A \in Tour(w, T, o) : Branches(w, A) /\ q = Inner(A)
  <2>1. PICK A \in Tour(w, T, o) : Branches(w, A) /\ q = Inner(A)  BY <1>4
  <2> DEFINE g == Sub(w, q, Side(T, FlagOf(w, q)))
  <2>2. A \in Trails(w)  BY <1>1, <1>2, TourOn
  <2>3. g \in SubLists(w.prog) /\ g[1] = r /\ g \in Inside(w, Inner(A))
    BY <1>2, <2>1 DEF Sub, SubLists, Side, Inside
  <2>4. w.prog[r].op = "if" /\ AtRegion(w, A)  BY <2>1 DEF Branches, RegionOf
  <2>5. Turn(w, T, A) = Onto(w, A.at, g, 2)  BY <2>1 DEF Turn
  <2>6. Turn(w, T, A) \in Trails(w) /\ D \in Tour(w, T, Turn(w, T, A))
    BY <1>1, <1>2, <2>1, <2>4, RegionBefore
  <2> HIDE DEF g
  <2>7. Inner(Turn(w, T, A)).g = g
    <3>1. Inner(Onto(w, A.at, g, 2)) = Begun(w, g, 2)
      <4>1. 2 \in Int  OBVIOUS
      <4> QED BY <1>1, <2>2, <2>3, <2>4, <4>1, EnterTrail
    <3> QED BY <2>5, <3>1 DEF Begun
  <2> HIDE DEF o, r
  <2> QED BY <2>3, <2>4, <2>6, <2>7, FlagSpared DEF r
<1> QED BY <1>3, <1>4 DEF Watched

\* What lane l may have in its log since it passed the barrier at B.
LogsFlag(w, T, B, x) ==
  \E q : Watched(w, T, B, q) /\ x.ins = FlagRead(FlagOf(w, q)) /\ x.t = 0

LogsTile(w, T, B, l, x) ==
  \E D \in Tour(w, T, Opening(w, T, B)) : \E i \in Nat :
    AtTiles(w, D) /\ RunsIn(w, l, Inner(D).g, Inner(D).m, i, x.t) /\ x.ins = w.prog[i]

Logs(w, T, B, l, x) == LogsFlag(w, T, B, x) \/ LogsTile(w, T, B, l, x)

LEMMA TilesPlace ==
  ASSUME NEW w, IsChart(w), NEW D \in Trails(w), AtTiles(w, D)
  PROVE  Inner(D).g \in w.lists /\ Inner(D).m \in 1 .. Count(w, Inner(D).g) /\ ~Steering(w, Inner(D).g, Inner(D).m)
<1>1. Inner(D) \in Places(w) /\ ~D.past /\ Inner(D).m \in 1 .. Count(w, Inner(D).g)
  BY TrailFacts DEF AtTiles
<1>2. Inner(D).g \in w.lists  BY <1>1 DEF Places
<1> QED BY <1>1, <1>2 DEF AtTiles

\* A lane's tile leaves the flags alone.
LEMMA TileSpares ==
  ASSUME NEW w, NEW j, NEW jb, ChartOf(w, j, jb), NEW T, NEW B \in Trails(w), NEW q, Watched(w, T, B, q),
         NEW l \in LaneIds, NEW x, LogsTile(w, T, B, l, x)
  PROVE  WritesAt(jb, x.ins, x.t) \cap ReadsAt(jb, FlagRead(FlagOf(w, q)), 0) = {}
<1>1. IsChart(w) /\ w.prog = j.prog /\ w.main = j.main  BY DEF ChartOf
<1>2. PICK D \in Tour(w, T, Opening(w, T, B)) : \E i \in Nat :
        AtTiles(w, D) /\ RunsIn(w, l, Inner(D).g, Inner(D).m, i, x.t) /\ x.ins = w.prog[i]
  BY DEF LogsTile
<1>3. PICK i \in Nat : AtTiles(w, D) /\ RunsIn(w, l, Inner(D).g, Inner(D).m, i, x.t) /\ x.ins = w.prog[i]
  BY <1>2
<1>4. D \in Trails(w)  BY <1>1, OpeningTrail, TourOn
<1> DEFINE g == Inner(D).g
           m == Inner(D).m
           r == Target(w, q.g, q.m)
           t == x.t
<1>5. g \in w.lists /\ m \in 1 .. Count(w, g) /\ ~Steering(w, g, m)
  <2>1. IsChart(w) /\ AtTiles(w, D)  BY <1>1, <1>3
  <2> QED BY ONLY <1>4, <2>1, TilesPlace
<1>6. i \in TasksOf(w, g, m)  BY <1>1, <1>3, <1>5, TaskRuns
<1>7. i \in Listed(w.prog, w.main, g)  BY <1>1, <1>5, <1>6, LevelIs DEF Busy
<1>8. Spares(w, r, i)  BY <1>3, <1>7, WatchedSpared
<1>9. r \in Regions(j.prog) /\ j.prog[r].op \in {"while", "if"}  BY <1>1, WatchedRegion DEF RegionOf
<1>10. RunsIn(w, l, g, m, i, t) /\ x.ins = j.prog[i]  BY <1>1, <1>3
<1>11. FlagOf(w, q) = j.prog[r].dst  BY <1>1 DEF FlagOf, RegionOf
<1>12. TimeOf(w)[r] = TimeOf(w)[i] /\ j.prog[r].dst \notin Writes(j.prog[i])  BY <1>1, <1>8 DEF Spares
<1> HIDE DEF g, m, r, t
<1>13. WritesAt(jb, j.prog[i], t) \cap ReadsAt(jb, FlagRead(j.prog[r].dst), 0) = {}
  BY <1>5, <1>9, <1>10, <1>12, FlagClear
<1> QED BY <1>10, <1>11, <1>13 DEF t

\* Two lanes that have passed the same barrier do not race.
LEMMA LogsClear ==
  ASSUME NEW w, NEW j, NEW jb, ChartOf(w, j, jb), Unviewed(j.prog), NEW T, NEW B \in Trails(w),
         NEW l \in LaneIds, NEW k \in LaneIds, l # k,
         NEW x, Logs(w, T, B, l, x), NEW y, Logs(w, T, B, k, y)
  PROVE  ClearOf(jb, x.ins, x.t, y.ins, y.t)
<1>1. IsChart(w) /\ w.prog = j.prog  BY DEF ChartOf
<1>2. CASE LogsFlag(w, T, B, x)
  <2>1. WritesAt(jb, x.ins, x.t) = {}  BY <1>2, FlagReadWrites DEF LogsFlag
  <2> QED BY <2>1 DEF ClearOf
<1>3. CASE LogsTile(w, T, B, l, x) /\ LogsFlag(w, T, B, y)
  <2>1. PICK q : Watched(w, T, B, q) /\ y.ins = FlagRead(FlagOf(w, q)) /\ y.t = 0  BY <1>3 DEF LogsFlag
  <2>2. WritesAt(jb, y.ins, y.t) = {}  BY <2>1, FlagReadWrites
  <2>3. WritesAt(jb, x.ins, x.t) \cap ReadsAt(jb, y.ins, y.t) = {}  BY <1>3, <2>1, TileSpares
  <2> QED BY <2>2, <2>3 DEF ClearOf
<1>4. CASE LogsTile(w, T, B, l, x) /\ LogsTile(w, T, B, k, y)
  <2>1. PICK D \in Tour(w, T, Opening(w, T, B)) : \E i \in Nat :
          AtTiles(w, D) /\ RunsIn(w, l, Inner(D).g, Inner(D).m, i, x.t) /\ x.ins = w.prog[i]
    BY <1>4 DEF LogsTile
  <2>2. PICK i \in Nat : AtTiles(w, D) /\ RunsIn(w, l, Inner(D).g, Inner(D).m, i, x.t) /\ x.ins = w.prog[i]
    BY <2>1
  <2>3. PICK E \in Tour(w, T, Opening(w, T, B)) : \E h \in Nat :
          AtTiles(w, E) /\ RunsIn(w, k, Inner(E).g, Inner(E).m, h, y.t) /\ y.ins = w.prog[h]
    BY <1>4 DEF LogsTile
  <2>4. PICK h \in Nat : AtTiles(w, E) /\ RunsIn(w, k, Inner(E).g, Inner(E).m, h, y.t) /\ y.ins = w.prog[h]
    BY <2>3
  <2>5. D = E  BY <1>1, <2>2, <2>4, OpeningTrail, OneTileLevel
  <2>6. D \in Trails(w)  BY <1>1, OpeningTrail, TourOn
  <2> DEFINE g == Inner(D).g
             m == Inner(D).m
             t == x.t
             u == y.t
  <2>7. g \in w.lists /\ m \in 1 .. Count(w, g) /\ ~Steering(w, g, m)
    <3>1. IsChart(w) /\ AtTiles(w, D)  BY <1>1, <2>2
    <3> QED BY ONLY <2>6, <3>1, TilesPlace
  <2>8. RunsIn(w, l, g, m, i, t) /\ RunsIn(w, k, g, m, h, u) /\ x.ins = j.prog[i] /\ y.ins = j.prog[h]
    BY <1>1, <2>2, <2>4, <2>5
  <2> HIDE DEF g, m, t, u
  <2>9. ClearOf(jb, j.prog[i], t, j.prog[h], u)  BY <2>7, <2>8, TilesClear
  <2> QED BY <2>8, <2>9 DEF t, u
<1> QED BY <1>2, <1>3, <1>4 DEF Logs
------------------------------------------------------------------------------
(* A lane of the megakernel *)

\* What a lane finds tells where it is.
LEMMA LaneSees ==
  ASSUME NEW w, IsChart(w), job.streams = w.streams, NEW l \in LaneIds, NEW A \in Trails(w),
         Fits(w, l, frames[l], A)
  PROVE  /\ Fetches(l, "tile") => AtTiles(w, A)
         /\ \A kind \in {"while", "for", "if"} : Fetches(l, kind) =>
              AtRegion(w, A) /\ RegionOf(w, Inner(A)).op = kind
         /\ Fetches(l, "barrier") => Awaits(w, A) = "barrier"
         /\ \A kinds : Closes(l, kinds) =>
              AtClose(w, A) /\ Depth(A) # 1 /\ RegionOf(w, Around(A)).op \in kinds
         /\ AtRegion(w, A) => Directs(w, l, Inner(A), Entry(l))
         /\ Depth(A) # 1 => Directs(w, l, Around(A), Owner(l))
         /\ Top(l).phase = Inner(A).ph
         /\ EntryOf(w, l, frames[l]) = Entry(l) /\ OwnerOf(w, l, frames[l]) = Owner(l)
<1> DEFINE s == frames[l]
<1>1. /\ Finds(w, l, s, A)
      /\ AtRoot(s) <=> Depth(A) = 1
      /\ Depth(A) # 1 => Directs(w, l, Around(A), w.streams[l][Last(s).widx])
  BY Sight
<1>2. Last(s).phase = Inner(A).ph  BY FitsTop DEF Framing
<1>3. Entry(l) = w.streams[l][Last(s).pc] /\ Owner(l) = w.streams[l][Last(s).widx]
  BY DEF Entry, Owner
<1>4. Top(l) = Last(s)  BY DEF Top
<1>5. \A kind : Fetches(l, kind) <=> ~AtEnd(s) /\ Entry(l).kind = kind  BY DEF Fetches
<1>6. \A kinds : Closes(l, kinds) <=> AtEnd(s) /\ ~AtRoot(s) /\ Owner(l).kind \in kinds  BY DEF Closes
<1>7. EntryOf(w, l, frames[l]) = Entry(l) /\ OwnerOf(w, l, frames[l]) = Owner(l)
  BY <1>3 DEF EntryOf, OwnerOf
<1> HIDE DEF s
<1>8. AtTiles(w, A) => Entry(l).kind = "tile"  BY <1>1, <1>3 DEF Finds
<1>9. AtRegion(w, A) => Directs(w, l, Inner(A), Entry(l)) /\ Entry(l).kind = RegionOf(w, Inner(A)).op
  BY <1>1, <1>3 DEF Finds, Directs
<1>10. AtRegion(w, A) => RegionOf(w, Inner(A)).op \in {"while", "for", "if"}
  <2> SUFFICES ASSUME AtRegion(w, A) PROVE RegionOf(w, Inner(A)).op \in {"while", "for", "if"}  OBVIOUS
  <2>1. Inner(A) \in Places(w) /\ Inner(A).m \in 1 .. Count(w, Inner(A).g) /\ Steering(w, Inner(A).g, Inner(A).m)
    BY TrailFacts DEF AtRegion
  <2> QED BY <2>1, RegionKinds
<1>11. ~AtTiles(w, A) /\ ~AtRegion(w, A) => A.past  BY TrailFacts DEF AtTiles, AtRegion
<1>12. A.past /\ ~AtEnd(s) => ~AtClose(w, A) /\ Entry(l).kind = "barrier"
  BY <1>1, <1>3 DEF Finds, Barrier
<1>13. A.past => ~AtTiles(w, A) /\ ~AtRegion(w, A)  BY DEF AtTiles, AtRegion
<1>14. Fetches(l, "tile") => AtTiles(w, A)  BY <1>5, <1>9, <1>10, <1>11, <1>12
<1>15. ASSUME NEW kind \in {"while", "for", "if"}, Fetches(l, kind)
       PROVE  AtRegion(w, A) /\ RegionOf(w, Inner(A)).op = kind
  BY <1>5, <1>8, <1>9, <1>11, <1>12, <1>15
<1>16. Fetches(l, "barrier") => Awaits(w, A) = "barrier"
  BY <1>5, <1>8, <1>9, <1>10, <1>11, <1>12, <1>13 DEF Awaits
<1>17. ASSUME NEW kinds, Closes(l, kinds)
       PROVE  AtClose(w, A) /\ Depth(A) # 1 /\ RegionOf(w, Around(A)).op \in kinds
  <2>1. AtClose(w, A) /\ Depth(A) # 1 /\ Owner(l).kind \in kinds  BY <1>1, <1>6, <1>17 DEF Finds
  <2> QED BY <1>1, <1>3, <2>1 DEF Directs
<1>18. Depth(A) # 1 => Directs(w, l, Around(A), Owner(l))  BY <1>1, <1>3
<1> QED BY <1>2, <1>4, <1>7, <1>9, <1>14, <1>15, <1>16, <1>17, <1>18

\* At the end of a loop's list it waits.
LEMMA LoopEnd ==
  ASSUME NEW w, NEW A, AtClose(w, A), Depth(A) # 1
  PROVE  /\ RegionOf(w, Around(A)).op = "if" => Awaits(w, A) = "on"
         /\ RegionOf(w, Around(A)).op = "for" => Awaits(w, A) = "for"
         /\ RegionOf(w, Around(A)).op = "while" => Awaits(w, A) = IF Inner(A).ph = 0 THEN "cond" ELSE "body"
BY DEF AtClose, AtTiles, AtRegion, Awaits, Shuts

\* A step of a lane on its own keeps it on its tour.
LEMMA TourStep ==
  ASSUME NEW w, IsChart(w), job.streams = w.streams, NEW T, NEW o \in Trails(w), NEW l \in LaneIds,
         NEW A \in Tour(w, T, o), Fits(w, l, frames[l], A)
  PROVE  /\ Fetches(l, "tile") => OnTour(w, T, o, l, Step(frames[l]))
         /\ Fetches(l, "while") => OnTour(w, T, o, l, Pushed(frames[l], Entry(l).x, 0))
         /\ Fetches(l, "for") =>
              OnTour(w, T, o, l, IF Entry(l).trips = 0 THEN Step(frames[l])
                                 ELSE Pushed(frames[l], Entry(l).y, Entry(l).trips))
         /\ Fetches(l, "if") =>
              /\ Branches(w, A) /\ Entry(l).flag = FlagOf(w, Inner(A))
              /\ OnTour(w, T, o, l, InBranch(frames[l], IF Entry(l).flag \in T THEN Entry(l).x ELSE Entry(l).y))
         /\ Closes(l, {"if"}) => OnTour(w, T, o, l, Popped(frames[l]))
<1> DEFINE s == frames[l]
           q == Inner(A)
<1>1. A \in Trails(w)  BY TourOn
<1>2. Awaits(w, A) = "on" => Turn(w, T, A) \in Tour(w, T, o)  BY TourOn
<1>3. AtRegion(w, A) => /\ Awaits(w, A) = "on" /\ ~AtTiles(w, A)
                        /\ RegionOf(w, q).op \in {"while", "for", "if"} /\ RegionOf(w, q).trips \in Nat
                        /\ Sub(w, q, "x") \in Inside(w, q) /\ Sub(w, q, "y") \in Inside(w, q)
                        /\ Entry(l).flag = RegionOf(w, q).dst /\ Entry(l).trips = RegionOf(w, q).trips
                        /\ Entry(l).x = Stretch(w, Sub(w, q, "x"), l) /\ Entry(l).y = Stretch(w, Sub(w, q, "y"), l)
  <2> SUFFICES ASSUME AtRegion(w, A)
               PROVE  /\ Awaits(w, A) = "on" /\ ~AtTiles(w, A)
                      /\ RegionOf(w, q).op \in {"while", "for", "if"} /\ RegionOf(w, q).trips \in Nat
                      /\ Sub(w, q, "x") \in Inside(w, q) /\ Sub(w, q, "y") \in Inside(w, q)
                      /\ Entry(l).flag = RegionOf(w, q).dst /\ Entry(l).trips = RegionOf(w, q).trips
                      /\ Entry(l).x = Stretch(w, Sub(w, q, "x"), l) /\ Entry(l).y = Stretch(w, Sub(w, q, "y"), l)
    OBVIOUS
  <2>1. q \in Places(w) /\ q.m \in 1 .. Count(w, q.g) /\ Steering(w, q.g, q.m)
    BY <1>1, TrailFacts DEF AtRegion
  <2>2. Directs(w, l, q, Entry(l))  BY <1>1, LaneSees
  <2>3. Awaits(w, A) = "on" /\ ~AtTiles(w, A)  BY DEF Awaits, AtTiles, AtRegion
  <2> HIDE DEF q
  <2>4. /\ RegionOf(w, q).op \in {"while", "for", "if"} /\ RegionOf(w, q).trips \in Nat
        /\ Sub(w, q, "x") \in Inside(w, q) /\ Sub(w, q, "y") \in Inside(w, q)
    BY <2>1, RegionKinds
  <2> QED BY <2>2, <2>3, <2>4 DEF Directs, Sub
<1>4. ASSUME Fetches(l, "tile") PROVE OnTour(w, T, o, l, Step(s))
  <2>1. AtTiles(w, A)  BY <1>1, <1>4, LaneSees
  <2>2. Lands(w, l, Step(s), A)  BY <1>1, <2>1, StepTile
  <2> QED BY <2>2, TourLands
<1>5. ASSUME Fetches(l, "while") PROVE OnTour(w, T, o, l, Pushed(s, Entry(l).x, 0))
  <2>1. AtRegion(w, A) /\ RegionOf(w, q).op = "while"  BY <1>1, <1>5, LaneSees
  <2>2. 0 \in Int  OBVIOUS
  <2>3. Lands(w, l, Pushed(s, Stretch(w, Sub(w, q, "x"), l), 0), Onto(w, A.at, Sub(w, q, "x"), 0))
    BY <1>1, <1>3, <2>1, <2>2, PushFits
  <2>4. Turn(w, T, A) = Onto(w, A.at, Sub(w, q, "x"), 0)  BY <1>3, <2>1 DEF Turn, Branches, Goal
  <2> HIDE DEF q, s
  <2>5. Lands(w, l, Pushed(s, Entry(l).x, 0), Turn(w, T, A))  BY <1>3, <2>1, <2>3, <2>4
  <2> QED BY <1>2, <1>3, <2>1, <2>5, TourLands
<1>6. ASSUME Fetches(l, "for")
      PROVE  OnTour(w, T, o, l, IF Entry(l).trips = 0 THEN Step(s) ELSE Pushed(s, Entry(l).y, Entry(l).trips))
  <2>1. AtRegion(w, A) /\ RegionOf(w, q).op = "for"  BY <1>1, <1>6, LaneSees
  <2>2. CASE RegionOf(w, q).trips = 0
    <3>1. Fits(w, l, Step(s), Passed(A))  BY <1>1, <2>1, StepOver
    <3>2. Turn(w, T, A) = Passed(A)  BY <1>3, <2>1, <2>2 DEF Turn, Branches, Goal
    <3> HIDE DEF s
    <3> QED BY <1>2, <1>3, <2>1, <2>2, <3>1, <3>2 DEF OnTour
  <2>3. CASE RegionOf(w, q).trips # 0
    <3> DEFINE n == RegionOf(w, q).trips
    <3>1. n \in Int  BY <1>3, <2>1
    <3>2. Turn(w, T, A) = Onto(w, A.at, Sub(w, q, "y"), n)  BY <1>3, <2>1, <2>3 DEF Turn, Branches, Goal
    <3> HIDE DEF n
    <3>3. Lands(w, l, Pushed(s, Stretch(w, Sub(w, q, "y"), l), n), Onto(w, A.at, Sub(w, q, "y"), n))
      BY <1>1, <1>3, <2>1, <3>1, PushFits
    <3> HIDE DEF q, s
    <3>4. Lands(w, l, Pushed(s, Entry(l).y, Entry(l).trips), Turn(w, T, A))
      BY <1>3, <2>1, <3>2, <3>3 DEF n
    <3>5. OnTour(w, T, o, l, Pushed(s, Entry(l).y, Entry(l).trips))  BY <1>2, <1>3, <2>1, <3>4, TourLands
    <3> QED BY <1>3, <2>1, <2>3, <3>5
  <2> QED BY <2>2, <2>3
<1>7. ASSUME Fetches(l, "if")
      PROVE  /\ Branches(w, A) /\ Entry(l).flag = FlagOf(w, q)
             /\ OnTour(w, T, o, l, InBranch(s, IF Entry(l).flag \in T THEN Entry(l).x ELSE Entry(l).y))
  <2>1. AtRegion(w, A) /\ RegionOf(w, q).op = "if" /\ Branches(w, A)  BY <1>1, <1>7, LaneSees DEF Branches
  <2>2. Entry(l).flag = FlagOf(w, q)  BY <1>3, <2>1 DEF FlagOf
  <2> DEFINE g == Sub(w, q, Side(T, FlagOf(w, q)))
  <2>3. g \in Inside(w, q) /\ (IF Entry(l).flag \in T THEN Entry(l).x ELSE Entry(l).y) = Stretch(w, g, l)
    BY <1>3, <2>1, <2>2 DEF Side
  <2>4. Turn(w, T, A) = Onto(w, A.at, g, 2)  BY <2>1 DEF Turn
  <2> HIDE DEF g
  <2>5. 2 \in Int  OBVIOUS
  <2>6. Onto(w, A.at, g, 2) \in Tour(w, T, o)  BY <1>2, <1>3, <2>1, <2>4
  <2>7. g \in w.lists  BY <1>1, <2>1, <2>3, <2>5, EnterTrail
  <2>8. CASE Stretch(w, g, l).len = 0
    <3>1. From(w, g, l) = To(w, g, l)  BY <2>7, <2>8, StretchIs
    <3>2. Fits(w, l, Step(s), Passed(A))  BY <1>1, <2>1, StepOver
    <3>3. Leaves(w, Tour(w, T, o))  BY TourLeaves
    <3>4. Passed(A) \in Tour(w, T, o)  BY <1>1, <2>1, <2>3, <2>5, <2>6, <3>1, <3>3, BranchSkipped
    <3>5. OnTour(w, T, o, l, Step(s))  BY <3>2, <3>4 DEF OnTour
    <3> HIDE DEF q, s
    <3> QED BY <2>1, <2>2, <2>3, <2>8, <3>5 DEF InBranch
  <2>9. CASE Stretch(w, g, l).len # 0
    <3>1. Lands(w, l, Pushed(s, Stretch(w, g, l), 2), Onto(w, A.at, g, 2))  BY <1>1, <2>1, <2>3, <2>5, PushFits
    <3> HIDE DEF q, s
    <3>2. OnTour(w, T, o, l, Pushed(s, Stretch(w, g, l), 2))  BY <2>6, <3>1, TourLands
    <3> QED BY <2>1, <2>2, <2>3, <2>9, <3>2 DEF InBranch
  <2> QED BY <2>8, <2>9
<1>8. ASSUME Closes(l, {"if"}) PROVE OnTour(w, T, o, l, Popped(s))
  <2>1. AtClose(w, A) /\ Depth(A) # 1 /\ RegionOf(w, Around(A)).op = "if"  BY <1>1, <1>8, LaneSees
  <2>2. Fits(w, l, Popped(s), Left(A))  BY <1>1, <2>1, PopFits
  <2>3. Left(A) \in Tour(w, T, o)  BY <2>1, TourLeaves DEF Leaves
  <2> QED BY <2>2, <2>3 DEF OnTour
<1> QED BY <1>4, <1>5, <1>6, <1>7, <1>8
------------------------------------------------------------------------------
(* Flags in the arena *)

\* Every buffer lies within the arena.
LEMMA ArenaCovers ==
  ASSUME NEW j, WellFormed(j), NEW b \in DOMAIN j.size, NEW jb, jb.size = j.size
  PROVE  ReuseArena(j)[b] + j.size[b] <= ArenaEnd(jb, ReuseArena(j)) /\ ArenaEnd(jb, ReuseArena(j)) \in Nat
<1> DEFINE D == DOMAIN j.size
           top(c) == ReuseArena(j)[c] + j.size[c]
           S == {0} \cup {top(c) : c \in D}
<1>1. \A c \in D : top(c) \in Nat
  <2> SUFFICES ASSUME NEW c \in D PROVE top(c) \in Nat  OBVIOUS
  <2>1. ReuseArena(j)[c] \in Nat /\ j.size[c] \in Nat  BY BufferPlace
  <2> QED BY <2>1
<1>2. IsFiniteSet(D)  BY DEF WellFormed, BufferForm
<1> HIDE DEF D
<1>3. PICK n \in Nat : \E f : f \in Bijection(1 .. n, D)  BY <1>2, FS_NatBijection DEF ExistsBijection
<1>4. PICK f : f \in Bijection(1 .. n, D)  BY <1>3
<1>5. f \in [1 .. n -> D] /\ \A c \in D : \E k \in 1 .. n : f[k] = c
  BY <1>4 DEF Bijection, Injection, Surjection
<1> HIDE DEF top
<1>6. [k \in 1 .. n |-> top(f[k])] \in [1 .. n -> Nat]  BY <1>1, <1>5
<1>7. PICK N \in Nat : \A k \in 1 .. n : [i \in 1 .. n |-> top(f[i])][k] <= N  BY <1>6, ListBounded
<1>8. \A c \in D : top(c) \in 0 .. N
  <2> SUFFICES ASSUME NEW c \in D PROVE top(c) \in 0 .. N  OBVIOUS
  <2>1. PICK k \in 1 .. n : f[k] = c  BY <1>5
  <2>2. top(c) \in Nat /\ top(c) <= N  BY <1>1, <1>7, <2>1
  <2> QED BY <2>2
<1>9. S \in SUBSET (0 .. N) /\ S # {} /\ \A c \in D : top(c) \in S  BY <1>8
<1> HIDE DEF S
<1>10. Max(S) \in S /\ \A x \in S : x <= Max(S)  BY <1>9, GreatestIs
<1>11. ArenaEnd(jb, ReuseArena(j)) = Max(S)  BY DEF ArenaEnd, S, top, D
<1>12. b \in D  BY DEF D
<1>13. Max(S) \in Nat /\ top(b) <= Max(S)
  <2>1. top(b) \in S /\ Max(S) \in 0 .. N  BY <1>9, <1>10, <1>12
  <2> QED BY <1>10, <2>1
<1> QED BY <1>11, <1>13 DEF top

\* mem is an arena of job jb.
Mapped(jb, mem) == DOMAIN mem = 0 .. ArenaEnd(jb, jb.at) - 1

\* A flag that is read has a place there.
LEMMA FlagPlace ==
  ASSUME NEW w, NEW j, NEW jb, ChartOf(w, j, jb), NEW T, NEW B \in Trails(w), NEW q, Watched(w, T, B, q),
         NEW mem, Mapped(jb, mem)
  PROVE  /\ FlagOf(w, q) \in DOMAIN j.size /\ jb.at[FlagOf(w, q)] \in DOMAIN mem
         /\ jb.at[FlagOf(w, q)] \in ReadsAt(jb, FlagRead(FlagOf(w, q)), 0)
<1> DEFINE r == Target(w, q.g, q.m)  c == j.prog[r].dst
<1>1. IsChart(w) /\ WellFormed(j) /\ w.prog = j.prog /\ jb.at = ReuseArena(j) /\ jb.size = j.size
  BY DEF ChartOf
<1>2. r \in Regions(j.prog) /\ j.prog[r].op \in {"while", "if"}  BY <1>1, WatchedRegion DEF RegionOf
<1>3. FlagOf(w, q) = c  BY <1>1 DEF FlagOf, RegionOf
<1> HIDE DEF r
<1>4. r \in 1 .. Len(j.prog) /\ c # NoBuf /\ c \in Writes(j.prog[r])
      /\ Reads(j.prog[r]) \cup Writes(j.prog[r]) \subseteq DOMAIN j.size /\ j.size[c] > 0
  BY <1>1, <1>2 DEF WellFormed, BufferForm, Regions, Writes
<1>5. c \in DOMAIN j.size  BY <1>4
<1> HIDE DEF c
<1>6. PICK a \in Nat, n \in Nat : a = ReuseArena(j)[c] /\ n = j.size[c]  BY <1>1, <1>5, BufferPlace
<1>7. PICK z \in Nat : z = ArenaEnd(jb, ReuseArena(j)) /\ a + n <= z  BY <1>1, <1>5, <1>6, ArenaCovers
<1>8. n > 0  BY <1>4, <1>6
<1>9. a \in 0 .. z - 1 /\ a \in a .. a + n - 1  BY <1>7, <1>8
<1>10. jb.at[c] \in DOMAIN mem  BY <1>1, <1>6, <1>7, <1>9 DEF Mapped
<1>11. ReadsAt(jb, FlagRead(c), 0) = jb.at[c] .. jb.at[c] + jb.size[c] - 1
  BY <1>4 DEF ReadsAt, FlagRead, Shaped, Compute, Spread, IsMap, Reads, NoBuf
<1>12. jb.at[c] \in ReadsAt(jb, FlagRead(c), 0)  BY <1>1, <1>6, <1>9, <1>11
<1> QED BY <1>3, <1>5, <1>10, <1>12

\* T are the flags that are true, as far as lanes read them.
FlagsHeld(w, T, B, jb, mem) ==
  \A q : Watched(w, T, B, q) => (Flag(jb.at, mem, FlagOf(w, q)) <=> FlagOf(w, q) \in T)

\* A lane's tile leaves them as they are.
LEMMA FlagsKept ==
  ASSUME NEW w, NEW j, NEW jb, ChartOf(w, j, jb), NEW T, NEW B \in Trails(w), NEW l \in LaneIds,
         NEW mem, Mapped(jb, mem), FlagsHeld(w, T, B, jb, mem),
         NEW x, LogsTile(w, T, B, l, x), x.ins.dst # NoBuf, x.ins.op # "nop"
  PROVE  /\ Mapped(jb, Stored(jb, mem, x.ins, x.t)) /\ FlagsHeld(w, T, B, jb, Stored(jb, mem, x.ins, x.t))
<1> DEFINE new == Stored(jb, mem, x.ins, x.t)  k == jb.at[x.ins.dst] + x.ins.off + x.t
<1>1. DOMAIN new = DOMAIN mem /\ \A a \in DOMAIN mem : a # k => new[a] = mem[a]  BY DEF Stored
<1>2. k \in WritesAt(jb, x.ins, x.t)  BY DEF WritesAt, Writes
<1> HIDE DEF new, k
<1>3. ASSUME NEW q, Watched(w, T, B, q)
      PROVE  Flag(jb.at, new, FlagOf(w, q)) <=> FlagOf(w, q) \in T
  <2>1. /\ jb.at[FlagOf(w, q)] \in DOMAIN mem
        /\ jb.at[FlagOf(w, q)] \in ReadsAt(jb, FlagRead(FlagOf(w, q)), 0)
    BY <1>3, FlagPlace
  <2>2. WritesAt(jb, x.ins, x.t) \cap ReadsAt(jb, FlagRead(FlagOf(w, q)), 0) = {}  BY <1>3, TileSpares
  <2>3. jb.at[FlagOf(w, q)] # k  BY <1>2, <2>1, <2>2
  <2>4. new[jb.at[FlagOf(w, q)]] = mem[jb.at[FlagOf(w, q)]]  BY <1>1, <2>1, <2>3
  <2>5. Flag(jb.at, mem, FlagOf(w, q)) <=> FlagOf(w, q) \in T  BY <1>3 DEF FlagsHeld
  <2> QED BY <2>4, <2>5 DEF Flag
<1>4. FlagsHeld(w, T, B, jb, new)  BY <1>3 DEF FlagsHeld
<1>5. Mapped(jb, new)  BY <1>1 DEF Mapped
<1> QED BY <1>4, <1>5 DEF new
------------------------------------------------------------------------------
(* Lanes at the barriers *)

LaneState(l) ==
  [frames |-> frames[l], tile |-> tile[l], mode |-> mode[l], log |-> log[l],
   arrived |-> arrived[l], passed |-> passed[l]]

\* Lane l, in state s, waits at the barrier at B, which is the e-th and which all have
\* arrived at.
Lags(w, e, B, l, s) ==
  /\ s.mode = "wait" /\ s.passed \in Nat /\ s.passed + 1 = e /\ s.arrived = e
  /\ s.tile = 0 /\ Parked(w, B) /\ Fits(w, l, s.frames, B)

\* It has passed it and has not gone on yet.
Crosses(w, e, B, l, s) ==
  /\ s.mode = "resume" /\ s.passed = e /\ s.arrived = e /\ s.log = {}
  /\ s.tile = 0 /\ Parked(w, B) /\ Fits(w, l, s.frames, B)

\* It is on its way to the next one, at trail A.
WayAt(w, e, l, s, A) ==
  /\ Fits(w, l, s.frames, A)
  /\ IF s.mode = "wait" THEN s.arrived = e + 1 /\ Parked(w, A)
     ELSE s.mode \in {"run", "done"} /\ s.arrived = e
  /\ s.tile \in Nat
  /\ s.tile # 0 => AtTiles(w, A) /\ EntryOf(w, l, s.frames).lo + s.tile < EntryOf(w, l, s.frames).hi

Tours(w, T, e, B, l, s) ==
  /\ s.passed = e
  /\ \E A \in Tour(w, T, Opening(w, T, B)) : WayAt(w, e, l, s, A)
  /\ \A x \in s.log : Logs(w, T, B, l, x)

Together(w, T, e, B, l, s) == Lags(w, e, B, l, s) \/ Crosses(w, e, B, l, s) \/ Tours(w, T, e, B, l, s)

\* Job jb, loaded from j, with its chart and arena: the e-th barrier is at B, and T are
\* the flags that are true since lanes passed it.
Stage(j, w, T, e, B, jb, mem) ==
  /\ j \in Jobs /\ jb = Loaded(j) /\ ChartOf(w, j, jb) /\ w.streams = jb.streams
  /\ e \in Nat /\ B \in Trails(w) /\ Mapped(jb, mem) /\ FlagsHeld(w, T, B, jb, mem)

VMTypes ==
  /\ DOMAIN frames = Lanes /\ DOMAIN tile = Lanes /\ DOMAIN mode = Lanes /\ DOMAIN log = Lanes
  /\ DOMAIN arrived = Lanes /\ DOMAIN passed = Lanes

\* The inductive invariant: all lanes are between two barriers of one walk through the
\* program, the last one that all have arrived at and the next.
VMInv ==
  /\ VMTypes
  /\ \E j, w, T, e, B : /\ Stage(j, w, T, e, B, job, arena)
                        /\ \A l \in Lanes : Together(w, T, e, B, l, LaneState(l))

TrueFlags(j, jb, mem) == {b \in DOMAIN j.size : Flag(jb.at, mem, b)}

LEMMA FlagsNew ==
  ASSUME NEW w, NEW j, NEW jb, ChartOf(w, j, jb), NEW B \in Trails(w), NEW mem, Mapped(jb, mem)
  PROVE  FlagsHeld(w, TrueFlags(j, jb, mem), B, jb, mem)
<1> DEFINE T == TrueFlags(j, jb, mem)
<1> SUFFICES ASSUME NEW q, Watched(w, T, B, q)
             PROVE  Flag(jb.at, mem, FlagOf(w, q)) <=> FlagOf(w, q) \in T
  BY DEF FlagsHeld
<1>1. FlagOf(w, q) \in DOMAIN j.size  BY FlagPlace
<1> QED BY <1>1 DEF TrueFlags

LEMMA LaneFields ==
  ASSUME NEW l
  PROVE  /\ LaneState(l).frames = frames[l] /\ LaneState(l).tile = tile[l] /\ LaneState(l).mode = mode[l]
         /\ LaneState(l).log = log[l] /\ LaneState(l).arrived = arrived[l] /\ LaneState(l).passed = passed[l]
BY DEF LaneState

LEMMA RootOpens ==
  ASSUME NEW w, IsChart(w), NEW T
  PROVE  RootTrail(w) \in Trails(w) /\ Opening(w, T, RootTrail(w)) = RootTrail(w)
<1> DEFINE o == RootTrail(w)
<1>1. o \in Trails(w)  BY RootLands
<1>2. o.past = (Count(w, RootList) = 0) /\ Depth(o) = 1 /\ Inner(o) = Begun(w, RootList, 0)
  BY DEF RootTrail, Depth, Inner, Last
<1>3. RootList \in w.lists  BY DEF IsChart, StreamsOf, KnownLists
<1>4. o.past => AtClose(w, o)
  <2>1. 0 \in Int  OBVIOUS
  <2>2. Inner(o).g = RootList /\ Inner(o).m = IF Count(w, RootList) = 0 THEN 0 ELSE 1
    BY <1>2, <1>3, <2>1, BegunPlace
  <2> HIDE DEF o
  <2> QED BY <1>2, <2>2 DEF AtClose
<1> HIDE DEF o
<1>5. ~o.past => AtTiles(w, o) \/ AtRegion(w, o)  BY DEF AtTiles, AtRegion
<1>6. Awaits(w, o) \in {"on", "done"}
  <2>1. CASE AtTiles(w, o) \/ AtRegion(w, o)  BY <2>1 DEF Awaits
  <2>2. CASE ~(AtTiles(w, o) \/ AtRegion(w, o))
    <3>1. o.past  BY <1>1, <1>5, <2>2, TrailFacts
    <3>2. AtClose(w, o)  BY <1>4, <3>1
    <3> QED BY <1>2, <2>2, <3>2 DEF Awaits
  <2> QED BY <2>1, <2>2
<1>7. Opening(w, T, o) = o  BY <1>6 DEF Opening
<1> QED BY <1>1, <1>7 DEF o

LEMMA VMStarts == ASSUME VMInit PROVE VMInv
<1>1. PICK j \in Jobs : job = Loaded(j) /\ arena = Filled(job, job.at)  BY DEF VMInit
<1>2. WellFormed(j) /\ Listing(j.prog, j.main)  BY JobsFormed, WellFormedListing
<1>3. /\ job.prog = j.prog /\ job.at = ReuseArena(j) /\ job.size = j.size
      /\ job.streams = ScheduleProgram(j.prog, j.main).streams
      /\ job.rootLens = ScheduleProgram(j.prog, j.main).rootLens
  BY <1>1 DEF Loaded
<1>4. PICK Z, pl : StreamsOf(j.prog, j.main, job.streams, job.rootLens, Z, pl)
  BY <1>2, <1>3, ProgramScheduled
<1> DEFINE w == [prog |-> j.prog, main |-> j.main, streams |-> job.streams, rootLens |-> job.rootLens,
                 lists |-> Z, spots |-> pl]
<1>5. /\ IsChart(w) /\ w.streams = job.streams /\ w.rootLens = job.rootLens /\ w.prog = j.prog
      /\ w.main = j.main
  BY <1>2, <1>4 DEF IsChart
<1> HIDE DEF w
<1>6. ChartOf(w, j, job)  BY <1>2, <1>3, <1>5 DEF ChartOf
<1> DEFINE T == TrueFlags(j, job, arena)  B == RootTrail(w)
<1>7. Mapped(job, arena)  BY <1>1 DEF Mapped, Filled
<1>8. B \in Trails(w) /\ Opening(w, T, B) = B  BY <1>5, RootOpens
<1>9. FlagsHeld(w, T, B, job, arena)  BY <1>6, <1>7, <1>8, FlagsNew
<1>10. Stage(j, w, T, 0, B, job, arena)  BY <1>1, <1>5, <1>6, <1>7, <1>8, <1>9 DEF Stage
<1>11. VMTypes  BY DEF VMInit, VMTypes, PB!Init
<1>12. ASSUME NEW l \in Lanes PROVE Together(w, T, 0, B, l, LaneState(l))
  <2>1. l \in LaneIds  BY DEF Lanes
  <2>2. LaneState(l).frames = RootWalk(w.rootLens[l])
    <3>1. frames = [k \in Lanes |-> RootWalk(job.rootLens[k])]  BY DEF VMInit
    <3>2. frames[l] = RootWalk(job.rootLens[l])  BY <3>1
    <3> QED BY <1>5, <3>2, LaneFields
  <2>3. /\ LaneState(l).tile = 0 /\ LaneState(l).mode = "run" /\ LaneState(l).log = {}
        /\ LaneState(l).arrived = 0 /\ LaneState(l).passed = 0
    BY LaneFields DEF VMInit, PB!Init
  <2> HIDE DEF T, B
  <2>4. Lands(w, l, LaneState(l).frames, B)  BY <1>5, <2>1, <2>2, RootLands DEF B
  <2>5. B \in Tour(w, T, B)  BY <1>5, <1>8, TourOn
  <2>6. OnTour(w, T, B, l, LaneState(l).frames)  BY <1>5, <1>8, <2>4, <2>5, TourLands
  <2>7. PICK A \in Tour(w, T, B) : Fits(w, l, LaneState(l).frames, A)  BY <2>6 DEF OnTour
  <2>8. WayAt(w, 0, l, LaneState(l), A)  BY <2>3, <2>7 DEF WayAt
  <2> QED BY <1>8, <2>3, <2>7, <2>8 DEF Together, Tours
<1> HIDE DEF T, B
<1> QED BY <1>10, <1>11, <1>12 DEF VMInv
------------------------------------------------------------------------------
(* Steps of the lanes *)

AllTogether(w, T, e, B) == \A l \in Lanes : Together(w, T, e, B, l, LaneState(l))

\* A step of lane l is no other lane's.
Others(l) == \A k \in Lanes \ {l} : LaneState(k)' = LaneState(k)

LEMMA OneLane ==
  ASSUME VMTypes, NEW l \in Lanes, LaneStep(l)
  PROVE  VMTypes' /\ Others(l) /\ job' = job
<1> DEFINE Same(f, g) == DOMAIN g = DOMAIN f /\ \A k \in Lanes \ {l} : g[k] = f[k]
<1> USE DEF VMTypes
<1>1. Same(frames, frames')
  BY DEF LaneStep, RunTile, EnterWhile, EnterFor, EnterIf, BranchDone, Arrive, Pass, StepBarrier, IterateFor,
         TestWhile, RepeatWhile, Finish, Control
<1>2. Same(tile, tile')
  BY DEF LaneStep, RunTile, EnterWhile, EnterFor, EnterIf, BranchDone, Arrive, Pass, StepBarrier, IterateFor,
         TestWhile, RepeatWhile, Finish, Control
<1>3. Same(mode, mode')
  BY DEF LaneStep, RunTile, EnterWhile, EnterFor, EnterIf, BranchDone, Arrive, Pass, StepBarrier, IterateFor,
         TestWhile, RepeatWhile, Finish, Control, Resumes
<1>4. Same(log, log')
  BY DEF LaneStep, RunTile, EnterWhile, EnterFor, EnterIf, BranchDone, Arrive, Pass, StepBarrier, IterateFor,
         TestWhile, RepeatWhile, Finish, Control, Touched
<1>5. Same(arrived, arrived') /\ Same(passed, passed')
  BY DEF LaneStep, RunTile, EnterWhile, EnterFor, EnterIf, BranchDone, Arrive, Pass, StepBarrier, IterateFor,
         TestWhile, RepeatWhile, Finish, Control, barrierVars, PB!Arrive, PB!Pass
<1>6. job' = job
  BY DEF LaneStep, RunTile, EnterWhile, EnterFor, EnterIf, BranchDone, Arrive, Pass, StepBarrier, IterateFor,
         TestWhile, RepeatWhile, Finish, Control
<1>7. VMTypes'  BY <1>1, <1>2, <1>3, <1>4, <1>5
<1>8. Others(l)  BY <1>1, <1>2, <1>3, <1>4, <1>5 DEF Others, LaneState
<1> QED BY <1>6, <1>7, <1>8

LEMMA LaneMoved ==
  ASSUME VMTypes, NEW l \in Lanes, LaneStep(l), NEW j, NEW w, NEW T, NEW e, NEW B,
         Stage(j, w, T, e, B, job, arena'), AllTogether(w, T, e, B), Together(w, T, e, B, l, LaneState(l)')
  PROVE  VMInv'
<1>1. VMTypes' /\ Others(l) /\ job' = job  BY OneLane
<1>2. ASSUME NEW k \in Lanes PROVE Together(w, T, e, B, k, LaneState(k)')
  <2>1. CASE k = l  BY <2>1
  <2>2. CASE k # l
    <3>1. LaneState(k)' = LaneState(k)  BY <1>1, <2>2 DEF Others
    <3>2. Together(w, T, e, B, k, LaneState(k))  BY DEF AllTogether
    <3> QED BY <3>1, <3>2
  <2> QED BY <2>1, <2>2
<1>3. Stage(j, w, T, e, B, job', arena')  BY <1>1
<1> QED BY <1>1, <1>2, <1>3 DEF VMInv

LEMMA StageFacts ==
  ASSUME NEW j, NEW w, NEW T, NEW e, NEW B, NEW jb, NEW mem, Stage(j, w, T, e, B, jb, mem)
  PROVE  /\ IsChart(w) /\ ChartOf(w, j, jb) /\ jb.streams = w.streams /\ w.prog = jb.prog /\ w.prog = j.prog
         /\ e \in Nat /\ B \in Trails(w) /\ Opening(w, T, B) \in Trails(w)
         /\ Tour(w, T, Opening(w, T, B)) \subseteq Trails(w)
<1>1. /\ IsChart(w) /\ ChartOf(w, j, jb) /\ jb.streams = w.streams /\ w.prog = jb.prog /\ w.prog = j.prog
      /\ e \in Nat /\ B \in Trails(w)
  BY DEF Stage, ChartOf
<1>2. Opening(w, T, B) \in Trails(w)  BY <1>1, OpeningTrail
<1>3. Tour(w, T, Opening(w, T, B)) \subseteq Trails(w)  BY <1>1, <1>2, TourOn
<1> QED BY <1>1, <1>2, <1>3

LEMMA LaneRuns ==
  ASSUME NEW w, NEW T, NEW e, NEW B, NEW l, Together(w, T, e, B, l, LaneState(l)), Running(l)
  PROVE  /\ passed[l] = e /\ arrived[l] = e /\ \A x \in log[l] : Logs(w, T, B, l, x)
         /\ \E A \in Tour(w, T, Opening(w, T, B)) : WayAt(w, e, l, LaneState(l), A)
<1>1. LaneState(l).mode = "run"  BY LaneFields DEF Running
<1>2. Tours(w, T, e, B, l, LaneState(l))  BY <1>1 DEF Together, Lags, Crosses
<1>3. PICK A \in Tour(w, T, Opening(w, T, B)) : WayAt(w, e, l, LaneState(l), A)  BY <1>2 DEF Tours
<1>4. arrived[l] = e  BY <1>1, <1>3, LaneFields DEF WayAt
<1> QED BY <1>2, <1>3, <1>4, LaneFields DEF Tours

LEMMA LaneResumes ==
  ASSUME NEW w, NEW T, NEW e, NEW B, NEW l, Together(w, T, e, B, l, LaneState(l)), mode[l] = "resume"
  PROVE  /\ passed[l] = e /\ arrived[l] = e /\ log[l] = {} /\ tile[l] = 0 /\ Parked(w, B) /\ Fits(w, l, frames[l], B)
<1>1. LaneState(l).mode = "resume"  BY LaneFields
<1>2. Crosses(w, e, B, l, LaneState(l))  BY <1>1 DEF Together, Lags, Tours, WayAt
<1> QED BY <1>2, LaneFields DEF Crosses

\* Lane l goes on, on its tour.
LEMMA LaneGoes ==
  ASSUME VMTypes, NEW l \in Lanes, LaneStep(l), NEW j, NEW w, NEW T, NEW e, NEW B,
         Stage(j, w, T, e, B, job, arena'), AllTogether(w, T, e, B),
         passed[l] = e, arrived[l] = e, \A x \in log[l] : Logs(w, T, B, l, x),
         OnTour(w, T, Opening(w, T, B), l, frames'[l]), mode'[l] = "run", tile'[l] = 0,
         arrived'[l] = arrived[l], passed'[l] = passed[l],
         \A x \in log'[l] : x \in log[l] \/ Logs(w, T, B, l, x)
  PROVE  VMInv'
<1> DEFINE s == LaneState(l)'
<1>1. /\ s.frames = frames'[l] /\ s.tile = tile'[l] /\ s.mode = mode'[l] /\ s.log = log'[l]
      /\ s.arrived = arrived'[l] /\ s.passed = passed'[l]
  BY DEF LaneState
<1> HIDE DEF s
<1>2. PICK A \in Tour(w, T, Opening(w, T, B)) : Fits(w, l, frames'[l], A)  BY DEF OnTour
<1>3. WayAt(w, e, l, s, A)  BY <1>1, <1>2 DEF WayAt
<1>4. Tours(w, T, e, B, l, s)  BY <1>1, <1>3 DEF Tours
<1>5. Together(w, T, e, B, l, LaneState(l)')  BY <1>4 DEF Together, s
<1> QED BY <1>5, LaneMoved

\* A control entry or the end of a branch.
LEMMA ControlGoes ==
  ASSUME VMTypes, NEW l \in Lanes, EnterWhile(l) \/ EnterFor(l) \/ BranchDone(l),
         NEW j, NEW w, NEW T, NEW e, NEW B, Stage(j, w, T, e, B, job, arena), AllTogether(w, T, e, B)
  PROVE  VMInv'
<1> DEFINE o == Opening(w, T, B)
<1>1. Running(l) /\ l \in LaneIds  BY DEF EnterWhile, EnterFor, BranchDone, Lanes
<1>2. IsChart(w) /\ job.streams = w.streams /\ o \in Trails(w) /\ Tour(w, T, o) \subseteq Trails(w)
  BY StageFacts
<1>3. Together(w, T, e, B, l, LaneState(l))  BY DEF AllTogether
<1>4. /\ passed[l] = e /\ arrived[l] = e /\ \A x \in log[l] : Logs(w, T, B, l, x)
      /\ \E A \in Tour(w, T, o) : WayAt(w, e, l, LaneState(l), A)
  BY <1>1, <1>3, LaneRuns
<1>5. PICK A \in Tour(w, T, o) : WayAt(w, e, l, LaneState(l), A)  BY <1>4
<1>6. A \in Trails(w) /\ Fits(w, l, frames[l], A) /\ (tile[l] # 0 => AtTiles(w, A))
  BY <1>2, <1>5, LaneFields DEF WayAt
<1>7. /\ Fetches(l, "while") => AtRegion(w, A)
      /\ Fetches(l, "for") => AtRegion(w, A)
      /\ Closes(l, {"if"}) => AtClose(w, A)
  BY <1>1, <1>2, <1>6, LaneSees
<1>8. tile[l] = 0
  BY <1>6, <1>7 DEF EnterWhile, EnterFor, BranchDone, AtTiles, AtRegion, AtClose
<1>9. OnTour(w, T, o, l, frames'[l])
  <2>1. /\ Fetches(l, "while") => OnTour(w, T, o, l, Pushed(frames[l], Entry(l).x, 0))
        /\ Fetches(l, "for") =>
              OnTour(w, T, o, l, IF Entry(l).trips = 0 THEN Step(frames[l])
                                 ELSE Pushed(frames[l], Entry(l).y, Entry(l).trips))
        /\ Closes(l, {"if"}) => OnTour(w, T, o, l, Popped(frames[l]))
    BY <1>1, <1>2, <1>6, TourStep
  <2> HIDE DEF o
  <2>2. CASE EnterWhile(l)  BY <2>1, <2>2 DEF EnterWhile, Control, VMTypes
  <2>3. CASE EnterFor(l)  BY <2>1, <2>3 DEF EnterFor, Control, VMTypes
  <2>4. CASE BranchDone(l)  BY <2>1, <2>4 DEF BranchDone, Control, VMTypes
  <2> QED BY <2>2, <2>3, <2>4
<1>10. /\ tile' = tile /\ mode' = mode /\ log' = log /\ arrived' = arrived /\ passed' = passed /\ arena' = arena
  BY DEF EnterWhile, EnterFor, BranchDone, Control, barrierVars
<1>11. LaneStep(l) /\ mode'[l] = "run"  BY <1>1, <1>10 DEF LaneStep, Running
<1>12. Stage(j, w, T, e, B, job, arena')  BY <1>10
<1> QED BY <1>4, <1>8, <1>9, <1>10, <1>11, <1>12, LaneGoes

\* A branch, taken as its flag says.
LEMMA IfGoes ==
  ASSUME VMTypes, NEW l \in Lanes, EnterIf(l),
         NEW j, NEW w, NEW T, NEW e, NEW B, Stage(j, w, T, e, B, job, arena), AllTogether(w, T, e, B)
  PROVE  VMInv'
<1> DEFINE o == Opening(w, T, B)
<1>1. Running(l) /\ Fetches(l, "if") /\ l \in LaneIds  BY DEF EnterIf, Lanes
<1>2. IsChart(w) /\ job.streams = w.streams /\ o \in Trails(w) /\ Tour(w, T, o) \subseteq Trails(w)
  BY StageFacts
<1>3. Together(w, T, e, B, l, LaneState(l))  BY DEF AllTogether
<1>4. /\ passed[l] = e /\ arrived[l] = e /\ \A x \in log[l] : Logs(w, T, B, l, x)
      /\ \E A \in Tour(w, T, o) : WayAt(w, e, l, LaneState(l), A)
  BY <1>1, <1>3, LaneRuns
<1>5. PICK A \in Tour(w, T, o) : WayAt(w, e, l, LaneState(l), A)  BY <1>4
<1>6. A \in Trails(w) /\ Fits(w, l, frames[l], A) /\ (tile[l] # 0 => AtTiles(w, A))
  BY <1>2, <1>5, LaneFields DEF WayAt
<1>7. /\ Branches(w, A) /\ Entry(l).flag = FlagOf(w, Inner(A))
      /\ OnTour(w, T, o, l, InBranch(frames[l], IF Entry(l).flag \in T THEN Entry(l).x ELSE Entry(l).y))
  BY <1>1, <1>2, <1>6, TourStep
<1>8. tile[l] = 0  BY <1>6, <1>7 DEF Branches, AtTiles, AtRegion
<1>9. Watched(w, T, B, Inner(A))  BY <1>7 DEF Watched
<1>10. Flag(job.at, arena, Entry(l).flag) <=> Entry(l).flag \in T
  BY <1>7, <1>9 DEF Stage, FlagsHeld
<1>11. /\ frames'[l] = InBranch(frames[l], IF Flag(job.at, arena, Entry(l).flag) THEN Entry(l).x ELSE Entry(l).y)
       /\ log'[l] = log[l] \cup {[ins |-> FlagRead(Entry(l).flag), t |-> 0]}
       /\ tile' = tile /\ mode' = mode /\ arrived' = arrived /\ passed' = passed /\ arena' = arena
  BY DEF EnterIf, Control, Touched, InBranch, VMTypes, barrierVars
<1>12. OnTour(w, T, o, l, frames'[l])  BY <1>7, <1>10, <1>11
<1>13. ASSUME NEW x \in log'[l] PROVE x \in log[l] \/ Logs(w, T, B, l, x)
  <2>1. CASE x \in log[l]  BY <2>1
  <2>2. CASE x = [ins |-> FlagRead(Entry(l).flag), t |-> 0]
    <3>1. x.ins = FlagRead(FlagOf(w, Inner(A))) /\ x.t = 0  BY <1>7, <2>2
    <3> QED BY <1>9, <3>1 DEF Logs, LogsFlag
  <2> QED BY <1>11, <2>1, <2>2
<1>14. LaneStep(l) /\ mode'[l] = "run"  BY <1>1, <1>11 DEF LaneStep, Running
<1>15. Stage(j, w, T, e, B, job, arena')  BY <1>11
<1> HIDE DEF o
<1> QED BY <1>4, <1>8, <1>11, <1>12, <1>13, <1>14, <1>15, LaneGoes DEF o

\* The tile a lane is about to run.
LEMMA TileAhead ==
  ASSUME NEW w, IsChart(w), job.streams = w.streams, NEW T, NEW B \in Trails(w), NEW l \in LaneIds,
         NEW A \in Tour(w, T, Opening(w, T, B)), Fits(w, l, frames[l], A), AtTiles(w, A),
         tile[l] \in Nat, tile[l] # 0 => Entry(l).lo + tile[l] < Entry(l).hi
  PROVE  /\ Entry(l).lo \in Nat /\ Entry(l).hi \in Nat
         /\ Entry(l).lo + tile[l] < Entry(l).hi
         /\ \A x : x.ins = w.prog[Entry(l).task] /\ x.t = Entry(l).lo + tile[l] => LogsTile(w, T, B, l, x)
         /\ w.prog[Entry(l).task].op \in {"ew", "shaped"}
         /\ Entry(l).task \in 1 .. Len(w.prog)
<1> DEFINE g == Inner(A).g  m == Inner(A).m
           pc == Last(frames[l]).pc
<1>1. A \in Trails(w)  BY OpeningTrail, TourOn
<1>2. g \in w.lists /\ m \in 1 .. Count(w, g) /\ ~Steering(w, g, m)  BY <1>1, TilesPlace
<1>3. Entry(l) = w.streams[l][pc]  BY DEF Entry
<1>4. Pos(w, g, m, l) <= pc /\ pc < Beyond(w, g, m, l) /\ pc \in Nat
  BY <1>1, FitsTop DEF Fits, TopFits, AtTiles, SpotOf, Frames
<1> HIDE DEF g, m, pc
<1>5. /\ Entry(l).kind = "tile" /\ Entry(l).task \in TasksOf(w, g, m)
      /\ Entry(l).lo \in Nat /\ Entry(l).hi \in Nat /\ Entry(l).lo < Entry(l).hi
  BY <1>2, <1>3, <1>4, EntryRuns
<1>6. Entry(l).lo + tile[l] < Entry(l).hi /\ Entry(l).lo + tile[l] \in Nat
      /\ Entry(l).lo <= Entry(l).lo + tile[l]
  BY <1>5
<1>7. Runs(Entry(l), Entry(l).task, Entry(l).lo + tile[l])  BY <1>5, <1>6 DEF Runs
<1>8. RunsIn(w, l, g, m, Entry(l).task, Entry(l).lo + tile[l])
  BY <1>3, <1>4, <1>6, <1>7 DEF RunsIn
<1>9. Entry(l).task \in 1 .. Len(w.prog) /\ Entry(l).task \in Nat
  BY <1>2, <1>5, LevelIs DEF Free, IsChart, Listing
<1>10. ASSUME NEW x, x.ins = w.prog[Entry(l).task], x.t = Entry(l).lo + tile[l]
       PROVE  LogsTile(w, T, B, l, x)
  BY <1>8, <1>9, <1>10 DEF LogsTile, g, m
<1>11. w.prog[Entry(l).task].op \in {"ew", "shaped"}
  <2>1. Entry(l).task \in Busy(w.prog, Listed(w.prog, w.main, g)) /\ ~IsRegion(w.prog[Entry(l).task])
    BY <1>2, <1>5, LevelIs
  <2>2. InsForm(w.prog[Entry(l).task])  BY <1>9 DEF IsChart, Listing
  <2> QED BY <2>1, <2>2 DEF InsForm, Busy, IsRegion
<1> QED BY <1>5, <1>6, <1>9, <1>10, <1>11

\* A lane runs a tile, perhaps the last of its entry.
LEMMA TileGoes ==
  ASSUME VMTypes, NEW l \in Lanes, RunTile(l),
         NEW j, NEW w, NEW T, NEW e, NEW B, Stage(j, w, T, e, B, job, arena), AllTogether(w, T, e, B)
  PROVE  VMInv'
<1> DEFINE o == Opening(w, T, B)
           ins == job.prog[Entry(l).task]
           t == Entry(l).lo + tile[l]
           x == [ins |-> ins, t |-> t]
<1>1. Running(l) /\ Fetches(l, "tile") /\ l \in LaneIds /\ LaneStep(l)  BY DEF RunTile, LaneStep, Lanes
<1>2. /\ IsChart(w) /\ ChartOf(w, j, job) /\ job.streams = w.streams /\ w.prog = job.prog /\ w.prog = j.prog
      /\ e \in Nat /\ B \in Trails(w) /\ o \in Trails(w) /\ Tour(w, T, o) \subseteq Trails(w)
  BY StageFacts
<1>3. Together(w, T, e, B, l, LaneState(l))  BY DEF AllTogether
<1>4. /\ passed[l] = e /\ arrived[l] = e /\ \A y \in log[l] : Logs(w, T, B, l, y)
      /\ \E A \in Tour(w, T, o) : WayAt(w, e, l, LaneState(l), A)
  BY <1>1, <1>3, LaneRuns
<1>5. PICK A \in Tour(w, T, o) : WayAt(w, e, l, LaneState(l), A)  BY <1>4
<1>6. /\ A \in Trails(w) /\ Fits(w, l, frames[l], A) /\ tile[l] \in Nat
      /\ tile[l] # 0 => EntryOf(w, l, frames[l]).lo + tile[l] < EntryOf(w, l, frames[l]).hi
  BY <1>2, <1>5, LaneFields DEF WayAt
<1>7. AtTiles(w, A) /\ EntryOf(w, l, frames[l]) = Entry(l)  BY <1>1, <1>2, <1>6, LaneSees
<1>8. /\ Entry(l).lo \in Nat /\ Entry(l).hi \in Nat /\ Entry(l).task \in 1 .. Len(w.prog) /\ t < Entry(l).hi
      /\ LogsTile(w, T, B, l, x) /\ ins.op \in {"ew", "shaped"}
  <2>1. tile[l] # 0 => Entry(l).lo + tile[l] < Entry(l).hi  BY <1>6, <1>7
  <2>2. /\ Entry(l).lo \in Nat /\ Entry(l).hi \in Nat /\ Entry(l).task \in 1 .. Len(w.prog)
        /\ Entry(l).lo + tile[l] < Entry(l).hi /\ w.prog[Entry(l).task].op \in {"ew", "shaped"}
        /\ \A y : y.ins = w.prog[Entry(l).task] /\ y.t = Entry(l).lo + tile[l] => LogsTile(w, T, B, l, y)
    BY <1>1, <1>2, <1>6, <1>7, <2>1, TileAhead
  <2>3. x.ins = w.prog[Entry(l).task] /\ x.t = Entry(l).lo + tile[l]  BY <1>2
  <2> HIDE DEF x
  <2> QED BY <1>2, <2>2, <2>3
<1>9. /\ arena' = Stored(job, arena, ins, t) /\ log'[l] = log[l] \cup {x}
      /\ tile'[l] = IF t + 1 = Entry(l).hi THEN 0 ELSE tile[l] + 1
      /\ frames'[l] = IF t + 1 = Entry(l).hi THEN Step(frames[l]) ELSE frames[l]
      /\ mode' = mode /\ arrived' = arrived /\ passed' = passed
  BY DEF RunTile, Touched, VMTypes, barrierVars
<1>10. Stage(j, w, T, e, B, job, arena')
  <2>1. WellFormed(j) /\ x.ins = ins /\ x.t = t  BY <1>2 DEF ChartOf
  <2>2. ins.dst # NoBuf /\ ins.op # "nop"
    BY <1>2, <1>8, <2>1 DEF WellFormed, BufferForm
  <2>3. Mapped(job, arena) /\ FlagsHeld(w, T, B, job, arena)  BY DEF Stage
  <2> HIDE DEF x, ins, t, o
  <2>4. /\ Mapped(job, Stored(job, arena, x.ins, x.t))
        /\ FlagsHeld(w, T, B, job, Stored(job, arena, x.ins, x.t))
    BY <1>1, <1>2, <1>8, <2>1, <2>2, <2>3, FlagsKept
  <2>5. Mapped(job, arena') /\ FlagsHeld(w, T, B, job, arena')  BY <1>9, <2>1, <2>4
  <2> QED BY <2>5 DEF Stage
<1>11. \A y \in log'[l] : y \in log[l] \/ Logs(w, T, B, l, y)  BY <1>8, <1>9 DEF Logs
<1>12. mode'[l] = "run" /\ arrived'[l] = arrived[l] /\ passed'[l] = passed[l]  BY <1>1, <1>9 DEF Running
<1>13. CASE t + 1 = Entry(l).hi
  <2>1. OnTour(w, T, o, l, Step(frames[l]))  BY <1>1, <1>2, <1>6, TourStep
  <2>2. frames'[l] = Step(frames[l]) /\ tile'[l] = 0  BY <1>9, <1>13
  <2>3. OnTour(w, T, o, l, frames'[l])  BY <2>1, <2>2
  <2> HIDE DEF o, x, ins, t
  <2> QED BY <1>1, <1>4, <1>10, <1>11, <1>12, <2>2, <2>3, LaneGoes DEF o
<1>14. CASE t + 1 # Entry(l).hi
  <2> DEFINE s == LaneState(l)'
  <2>1. /\ s.frames = frames'[l] /\ s.tile = tile'[l] /\ s.mode = mode'[l] /\ s.log = log'[l]
        /\ s.arrived = arrived'[l] /\ s.passed = passed'[l]
    BY DEF LaneState
  <2> HIDE DEF s
  <2>2. s.frames = frames[l] /\ s.tile = tile[l] + 1  BY <1>9, <1>14, <2>1
  <2>3. Entry(l).lo + s.tile < Entry(l).hi /\ s.tile \in Nat
    <3> HIDE DEF x, ins
    <3> QED BY <1>6, <1>8, <1>14, <2>2
  <2>4. WayAt(w, e, l, s, A)
    <3>1. Fits(w, l, s.frames, A) /\ EntryOf(w, l, s.frames) = Entry(l)  BY <1>6, <1>7, <2>2
    <3>2. s.mode = "run" /\ s.arrived = e  BY <1>4, <1>12, <2>1
    <3> QED BY <1>7, <2>3, <3>1, <3>2 DEF WayAt
  <2>5. \A y \in s.log : Logs(w, T, B, l, y)  BY <1>4, <1>11, <2>1
  <2>6. Tours(w, T, e, B, l, s)  BY <1>4, <1>12, <2>1, <2>4, <2>5 DEF Tours
  <2>7. Together(w, T, e, B, l, LaneState(l)')  BY <2>6 DEF Together, s
  <2> HIDE DEF o, x, ins, t
  <2> QED BY <1>1, <1>10, <2>7, LaneMoved
<1> QED BY <1>13, <1>14

\* It comes to the end of the root, or to a barrier.
LEMMA FinishGoes ==
  ASSUME VMTypes, NEW l \in Lanes, Finish(l) \/ Arrive(l),
         NEW j, NEW w, NEW T, NEW e, NEW B, Stage(j, w, T, e, B, job, arena), AllTogether(w, T, e, B)
  PROVE  VMInv'
<1> DEFINE o == Opening(w, T, B)
<1>1. Running(l) /\ l \in LaneIds /\ LaneStep(l)  BY DEF Finish, Arrive, LaneStep, Lanes
<1>2. IsChart(w) /\ job.streams = w.streams /\ o \in Trails(w) /\ Tour(w, T, o) \subseteq Trails(w) /\ e \in Nat
  BY StageFacts
<1>3. Together(w, T, e, B, l, LaneState(l))  BY DEF AllTogether
<1>4. /\ passed[l] = e /\ arrived[l] = e /\ \A y \in log[l] : Logs(w, T, B, l, y)
      /\ \E A \in Tour(w, T, o) : WayAt(w, e, l, LaneState(l), A)
  BY <1>1, <1>3, LaneRuns
<1>5. PICK A \in Tour(w, T, o) : WayAt(w, e, l, LaneState(l), A)  BY <1>4
<1>6. /\ A \in Trails(w) /\ Fits(w, l, frames[l], A) /\ tile[l] \in Nat
      /\ tile[l] # 0 => AtTiles(w, A) /\ EntryOf(w, l, frames[l]).lo + tile[l] < EntryOf(w, l, frames[l]).hi
  BY <1>2, <1>5, LaneFields DEF WayAt
<1> DEFINE s == LaneState(l)'
<1>7. /\ s.frames = frames'[l] /\ s.tile = tile'[l] /\ s.mode = mode'[l] /\ s.log = log'[l]
      /\ s.arrived = arrived'[l] /\ s.passed = passed'[l]
  BY DEF LaneState
<1> HIDE DEF s, o
<1>8. frames' = frames /\ tile' = tile /\ log' = log /\ passed' = passed /\ arena' = arena
  BY DEF Finish, Arrive, PB!Arrive, barrierVars
<1>9. IF s.mode = "wait" THEN s.arrived = e + 1 /\ Parked(w, A) ELSE s.mode \in {"run", "done"} /\ s.arrived = e
  <2>1. CASE Finish(l)
    <3>1. mode'[l] = "done" /\ arrived' = arrived  BY <2>1 DEF Finish, VMTypes, barrierVars
    <3> QED BY <1>4, <1>7, <3>1
  <2>2. CASE Arrive(l)
    <3>1. mode'[l] = "wait" /\ arrived'[l] = e + 1  BY <1>4, <2>2 DEF Arrive, VMTypes, PB!Arrive
    <3>2. CASE Fetches(l, "barrier")
      <4>1. Awaits(w, A) = "barrier"  BY <1>1, <1>2, <1>6, <3>2, LaneSees
      <4>2. Parked(w, A)  BY <4>1 DEF Parked
      <4> QED BY <1>7, <3>1, <4>2
    <3>3. CASE Closes(l, {"while", "for"})
      <4>1. AtClose(w, A) /\ Depth(A) # 1 /\ RegionOf(w, Around(A)).op \in {"while", "for"}
        BY <1>1, <1>2, <1>6, <3>3, LaneSees
      <4>2. Awaits(w, A) \in {"for", "cond", "body"}  BY <4>1, LoopEnd
      <4>3. Parked(w, A)  BY <4>2 DEF Parked
      <4> QED BY <1>7, <3>1, <4>3
    <3> QED BY <2>2, <3>2, <3>3 DEF Arrive
  <2> QED BY <2>1, <2>2
<1>10. WayAt(w, e, l, s, A)  BY <1>6, <1>7, <1>8, <1>9 DEF WayAt
<1>11. Tours(w, T, e, B, l, s)  BY <1>4, <1>5, <1>7, <1>8, <1>10 DEF Tours, o
<1>12. Together(w, T, e, B, l, LaneState(l)')  BY <1>11 DEF Together, s
<1>13. Stage(j, w, T, e, B, job, arena')  BY <1>8
<1> QED BY <1>1, <1>12, <1>13, LaneMoved

\* Past a barrier.
LEMMA ResumeGoes ==
  ASSUME VMTypes, NEW l \in Lanes, StepBarrier(l) \/ IterateFor(l) \/ TestWhile(l) \/ RepeatWhile(l),
         NEW j, NEW w, NEW T, NEW e, NEW B, Stage(j, w, T, e, B, job, arena), AllTogether(w, T, e, B)
  PROVE  VMInv'
<1> DEFINE f == frames[l]
<1>1. Resumes(l) /\ l \in LaneIds /\ LaneStep(l)
  BY DEF StepBarrier, IterateFor, TestWhile, RepeatWhile, LaneStep, Lanes
<1>2. IsChart(w) /\ job.streams = w.streams /\ B \in Trails(w)  BY StageFacts
<1>3. mode[l] = "resume" /\ mode'[l] = "run"  BY <1>1 DEF Resumes, VMTypes
<1>4. /\ passed[l] = e /\ arrived[l] = e /\ log[l] = {} /\ tile[l] = 0 /\ Parked(w, B) /\ Fits(w, l, f, B)
  <2>1. Together(w, T, e, B, l, LaneState(l))  BY DEF AllTogether
  <2> QED BY <1>3, <2>1, LaneResumes
<1>5. /\ Fetches(l, "barrier") => Awaits(w, B) = "barrier"
      /\ \A kinds : Closes(l, kinds) => AtClose(w, B) /\ Depth(B) # 1 /\ RegionOf(w, Around(B)).op \in kinds
      /\ Depth(B) # 1 => Directs(w, l, Around(B), Owner(l))
      /\ Top(l).phase = Inner(B).ph /\ OwnerOf(w, l, f) = Owner(l)
  BY <1>1, <1>2, <1>4, LaneSees
<1>6. /\ tile' = tile /\ arrived' = arrived /\ passed' = passed /\ arena' = arena
  BY DEF StepBarrier, IterateFor, TestWhile, RepeatWhile, Control, barrierVars
<1>7. OnTour(w, T, Opening(w, T, B), l, Opened(w, T, B, l, f))  BY <1>1, <1>2, <1>4, Opens
<1>8. frames'[l] = Opened(w, T, B, l, f) /\ \A x \in log'[l] : Logs(w, T, B, l, x)
  <2>1. CASE StepBarrier(l)
    <3>1. Awaits(w, B) = "barrier"  BY <1>5, <2>1 DEF StepBarrier
    <3>2. frames'[l] = Step(f) /\ log' = log  BY <2>1 DEF StepBarrier, Control, VMTypes
    <3> QED BY <1>4, <3>1, <3>2 DEF Opened
  <2>2. CASE IterateFor(l)
    <3>1. AtClose(w, B) /\ Depth(B) # 1 /\ RegionOf(w, Around(B)).op = "for"  BY <1>5, <2>2 DEF IterateFor
    <3>2. Awaits(w, B) = "for"  BY <3>1, LoopEnd
    <3>3. /\ log' = log
          /\ frames'[l] = IF Top(l).phase = 1 THEN Popped(f) ELSE Rewound(f, Owner(l).y, Top(l).phase - 1)
      BY <2>2 DEF IterateFor, Control, VMTypes
    <3> HIDE DEF f
    <3> QED BY <1>4, <1>5, <3>2, <3>3 DEF Opened
  <2>3. CASE TestWhile(l)
    <3>1. AtClose(w, B) /\ Depth(B) # 1 /\ RegionOf(w, Around(B)).op = "while" /\ Inner(B).ph = 0
      BY <1>5, <2>3 DEF TestWhile
    <3>2. Awaits(w, B) = "cond"  BY <3>1, LoopEnd
    <3>3. Watched(w, T, B, Around(B))  BY <3>2 DEF Watched
    <3>4. Owner(l).flag = FlagOf(w, Around(B))  BY <1>5, <3>1 DEF Directs, FlagOf
    <3>5. Flag(job.at, arena, Owner(l).flag) <=> FlagOf(w, Around(B)) \in T
      BY <3>3, <3>4 DEF Stage, FlagsHeld
    <3>6. /\ log'[l] = log[l] \cup {[ins |-> FlagRead(Owner(l).flag), t |-> 0]}
          /\ frames'[l] = IF Flag(job.at, arena, Owner(l).flag) THEN Rewound(f, Owner(l).y, 1) ELSE Popped(f)
      BY <2>3 DEF TestWhile, Control, Touched, VMTypes
    <3>7. ASSUME NEW x \in log'[l] PROVE Logs(w, T, B, l, x)
      <4>1. x = [ins |-> FlagRead(Owner(l).flag), t |-> 0]  BY <1>4, <3>6
      <4>2. x.ins = FlagRead(FlagOf(w, Around(B))) /\ x.t = 0  BY <3>4, <4>1
      <4> QED BY <3>3, <4>2 DEF Logs, LogsFlag
    <3> HIDE DEF f
    <3>8. frames'[l] = Opened(w, T, B, l, f)  BY <1>5, <3>2, <3>5, <3>6 DEF Opened
    <3> QED BY <3>7, <3>8
  <2>4. CASE RepeatWhile(l)
    <3>1. AtClose(w, B) /\ Depth(B) # 1 /\ RegionOf(w, Around(B)).op = "while" /\ Inner(B).ph = 1
      BY <1>5, <2>4 DEF RepeatWhile
    <3>2. Awaits(w, B) = "body"  BY <3>1, LoopEnd
    <3>3. frames'[l] = Rewound(f, Owner(l).x, 0) /\ log' = log  BY <2>4 DEF RepeatWhile, Control, VMTypes
    <3> HIDE DEF f
    <3> QED BY <1>4, <1>5, <3>2, <3>3 DEF Opened
  <2> QED BY <2>1, <2>2, <2>3, <2>4
<1>9. OnTour(w, T, Opening(w, T, B), l, frames'[l])  BY <1>7, <1>8
<1>10. Stage(j, w, T, e, B, job, arena')  BY <1>6
<1>11. \A x \in log[l] : Logs(w, T, B, l, x)  BY <1>4
<1> HIDE DEF f
<1> QED BY <1>1, <1>3, <1>4, <1>6, <1>8, <1>9, <1>10, <1>11, LaneGoes

\* A lane that may pass is one that lags, or all have arrived.
LEMMA MayPass ==
  ASSUME NEW l \in Lanes, passed[l] < arrived[l], \A k \in Lanes : arrived[k] >= arrived[l],
         NEW w, NEW T, NEW e \in Nat, NEW B, AllTogether(w, T, e, B)
  PROVE  \/ Lags(w, e, B, l, LaneState(l))
         \/ \A k \in Lanes : /\ mode[k] = "wait" /\ Tours(w, T, e, B, k, LaneState(k)) /\ arrived[k] = e + 1
<1>1. \A k \in Lanes : Together(w, T, e, B, k, LaneState(k))  BY DEF AllTogether
<1>2. ASSUME NEW k \in Lanes, ~(mode[k] = "wait" /\ Tours(w, T, e, B, k, LaneState(k)))
      PROVE  arrived[k] = e /\ (passed[k] = e \/ Lags(w, e, B, k, LaneState(k)))
  <2>1. CASE Lags(w, e, B, k, LaneState(k))  BY <2>1, LaneFields DEF Lags
  <2>2. CASE Crosses(w, e, B, k, LaneState(k))  BY <2>2, LaneFields DEF Crosses
  <2>3. CASE Tours(w, T, e, B, k, LaneState(k))  BY <1>2, <2>3, LaneFields DEF Tours, WayAt
  <2> QED BY <1>1, <2>1, <2>2, <2>3 DEF Together
<1>3. ASSUME NEW k \in Lanes, mode[k] = "wait", Tours(w, T, e, B, k, LaneState(k))
      PROVE  arrived[k] = e + 1 /\ passed[k] = e
  BY <1>3, LaneFields DEF Tours, WayAt
<1>4. CASE Lags(w, e, B, l, LaneState(l))  BY <1>4
<1>5. CASE ~Lags(w, e, B, l, LaneState(l))
  <2>1. mode[l] = "wait" /\ Tours(w, T, e, B, l, LaneState(l))
    <3> SUFFICES ASSUME ~(mode[l] = "wait" /\ Tours(w, T, e, B, l, LaneState(l))) PROVE FALSE  OBVIOUS
    <3>1. arrived[l] = e /\ passed[l] = e  BY <1>2, <1>5
    <3> QED BY <3>1
  <2>2. arrived[l] = e + 1  BY <1>3, <2>1
  <2>3. ASSUME NEW k \in Lanes PROVE mode[k] = "wait" /\ Tours(w, T, e, B, k, LaneState(k))
    <3> SUFFICES ASSUME ~(mode[k] = "wait" /\ Tours(w, T, e, B, k, LaneState(k))) PROVE FALSE  OBVIOUS
    <3>1. arrived[k] = e /\ arrived[k] >= arrived[l]  BY <1>2
    <3> QED BY <2>2, <3>1
  <2> QED BY <1>3, <2>3
<1> QED BY <1>4, <1>5

LEMMA PassGoes ==
  ASSUME VMTypes, NEW l \in Lanes, Pass(l),
         NEW j, NEW w, NEW T, NEW e, NEW B, Stage(j, w, T, e, B, job, arena), AllTogether(w, T, e, B)
  PROVE  VMInv'
<1> DEFINE s == LaneState(l)'
<1>1. LaneStep(l) /\ l \in LaneIds  BY DEF LaneStep, Lanes
<1>2. /\ IsChart(w) /\ ChartOf(w, j, job) /\ e \in Nat /\ B \in Trails(w) /\ Opening(w, T, B) \in Trails(w)
      /\ Tour(w, T, Opening(w, T, B)) \subseteq Trails(w)
  BY StageFacts
<1>3. /\ s.frames = frames[l] /\ s.tile = tile[l] /\ s.mode = "resume" /\ s.log = {}
      /\ s.arrived = arrived[l] /\ s.passed = passed[l] + 1
  <2>1. /\ s.frames = frames'[l] /\ s.tile = tile'[l] /\ s.mode = mode'[l] /\ s.log = log'[l]
        /\ s.arrived = arrived'[l] /\ s.passed = passed'[l]
    BY DEF LaneState
  <2> HIDE DEF s
  <2> QED BY <2>1 DEF Pass, PB!Pass, VMTypes
<1> HIDE DEF s
<1>4. arena' = arena  BY DEF Pass
<1>5. CASE Lags(w, e, B, l, LaneState(l))
  <2>1. Crosses(w, e, B, l, s)  BY <1>3, <1>5, LaneFields DEF Lags, Crosses
  <2>2. Together(w, T, e, B, l, LaneState(l)')  BY <2>1 DEF Together, s
  <2>3. Stage(j, w, T, e, B, job, arena')  BY <1>4
  <2> QED BY <1>1, <2>2, <2>3, LaneMoved
<1>6. CASE \A k \in Lanes : /\ mode[k] = "wait" /\ Tours(w, T, e, B, k, LaneState(k)) /\ arrived[k] = e + 1
  <2> DEFINE o == Opening(w, T, B)
  <2>1. ASSUME NEW k \in Lanes
        PROVE  /\ passed[k] = e
               /\ \E A \in Tour(w, T, o) : Parked(w, A) /\ Fits(w, k, frames[k], A) /\ tile[k] = 0
    <3>1. Tours(w, T, e, B, k, LaneState(k)) /\ mode[k] = "wait"  BY <1>6
    <3>2. passed[k] = e  BY <3>1, LaneFields DEF Tours
    <3>3. PICK A \in Tour(w, T, o) : WayAt(w, e, k, LaneState(k), A)  BY <3>1 DEF Tours
    <3>4. Parked(w, A) /\ Fits(w, k, frames[k], A) /\ (tile[k] # 0 => AtTiles(w, A))
      BY <3>1, <3>3, LaneFields DEF WayAt
    <3>5. ~AtTiles(w, A)  BY <3>4 DEF Parked, Awaits
    <3> QED BY <3>2, <3>3, <3>4, <3>5
  <2> HIDE DEF o
  <2>2. PICK A \in Tour(w, T, o) : Parked(w, A) /\ Fits(w, l, frames[l], A) /\ tile[l] = 0  BY <2>1
  <2>3. ASSUME NEW k \in Lanes PROVE Fits(w, k, frames[k], A) /\ tile[k] = 0
    <3>1. PICK X \in Tour(w, T, o) : Parked(w, X) /\ Fits(w, k, frames[k], X) /\ tile[k] = 0  BY <2>1
    <3>2. Awaits(w, X) # "on" /\ Awaits(w, A) # "on"  BY <2>2, <3>1 DEF Parked
    <3>3. X = A  BY <1>2, <3>2, TourOn DEF o
    <3> QED BY <3>1, <3>3
  <2>4. A \in Trails(w) /\ e + 1 \in Nat  BY <1>2 DEF o
  <2> DEFINE T2 == TrueFlags(j, job, arena)
  <2>5. Stage(j, w, T2, e + 1, A, job, arena')
    <3>1. Mapped(job, arena)  BY DEF Stage
    <3>2. FlagsHeld(w, T2, A, job, arena)  BY <1>2, <2>4, <3>1, FlagsNew
    <3> HIDE DEF T2
    <3> QED BY <1>4, <2>4, <3>2 DEF Stage
  <2> HIDE DEF T2
  <2>6. ASSUME NEW k \in Lanes PROVE Lags(w, e + 1, A, k, LaneState(k))
    <3>1. passed[k] = e /\ arrived[k] = e + 1 /\ mode[k] = "wait"  BY <1>6, <2>1
    <3>2. Fits(w, k, frames[k], A) /\ tile[k] = 0  BY <2>3
    <3> QED BY <1>2, <2>2, <3>1, <3>2, LaneFields DEF Lags
  <2>7. AllTogether(w, T2, e + 1, A)  BY <2>6 DEF AllTogether, Together
  <2>8. Crosses(w, e + 1, A, l, s)
    <3>1. passed[l] = e /\ arrived[l] = e + 1  BY <1>6, <2>1
    <3>2. Fits(w, l, frames[l], A) /\ tile[l] = 0  BY <2>3
    <3> QED BY <1>3, <2>2, <3>1, <3>2 DEF Crosses
  <2>9. Together(w, T2, e + 1, A, l, LaneState(l)')  BY <2>8 DEF Together, s
  <2> QED BY <1>1, <2>5, <2>7, <2>9, LaneMoved
<1> QED BY <1>2, <1>5, <1>6, MayPass DEF Pass, PB!Pass

LEMMA VMOn == ASSUME VMInv, [VMNext]_vmVars PROVE VMInv'
<1>1. VMTypes  BY DEF VMInv
<1>2. PICK j, w, T, e, B : /\ Stage(j, w, T, e, B, job, arena)
                           /\ \A l \in Lanes : Together(w, T, e, B, l, LaneState(l))
  BY DEF VMInv
<1>3. AllTogether(w, T, e, B)  BY <1>2 DEF AllTogether
<1>4. ASSUME NEW l \in Lanes, LaneStep(l) PROVE VMInv'
  <2>1. CASE RunTile(l)  BY <1>1, <1>2, <1>3, <2>1, TileGoes
  <2>2. CASE EnterWhile(l) \/ EnterFor(l) \/ BranchDone(l)  BY <1>1, <1>2, <1>3, <2>2, ControlGoes
  <2>3. CASE EnterIf(l)  BY <1>1, <1>2, <1>3, <2>3, IfGoes
  <2>4. CASE Arrive(l) \/ Finish(l)  BY <1>1, <1>2, <1>3, <2>4, FinishGoes
  <2>5. CASE Pass(l)  BY <1>1, <1>2, <1>3, <2>5, PassGoes
  <2>6. CASE StepBarrier(l) \/ IterateFor(l) \/ TestWhile(l) \/ RepeatWhile(l)
    BY <1>1, <1>2, <1>3, <2>6, ResumeGoes
  <2> QED BY <1>4, <2>1, <2>2, <2>3, <2>4, <2>5, <2>6 DEF LaneStep
<1>5. CASE UNCHANGED vmVars
  BY <1>5 DEF vmVars, barrierVars, VMInv, VMTypes, LaneState
<1> QED BY <1>4, <1>5 DEF VMNext
------------------------------------------------------------------------------
(* The theorems *)

\* The lanes stay together: there is always a last barrier that all have arrived at, and
\* each of them waits there, has just passed it, or is on the tour from it to the next.
THEOREM VMInductive == VMSpec => []VMInv
<1>1. VMInit => VMInv  BY VMStarts
<1>2. VMInv /\ [VMNext]_vmVars => VMInv'  BY VMOn
<1> QED BY <1>1, <1>2, PTL DEF VMSpec

\* The control a lane at places a is in.
ShapeAt(w, a) ==
  [k \in 1 .. Len(a) |->
     <<a[k].ph, IF k = 1 THEN RootIdx ELSE <<RegionOf(w, a[k - 1]).op, RegionOf(w, a[k - 1]).dst>> >>]

LEMMA ShapeIs ==
  ASSUME NEW w, IsChart(w), job.streams = w.streams, NEW l \in LaneIds, NEW A \in Trails(w),
         Fits(w, l, frames[l], A)
  PROVE  Shape(l) = ShapeAt(w, A.at)
<1> DEFINE a == A.at  f == frames[l]
           Of(k) == IF f[k].widx = RootIdx THEN RootIdx
                    ELSE LET e == job.streams[l][f[k].widx] IN <<e.kind, e.flag>>
<1>1. Stacked(w, l, f, a) /\ a \in Seq(Places(w)) /\ Chain(w, a)
  BY FitsTop DEF Trails, IsTrail, Fits
<1> HIDE DEF a, f
<1>2. DOMAIN f = 1 .. Len(a) /\ Len(a) \in Nat  BY <1>1 DEF Stacked
<1>3. ASSUME NEW k \in 1 .. Len(a)
      PROVE  /\ f[k].phase = a[k].ph
             /\ Of(k) = IF k = 1 THEN RootIdx ELSE <<RegionOf(w, a[k - 1]).op, RegionOf(w, a[k - 1]).dst>>
  <2>1. f[k].phase = a[k].ph /\ f[k].widx = OwnerSpot(w, l, a, k)  BY <1>1 DEF Stacked, Framing
  <2>2. CASE k = 1  BY <2>1, <2>2 DEF OwnerSpot
  <2>3. CASE k # 1
    <3>1. k - 1 \in 1 .. Len(a) /\ k - 1 # Len(a) /\ k - 1 + 1 = k  BY <1>2, <2>3
    <3> DEFINE q == a[k - 1]
    <3>2. q \in Places(w)  BY <1>1, <3>1
    <3>3. Nests(w, q, a[k].g)
      <4>1. Nests(w, a[k - 1], a[k - 1 + 1].g)  BY <1>1, <3>1 DEF Chain
      <4> QED BY <3>1, <4>1
    <3> HIDE DEF q
    <3>4. q.m \in 1 .. Count(w, q.g) /\ Steering(w, q.g, q.m)  BY <3>3 DEF Nests
    <3>5. Directs(w, l, q, w.streams[l][SpotOf(w, l, q)]) /\ SpotOf(w, l, q) \in Nat \ {0}
      BY <3>2, <3>4, Directed
    <3>6. f[k].widx = SpotOf(w, l, q)  BY <2>1, <2>3 DEF OwnerSpot, q
    <3>7. Of(k) = <<RegionOf(w, q).op, RegionOf(w, q).dst>>
      <4>1. f[k].widx # RootIdx  BY <3>5, <3>6 DEF RootIdx
      <4>2. /\ job.streams[l][f[k].widx].kind = RegionOf(w, q).op
            /\ job.streams[l][f[k].widx].flag = RegionOf(w, q).dst
        BY <3>5, <3>6 DEF Directs
      <4> QED BY <4>1, <4>2
    <3> HIDE DEF Of
    <3> QED BY <2>1, <2>3, <3>7 DEF q
  <2> QED BY <2>2, <2>3
<1>4. Shape(l) = [k \in DOMAIN f |-> <<f[k].phase, Of(k)>>]  BY DEF Shape, f
<1> HIDE DEF Of
<1>5. Shape(l) = ShapeAt(w, a)  BY <1>2, <1>3, <1>4 DEF ShapeAt
<1> QED BY <1>5 DEF a

\* Two lanes that wait do so at one trail.
LEMMA OneControl == VMInv => UniformControl
<1> SUFFICES ASSUME VMInv, NEW l \in Lanes, NEW m \in Lanes, mode[l] = "wait", mode[m] = "wait",
                    arrived[l] = arrived[m]
             PROVE  Shape(l) = Shape(m)
  BY DEF UniformControl
<1>1. PICK j, w, T, e, B : /\ Stage(j, w, T, e, B, job, arena)
                           /\ \A k \in Lanes : Together(w, T, e, B, k, LaneState(k))
  BY DEF VMInv
<1>2. /\ IsChart(w) /\ job.streams = w.streams /\ e \in Nat /\ B \in Trails(w)
      /\ Opening(w, T, B) \in Trails(w) /\ Tour(w, T, Opening(w, T, B)) \subseteq Trails(w)
  BY <1>1, StageFacts
<1> DEFINE o == Opening(w, T, B)
<1>3. ASSUME NEW k \in Lanes, mode[k] = "wait"
      PROVE  \/ arrived[k] = e /\ Fits(w, k, frames[k], B)
             \/ /\ arrived[k] = e + 1
                /\ \E A \in Tour(w, T, o) : Awaits(w, A) # "on" /\ Fits(w, k, frames[k], A)
  <2>1. LaneState(k).mode = "wait" /\ Together(w, T, e, B, k, LaneState(k))  BY <1>1, <1>3, LaneFields
  <2>2. CASE Lags(w, e, B, k, LaneState(k))  BY <2>2, LaneFields DEF Lags
  <2>3. CASE Tours(w, T, e, B, k, LaneState(k))
    <3>1. PICK A \in Tour(w, T, o) : WayAt(w, e, k, LaneState(k), A)  BY <2>3 DEF Tours
    <3>2. arrived[k] = e + 1 /\ Parked(w, A) /\ Fits(w, k, frames[k], A)  BY <2>1, <3>1, LaneFields DEF WayAt
    <3>3. Awaits(w, A) # "on"  BY <3>2 DEF Parked
    <3> QED BY <3>2, <3>3
  <2> QED BY <2>1, <2>2, <2>3 DEF Together, Crosses
<1> HIDE DEF o
<1>4. \E A \in Trails(w) : Fits(w, l, frames[l], A) /\ Fits(w, m, frames[m], A)
  <2>1. CASE arrived[l] = e
    <3>1. arrived[l] # e + 1  BY <1>2, <2>1
    <3> QED BY <1>2, <1>3, <2>1, <3>1
  <2>2. CASE arrived[l] # e
    <3>1. PICK A \in Tour(w, T, o) : Awaits(w, A) # "on" /\ Fits(w, l, frames[l], A)  BY <1>3, <2>2
    <3>2. PICK C \in Tour(w, T, o) : Awaits(w, C) # "on" /\ Fits(w, m, frames[m], C)  BY <1>3, <2>2
    <3>3. A = C  BY <1>2, <3>1, <3>2, TourOn DEF o
    <3> QED BY <1>2, <3>1, <3>2, <3>3 DEF o
  <2> QED BY <2>1, <2>2
<1>5. PICK A \in Trails(w) : Fits(w, l, frames[l], A) /\ Fits(w, m, frames[m], A)  BY <1>4
<1>6. l \in LaneIds /\ m \in LaneIds  BY DEF Lanes
<1> QED BY <1>2, <1>5, <1>6, ShapeIs

\* Lanes that wait at one barrier are in one instruction of the program, with the
\* same loop counts, in every run of every program the lowering hands on, however
\* many lanes there are and in whatever order they run.
THEOREM ControlIsUniform == VMSpec => []UniformControl
BY VMInductive, OneControl, PTL

\* A lane that waits has touched nothing since.
LEMMA WaitsStill ==
  ASSUME VMTypes, [VMNext]_vmVars, NEW l \in Lanes, mode'[l] = "wait"
  PROVE  log'[l] = log[l] /\ passed'[l] = passed[l]
<1>1. CASE UNCHANGED vmVars  BY <1>1 DEF vmVars, barrierVars
<1>2. ASSUME NEW k \in Lanes, LaneStep(k) PROVE log'[l] = log[l] /\ passed'[l] = passed[l]
  <2>1. CASE k # l
    <3>1. LaneState(l)' = LaneState(l)  BY <1>2, <2>1, OneLane DEF Others
    <3> QED BY <3>1 DEF LaneState
  <2>2. CASE k = l
    <3>1. CASE RunTile(l) \/ EnterWhile(l) \/ EnterFor(l) \/ EnterIf(l) \/ BranchDone(l)
      BY <3>1 DEF RunTile, EnterWhile, EnterFor, EnterIf, BranchDone, Running
    <3>2. CASE StepBarrier(l) \/ IterateFor(l) \/ TestWhile(l) \/ RepeatWhile(l)
      BY <3>2 DEF StepBarrier, IterateFor, TestWhile, RepeatWhile, Resumes, VMTypes
    <3>3. CASE Pass(l) \/ Finish(l)  BY <3>3 DEF Pass, Finish, VMTypes
    <3>4. CASE Arrive(l)  BY <3>4 DEF Arrive, PB!Arrive
    <3> QED BY <1>2, <2>2, <3>1, <3>2, <3>3, <3>4 DEF LaneStep
  <2> QED BY <2>1, <2>2
<1> QED BY <1>1, <1>2 DEF VMNext

LEMMA JobStays == ASSUME VMTypes, [VMNext]_vmVars PROVE job' = job
BY OneLane DEF VMNext, vmVars

\* Lanes that have passed the same barriers, of a stage they have all come to.
LEMMA StageRaces ==
  ASSUME NEW j, NEW w, NEW T, NEW e, NEW B, NEW jb, NEW mem, Stage(j, w, T, e, B, jb, mem), Unviewed(j.prog),
         NEW l \in Lanes, NEW m \in Lanes, l # m, NEW s, NEW r,
         Together(w, T, e, B, l, s), Together(w, T, e, B, m, r), s.passed = r.passed
  PROVE  \/ s.mode = "wait" /\ r.mode = "wait"
         \/ \A x \in s.log, y \in r.log : ClearOf(jb, x.ins, x.t, y.ins, y.t)
<1>1. ChartOf(w, j, jb) /\ B \in Trails(w) /\ e \in Nat  BY StageFacts
<1>2. l \in LaneIds /\ m \in LaneIds  BY DEF Lanes
<1>3. CASE Lags(w, e, B, l, s) /\ Lags(w, e, B, m, r)  BY <1>3 DEF Lags
<1>4. CASE ~Lags(w, e, B, l, s) /\ ~Lags(w, e, B, m, r)
  <2>1. /\ \A x \in s.log : Logs(w, T, B, l, x)
        /\ \A y \in r.log : Logs(w, T, B, m, y)
    BY <1>4 DEF Together, Crosses, Tours
  <2> QED BY <1>1, <1>2, <2>1, LogsClear
<1>5. CASE Lags(w, e, B, l, s) /\ ~Lags(w, e, B, m, r)
  <2>1. s.passed \in Nat /\ s.passed + 1 = e /\ r.passed = e  BY <1>5 DEF Together, Lags, Crosses, Tours
  <2> QED BY <2>1
<1>6. CASE ~Lags(w, e, B, l, s) /\ Lags(w, e, B, m, r)
  <2>1. r.passed \in Nat /\ r.passed + 1 = e /\ s.passed = e  BY <1>6 DEF Together, Lags, Crosses, Tours
  <2> QED BY <2>1
<1> QED BY <1>3, <1>4, <1>5, <1>6

LEMMA RacesNot ==
  RaceFree <=> \A l, m \in Lanes : (l # m /\ passed[l] = passed[m]) =>
                 \A x \in log[l], y \in log[m] : ClearOf(job, x.ins, x.t, y.ins, y.t)
BY DEF RaceFree, ClearOf

LEMMA RaceStarts == ASSUME VMInit PROVE RaceFree
<1>1. \A l \in Lanes : log[l] = {}  BY DEF VMInit
<1> QED BY <1>1 DEF RaceFree

LEMMA RaceStays ==
  ASSUME \A j \in Jobs : Unviewed(j.prog), VMInv, VMInv', RaceFree, [VMNext]_vmVars
  PROVE  RaceFree'
<1>1. VMTypes /\ job' = job  BY JobStays DEF VMInv
<1>2. PICK j, w, T, e, B : /\ Stage(j, w, T, e, B, job', arena')
                           /\ \A k \in Lanes : Together(w, T, e, B, k, LaneState(k)')
  BY DEF VMInv
<1>3. Unviewed(j.prog)  BY <1>2 DEF Stage
<1> SUFFICES ASSUME NEW l \in Lanes, NEW m \in Lanes, l # m, passed'[l] = passed'[m],
                    NEW x \in log'[l], NEW y \in log'[m]
             PROVE  ClearOf(job', x.ins, x.t, y.ins, y.t)
  BY DEF RaceFree, ClearOf
<1>4. /\ LaneState(l)'.mode = mode'[l] /\ LaneState(l)'.log = log'[l] /\ LaneState(l)'.passed = passed'[l]
      /\ LaneState(m)'.mode = mode'[m] /\ LaneState(m)'.log = log'[m] /\ LaneState(m)'.passed = passed'[m]
  BY DEF LaneState
<1>5. \/ LaneState(l)'.mode = "wait" /\ LaneState(m)'.mode = "wait"
      \/ \A v \in LaneState(l)'.log, z \in LaneState(m)'.log : ClearOf(job', v.ins, v.t, z.ins, z.t)
  <2>1. Together(w, T, e, B, l, LaneState(l)') /\ Together(w, T, e, B, m, LaneState(m)')  BY <1>2
  <2> QED BY <1>2, <1>3, <1>4, <2>1, StageRaces
<1>6. CASE mode'[l] = "wait" /\ mode'[m] = "wait"
  <2>1. log'[l] = log[l] /\ log'[m] = log[m] /\ passed[l] = passed[m]  BY <1>1, <1>6, WaitsStill
  <2>2. ClearOf(job, x.ins, x.t, y.ins, y.t)  BY <2>1, RacesNot
  <2> QED BY <1>1, <2>2
<1> QED BY <1>4, <1>5, <1>6

\* Lanes never race, in whatever order they run: between two barriers no lane touches
\* what another one writes, be it a buffer's place in the reused arena, a loop's
\* condition or a branch's flag.  It takes that no map reads its first operand through
\* a folded gather (Unviewed), whose reach dependency analysis takes for one tile.
THEOREM LanesNeverRace ==
  ASSUME \A j \in Jobs : Unviewed(j.prog)
  PROVE  VMSpec => []RaceFree
<1>1. VMInit => VMInv /\ RaceFree  BY VMStarts, RaceStarts
<1>2. VMInv /\ RaceFree /\ [VMNext]_vmVars => (VMInv /\ RaceFree)'  BY VMOn, RaceStays
<1> QED BY <1>1, <1>2, PTL DEF VMSpec
=============================================================================
