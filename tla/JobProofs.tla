----------------------------- MODULE JobProofs -----------------------------
(***************************************************************************)
(* What the scheduler makes of a program with loops and branches           *)
(* (schedule_program, scheduler.py): where every list of the program is in *)
(* every lane's stream, for every program the lowering hands on, and how   *)
(* a walk goes from list to list the same way in every lane; and where the *)
(* program's buffers are in the arena (reuse_arena).                       *)
(***************************************************************************)
EXTENDS LaneWalk, SchedulerProofs

Ranges == [start : Nat, len : Nat]

Listing(p, mainLen) ==
  Plain(p) /\ (\A i \in 1 .. Len(p) : InsForm(p[i])) /\ ListForm(p, mainLen)

LEMMA WellFormedListing == ASSUME NEW j, WellFormed(j) PROVE Listing(j.prog, j.main)
<1>1. PICK S : j.prog \in Seq(S) /\ \A ins \in S : InsForm(ins)
  <2> DEFINE S == {ins \in ToSet(j.prog) : InsForm(ins)}
  <2>1. j.prog \in Seq(S) /\ \A ins \in S : InsForm(ins)  BY DEF WellFormed
  <2> HIDE DEF S
  <2> QED BY <2>1
<1>2. Len(j.prog) \in Nat /\ \A i \in 1 .. Len(j.prog) : InsForm(j.prog[i])
  BY <1>1, LenProperties, ElementOfSeq
<1>3. Plain(j.prog)
  <2>1. \A i \in 1 .. Len(j.prog) : j.prog[i].n \in Nat  BY <1>2 DEF InsForm
  <2> QED BY <1>2, <2>1 DEF Plain, InsForm
<1> QED BY <1>2, <1>3 DEF Listing, WellFormed

\* The ranges of a program.
LEMMA ListFacts ==
  ASSUME NEW p, NEW mainLen, Listing(p, mainLen)
  PROVE  /\ Len(p) \in Nat /\ mainLen \in 0 .. Len(p) /\ mainLen \in Nat
         /\ RootList \notin SubLists(p)
         /\ Listed(p, mainLen, RootList) = 1 .. mainLen
         /\ \A g \in SubLists(p) :
              /\ g[1] \in Regions(p) /\ g[1] \in 1 .. Len(p) /\ g[2] \in {"x", "y"}
              /\ g = <<g[1], g[2]>>
              /\ \A i \in Listed(p, mainLen, g) : g[1] < i
         /\ \A g \in AllLists(p) :
              /\ RangeOf(p, mainLen, g) \in Ranges
              /\ Listed(p, mainLen, g) \subseteq 1 .. Len(p)
         /\ \A g, h \in AllLists(p) : \A i :
              i \in Listed(p, mainLen, g) /\ i \in Listed(p, mainLen, h) => g = h
<1>1. Len(p) \in Nat /\ ListForm(p, mainLen)  BY DEF Listing, Plain
<1>2. mainLen \in 0 .. Len(p)  BY <1>1 DEF ListForm
<1>3. mainLen \in Nat  BY <1>1, <1>2
<1>4. \A i \in Regions(p) : i \in 1 .. Len(p) /\ i # 0  BY <1>1 DEF Regions
<1>5. \A g \in SubLists(p) : g[1] \in Regions(p) /\ g[2] \in {"x", "y"} /\ g = <<g[1], g[2]>>
  BY DEF SubLists
<1>6. RootList[1] = 0  BY DEF RootList
<1>7. RootList \notin SubLists(p)  BY <1>4, <1>5, <1>6
<1>8. RangeOf(p, mainLen, RootList) = [start |-> 1, len |-> mainLen]  BY DEF RangeOf, SubList
<1>9. Listed(p, mainLen, RootList) = 1 .. mainLen
  <2>1. Listed(p, mainLen, RootList) = 1 .. 1 + mainLen - 1  BY <1>8 DEF Listed
  <2>2. 1 + mainLen - 1 = mainLen  BY <1>3
  <2> QED BY <2>1, <2>2
<1>10. \A g \in SubLists(p) : RangeOf(p, mainLen, g) \in {p[g[1]].x, p[g[1]].y}
  BY <1>7 DEF RangeOf
<1>11. \A g \in SubLists(p) : RangeOf(p, mainLen, g) \in Ranges
  <2>1. \A i \in Regions(p) : p[i].x \in Ranges /\ p[i].y \in Ranges  BY <1>1 DEF ListForm, Ranges
  <2> QED BY <2>1, <1>5, <1>10
<1>12. \A g \in SubLists(p) : Listed(p, mainLen, g) \subseteq g[1] + 1 .. Len(p)
  BY <1>1 DEF ListForm
<1>13. ASSUME NEW g \in SubLists(p), NEW i \in Listed(p, mainLen, g) PROVE g[1] < i /\ i \in 1 .. Len(p)
  <2>1. i \in g[1] + 1 .. Len(p) /\ g[1] \in 1 .. Len(p)  BY <1>4, <1>5, <1>12
  <2>2. PICK r \in 1 .. Len(p) : r = g[1]  BY <2>1
  <2> QED BY <1>1, <2>1, <2>2
<1>14. \A g \in AllLists(p) : RangeOf(p, mainLen, g) \in Ranges
  BY <1>3, <1>8, <1>11 DEF AllLists, Ranges
<1>15. \A g \in AllLists(p) : Listed(p, mainLen, g) \subseteq 1 .. Len(p)
  <2>1. 1 .. mainLen \subseteq 1 .. Len(p)  BY <1>1, <1>2
  <2> QED BY <2>1, <1>9, <1>13 DEF AllLists
<1>16. \A g, h \in AllLists(p) : g = h \/ Listed(p, mainLen, g) \cap Listed(p, mainLen, h) = {}
  BY <1>1 DEF ListForm, AllLists
<1>17. \A g, h \in AllLists(p) : \A i : i \in Listed(p, mainLen, g) /\ i \in Listed(p, mainLen, h) => g = h
  BY <1>16
<1>18. \A g \in SubLists(p) :
         /\ g[1] \in Regions(p) /\ g[1] \in 1 .. Len(p) /\ g[2] \in {"x", "y"} /\ g = <<g[1], g[2]>>
         /\ \A i \in Listed(p, mainLen, g) : g[1] < i
  BY <1>4, <1>5, <1>13
<1> QED BY <1>1, <1>2, <1>3, <1>7, <1>9, <1>14, <1>15, <1>17, <1>18

ListLevels(p, mainLen, g) == BuildLevels(p, Indices(RangeOf(p, mainLen, g)))

LEMMA ListLayered ==
  ASSUME NEW p, NEW mainLen, Listing(p, mainLen), NEW g \in AllLists(p)
  PROVE  Layered(p, Busy(p, Listed(p, mainLen, g)), ListLevels(p, mainLen, g))
<1> DEFINE r == RangeOf(p, mainLen, g)
<1>1. r \in [start : Nat, len : Nat]  BY ListFacts DEF Ranges
<1>2. Listed(p, mainLen, g) = r.start .. r.start + r.len - 1  BY DEF Listed
<1> HIDE DEF r
<1>3. Layered(p, Busy(p, r.start .. r.start + r.len - 1), BuildLevels(p, Indices(r)))
  BY <1>1, LevelsOf
<1> QED BY <1>2, <1>3 DEF ListLevels, r
------------------------------------------------------------------------------
(* Entries *)

\* What may be in a stream.
AnyEntry(p) ==
  {Barrier} \cup TileEntries(1 .. Len(p))
    \cup {[kind |-> p[i].op, flag |-> p[i].dst, x |-> x, y |-> y, trips |-> p[i].trips] :
            i \in Regions(p), x \in Ranges, y \in Ranges}

Steers(e) == e.kind \in {"while", "for", "if"}

\* What level puts in lane l.
Body(p, level, l) ==
  IF level.region THEN <<ControlEntry(p[level.members[1]])>> ELSE PackUnits(Units(p, level.members))[l]

LEMMA EntryKinds ==
  ASSUME NEW p, NEW e \in AnyEntry(p)
  PROVE  \/ e = Barrier /\ e.kind = "barrier"
         \/ e \in TileEntries(1 .. Len(p)) /\ e.kind = "tile"
         \/ /\ Steers(e) /\ e \notin TileEntries(1 .. Len(p)) /\ e # Barrier
            /\ e = [kind |-> e.kind, flag |-> e.flag, x |-> e.x, y |-> e.y, trips |-> e.trips]
            /\ \A x \in Ranges, y \in Ranges :
                 [kind |-> e.kind, flag |-> e.flag, x |-> x, y |-> y, trips |-> e.trips] \in AnyEntry(p)
<1>1. CASE e = Barrier  BY <1>1 DEF Barrier
<1>2. \A f \in TileEntries(1 .. Len(p)) : f.kind = "tile"  BY DEF TileEntries, TileEntry
<1>3. CASE e \in TileEntries(1 .. Len(p))  BY <1>2, <1>3
<1>4. CASE ~(e = Barrier \/ e \in TileEntries(1 .. Len(p)))
  <2>1. PICK i \in Regions(p), x \in Ranges, y \in Ranges :
          e = [kind |-> p[i].op, flag |-> p[i].dst, x |-> x, y |-> y, trips |-> p[i].trips]
    BY <1>4 DEF AnyEntry
  <2>2. e.kind = p[i].op /\ e.flag = p[i].dst /\ e.x = x /\ e.y = y /\ e.trips = p[i].trips  BY <2>1
  <2>3. Steers(e)  BY <2>2 DEF Steers, Regions, IsRegion
  <2>4. \A u \in Ranges, v \in Ranges :
          [kind |-> p[i].op, flag |-> p[i].dst, x |-> u, y |-> v, trips |-> p[i].trips] \in AnyEntry(p)
    BY DEF AnyEntry
  <2>5. e = [kind |-> e.kind, flag |-> e.flag, x |-> e.x, y |-> e.y, trips |-> e.trips]  BY <2>1, <2>2
  <2>6. \A u \in Ranges, v \in Ranges :
          [kind |-> e.kind, flag |-> e.flag, x |-> u, y |-> v, trips |-> e.trips] \in AnyEntry(p)
    BY <2>2, <2>4
  <2> QED BY <1>4, <2>3, <2>5, <2>6
<1> QED BY <1>1, <1>3, <1>4

\* The levels of a list, or of part of one.
LevelsIn(p, S, levels) == Layered(p, S, levels) /\ S \subseteq 1 .. Len(p)

LEMMA PhaseBody ==
  ASSUME NEW p, Plain(p), NEW D, Free(p, D), NEW mem, ToSet(mem) = D
  PROVE  /\ PackOK(p, D, PackUnits(Units(p, mem)))
         /\ \A l \in LaneIds : PackUnits(Units(p, mem))[l] \in Seq(TileEntries(D))
<1>0. PICK n \in Nat : n = Len(p)  BY DEF Plain
<1>1. D \subseteq 1 .. n /\ 1 .. n \subseteq Nat  BY <1>0 DEF Free
<1>2. D \in SUBSET Nat /\ IsFiniteSet(D)
  <2>1. IsFiniteSet(1 .. n)  BY FS_Interval
  <2> QED BY <1>1, <2>1, FS_Subset
<1>3. Counted(p, D)  BY <1>0, <1>1 DEF Counted, Plain
<1>4. EdgesEqual(p, D)  BY FreeEdges
<1>5. PackOK(p, D, PackUnits(Units(p, mem)))  BY <1>2, <1>3, <1>4, PhasePacked
<1> QED BY <1>5 DEF PackOK

LEMMA BodyTyped ==
  ASSUME NEW p, Plain(p), NEW S, NEW levels, LevelsIn(p, S, levels), NEW m \in 1 .. Len(levels),
         NEW l \in LaneIds
  PROVE  /\ Body(p, levels[m], l) \in Seq(AnyEntry(p))
         /\ levels[m].region =>
              \E i \in Regions(p) :
                /\ i = levels[m].members[1] /\ Members(levels, m) = {i} /\ i \in S
                /\ Body(p, levels[m], l) = <<ControlEntry(p[i])>>
                /\ ControlEntry(p[i]) \in AnyEntry(p) /\ Steers(ControlEntry(p[i]))
         /\ ~levels[m].region =>
              /\ Free(p, Members(levels, m))
              /\ PackOK(p, Members(levels, m), PackUnits(Units(p, levels[m].members)))
              /\ Body(p, levels[m], l) \in Seq(TileEntries(1 .. Len(p)))
<1>1. S \subseteq 1 .. Len(p) /\ Members(levels, m) \subseteq S /\ OneKind(p, levels, m)
      /\ \A i, k \in Members(levels, m) : i < k => ~Boundary(p[i], p[k])
  BY DEF LevelsIn, Layered
<1>2. CASE levels[m].region
  <2>1. PICK i \in Nat : IsRegion(p[i]) /\ levels[m].members = <<i>>  BY <1>1, <1>2 DEF OneKind
  <2>2. i = levels[m].members[1] /\ Members(levels, m) = {i}  BY <2>1 DEF Members, ToSet
  <2>3. i \in S /\ i \in Regions(p)  BY <1>1, <2>1, <2>2 DEF Regions
  <2>4. ControlEntry(p[i]) \in AnyEntry(p)
    <3>1. NoRange \in Ranges  BY DEF NoRange, Ranges
    <3> QED BY <3>1, <2>3 DEF AnyEntry, ControlEntry
  <2>5. Steers(ControlEntry(p[i]))  BY <2>1 DEF Steers, ControlEntry, IsRegion
  <2>6. Body(p, levels[m], l) = <<ControlEntry(p[i])>>  BY <1>2, <2>2 DEF Body
  <2>7. Body(p, levels[m], l) \in Seq(AnyEntry(p))
    <3>1. PICK e \in AnyEntry(p) : e = ControlEntry(p[i])  BY <2>4
    <3> QED BY <2>6, <3>1
  <2> QED BY <1>2, <2>2, <2>3, <2>4, <2>5, <2>6, <2>7
<1>3. CASE ~levels[m].region
  <2>1. Free(p, Members(levels, m))  BY <1>1 DEF Free
  <2>2. ToSet(levels[m].members) = Members(levels, m)  BY DEF Members
  <2>3. /\ PackOK(p, Members(levels, m), PackUnits(Units(p, levels[m].members)))
        /\ PackUnits(Units(p, levels[m].members))[l] \in Seq(TileEntries(Members(levels, m)))
    BY <2>1, <2>2, PhaseBody
  <2>4. TileEntries(Members(levels, m)) \subseteq TileEntries(1 .. Len(p))
    <3>1. Members(levels, m) \subseteq 1 .. Len(p)  BY <1>1
    <3> QED BY ONLY <3>1 DEF TileEntries
  <2>5. Body(p, levels[m], l) \in Seq(TileEntries(1 .. Len(p)))  BY <1>3, <2>3, <2>4, SeqMonotonic DEF Body
  <2>6. TileEntries(1 .. Len(p)) \subseteq AnyEntry(p)  BY DEF AnyEntry
  <2>7. Body(p, levels[m], l) \in Seq(AnyEntry(p))  BY <2>5, <2>6, SeqMonotonic
  <2> QED BY <1>3, <2>1, <2>3, <2>5, <2>7
<1> QED BY <1>2, <1>3
------------------------------------------------------------------------------
(* Sections: where the levels of a list are in a lane's stream *)

Size(p, levels, l, m) == Len(Body(p, levels[m], l))

\* The same entry but for its ranges.
Alike(e, f) ==
  IF Steers(f) THEN Steers(e) /\ e.kind = f.kind /\ e.flag = f.flag /\ e.trips = f.trips
  ELSE e = f

\* The first M levels are in stream s of lane l from one place up to another, level
\* m's entries from sec[m] on, with a barrier between two levels.
Sections(p, levels, M, l, s, from, end, sec) ==
  /\ from \in Nat \ {0} /\ end \in Nat /\ from <= end /\ sec \in [1 .. M -> Nat]
  /\ M = 0 => end = from
  /\ M # 0 => sec[1] = from /\ sec[M] + Size(p, levels, l, M) = end
  /\ \A m \in 1 .. M :
       /\ Size(p, levels, l, m) \in Nat
       /\ from <= sec[m] /\ sec[m] + Size(p, levels, l, m) <= end
       /\ \A q \in 1 .. Size(p, levels, l, m) : Alike(s[sec[m] + q - 1], Body(p, levels[m], l)[q])
       /\ m # M => /\ sec[m + 1] = sec[m] + Size(p, levels, l, m) + 1
                   /\ s[sec[m] + Size(p, levels, l, m)] = Barrier
  /\ \A m, n \in 1 .. M : m < n => sec[m] + Size(p, levels, l, m) < sec[n]

Keeps(s, t) == Len(s) <= Len(t) /\ \A x \in 1 .. Len(s) : t[x] = s[x]

\* What a level adds to a lane.
Grown1(k, s, b) == IF k = 1 THEN s \o b ELSE (s \o <<Barrier>>) \o b

Gap(k) == IF k = 1 THEN 0 ELSE 1

LEMMA GrownIs ==
  ASSUME NEW E, Barrier \in E, NEW s \in Seq(E), NEW b \in Seq(E), NEW k
  PROVE  /\ Grown1(k, s, b) \in Seq(E) /\ Len(Grown1(k, s, b)) = Len(s) + Gap(k) + Len(b)
         /\ \A x \in 1 .. Len(s) : Grown1(k, s, b)[x] = s[x]
         /\ k # 1 => Grown1(k, s, b)[Len(s) + 1] = Barrier
         /\ \A q \in 1 .. Len(b) : Grown1(k, s, b)[Len(s) + Gap(k) + q] = b[q]
<1> DEFINE n == Len(s)
           z == Len(b)
           d == Gap(k)
<1>0. d = IF k = 1 THEN 0 ELSE 1  BY DEF Gap
<1>1. n \in Nat /\ z \in Nat  BY LenProperties
<1>4. n = Len(s) /\ z = Len(b)  OBVIOUS
<1> SUFFICES /\ Grown1(k, s, b) \in Seq(E) /\ Len(Grown1(k, s, b)) = n + d + z
             /\ \A x \in 1 .. n : Grown1(k, s, b)[x] = s[x]
             /\ k # 1 => Grown1(k, s, b)[n + 1] = Barrier
             /\ \A q \in 1 .. z : Grown1(k, s, b)[n + d + q] = b[q]
  OBVIOUS
<1> HIDE DEF n, z, d
<1>2. CASE k = 1
  <2>1. PICK t : t = s \o b /\ Grown1(k, s, b) = t  BY <1>2 DEF Grown1
  <2>2. t \in Seq(E) /\ Len(t) = n + z /\ \A x \in 1 .. n + z : t[x] = IF x <= n THEN s[x] ELSE b[x - n]
    BY <1>4, <2>1, ConcatProperties
  <2>3. \A x \in 1 .. n : x \in 1 .. n + z /\ x <= n  BY <1>1
  <2>4. \A q \in 1 .. z : n + q \in 1 .. n + z /\ ~(n + q <= n) /\ (n + q) - n = q  BY <1>1
  <2>5. \A q \in 1 .. z : t[n + q] = b[q]  BY <2>2, <2>4
  <2>6. n + d = n  BY <1>0, <1>1, <1>2
  <2> QED BY <1>1, <1>2, <2>1, <2>2, <2>3, <2>5, <2>6
<1>3. CASE k # 1
  <2>1. PICK r : r = s \o <<Barrier>>  OBVIOUS
  <2>2. <<Barrier>> \in Seq(E) /\ Len(<<Barrier>>) = 1 /\ <<Barrier>>[1] = Barrier  OBVIOUS
  <2>3. r \in Seq(E) /\ Len(r) = n + 1
        /\ \A x \in 1 .. n + 1 : r[x] = IF x <= n THEN s[x] ELSE <<Barrier>>[x - n]
    BY <1>4, <2>1, <2>2, ConcatProperties
  <2>4. \A x \in 1 .. n : x \in 1 .. n + 1 /\ x <= n  BY <1>1
  <2>5. n + 1 \in 1 .. n + 1 /\ ~(n + 1 <= n) /\ (n + 1) - n = 1  BY <1>1
  <2>6. (\A x \in 1 .. n : r[x] = s[x]) /\ r[n + 1] = Barrier  BY <2>2, <2>3, <2>4, <2>5
  <2>7. PICK t : t = r \o b /\ Grown1(k, s, b) = t  BY <1>3, <2>1 DEF Grown1
  <2>8. t \in Seq(E) /\ Len(t) = n + 1 + z
        /\ \A x \in 1 .. n + 1 + z : t[x] = IF x <= n + 1 THEN r[x] ELSE b[x - (n + 1)]
    <3>1. t \in Seq(E) /\ Len(t) = Len(r) + Len(b)
          /\ \A x \in 1 .. Len(r) + Len(b) : t[x] = IF x <= Len(r) THEN r[x] ELSE b[x - Len(r)]
      <4>1. r \in Seq(E)  BY <2>3
      <4> QED BY <4>1, <2>7, ConcatProperties
    <3>2. Len(r) = n + 1 /\ Len(b) = z  BY <1>4, <2>3
    <3> QED BY <3>1, <3>2
  <2>9. \A x \in 1 .. n + 1 : x \in 1 .. n + 1 + z /\ x <= n + 1  BY <1>1
  <2>10. \A q \in 1 .. z : n + 1 + q \in 1 .. n + 1 + z /\ ~(n + 1 + q <= n + 1) /\ (n + 1 + q) - (n + 1) = q
    BY <1>1
  <2>11. \A x \in 1 .. n + 1 : t[x] = r[x]  BY <2>8, <2>9
  <2>12. \A q \in 1 .. z : t[n + 1 + q] = b[q]  BY <2>8, <2>10
  <2>13. n + d = n + 1  BY <1>0, <1>1, <1>3
  <2>14. (\A x \in 1 .. n : t[x] = s[x]) /\ t[n + 1] = Barrier  BY <2>4, <2>5, <2>6, <2>11
  <2> QED BY <1>1, <1>3, <2>7, <2>8, <2>12, <2>13, <2>14
<1> QED BY <1>2, <1>3

\* One more level, at the end of the stream.
LEMMA SectionAdded ==
  ASSUME NEW p, NEW levels, NEW k \in Nat \ {0}, NEW l, NEW E, Barrier \in E,
         NEW s \in Seq(E), NEW b \in Seq(E), b = Body(p, levels[k], l),
         NEW from, NEW sec, Sections(p, levels, k - 1, l, s, from, Len(s) + 1, sec),
         NEW t, t = Grown1(k, s, b),
         NEW sec2, sec2 = [m \in 1 .. k |-> IF m = k THEN Len(s) + (IF k = 1 THEN 0 ELSE 1) + 1 ELSE sec[m]]
  PROVE  Sections(p, levels, k, l, t, from, Len(t) + 1, sec2)
<1> DEFINE sz(m) == Size(p, levels, l, m)
           d == IF k = 1 THEN 0 ELSE 1
           a == Len(s) + d + 1
<1>1. PICK n \in Nat, z \in Nat : n = Len(s) /\ z = Len(b)  BY LenProperties
<1>2. /\ t \in Seq(E) /\ Len(t) = n + d + z
      /\ \A x \in 1 .. n : t[x] = s[x]
      /\ k # 1 => t[n + 1] = Barrier
      /\ \A q \in 1 .. z : t[n + d + q] = b[q]
  <2>1. d = Gap(k)  BY DEF Gap
  <2> HIDE DEF d
  <2>2. /\ Grown1(k, s, b) \in Seq(E) /\ Len(Grown1(k, s, b)) = n + d + z
        /\ \A x \in 1 .. n : Grown1(k, s, b)[x] = s[x]
        /\ k # 1 => Grown1(k, s, b)[n + 1] = Barrier
        /\ \A q \in 1 .. z : Grown1(k, s, b)[n + d + q] = b[q]
    <3>1. /\ Grown1(k, s, b) \in Seq(E) /\ Len(Grown1(k, s, b)) = Len(s) + Gap(k) + Len(b)
          /\ \A x \in 1 .. Len(s) : Grown1(k, s, b)[x] = s[x]
          /\ k # 1 => Grown1(k, s, b)[Len(s) + 1] = Barrier
          /\ \A q \in 1 .. Len(b) : Grown1(k, s, b)[Len(s) + Gap(k) + q] = b[q]
      <4>1. Barrier \in E /\ s \in Seq(E) /\ b \in Seq(E)  OBVIOUS
      <4> QED BY ONLY <4>1, GrownIs
    <3> QED BY ONLY <3>1, <1>1, <2>1
  <2> QED BY <2>2
<1>3. d \in {0, 1} /\ (k = 1 => d = 0) /\ (k # 1 => d = 1)  OBVIOUS
<1>4. a = n + d + 1 /\ a \in Nat /\ sz(k) = z
  <2>1. a = n + d + 1 /\ sz(k) = z  BY <1>1 DEF Size
  <2> HIDE DEF a, sz, d
  <2> QED BY <1>1, <1>3, <2>1
<1>5. /\ from \in Nat \ {0} /\ from <= n + 1 /\ sec \in [1 .. k - 1 -> Nat]
      /\ (k - 1 = 0 => n + 1 = from)
      /\ (k - 1 # 0 => sec[1] = from /\ sec[k - 1] + sz(k - 1) = n + 1)
      /\ \A m, h \in 1 .. k - 1 : m < h => sec[m] + sz(m) < sec[h]
      /\ \A m \in 1 .. k - 1 :
           /\ sz(m) \in Nat /\ from <= sec[m] /\ sec[m] + sz(m) <= n + 1
           /\ \A q \in 1 .. sz(m) : Alike(s[sec[m] + q - 1], Body(p, levels[m], l)[q])
           /\ m # k - 1 => sec[m + 1] = sec[m] + sz(m) + 1 /\ s[sec[m] + sz(m)] = Barrier
  BY <1>1 DEF Sections
<1>6. /\ \A m \in 1 .. k : m = k \/ m \in 1 .. k - 1
      /\ \A m \in 1 .. k - 1 : m \in 1 .. k /\ m # k /\ m + 1 \in 1 .. k
                               /\ (m + 1 = k <=> m = k - 1) /\ (m # k - 1 => m + 1 \in 1 .. k - 1)
      /\ k \in 1 .. k /\ 1 \in 1 .. k /\ (k # 1 => k - 1 \in 1 .. k - 1 /\ 1 \in 1 .. k - 1)
      /\ (k = 1 <=> k - 1 = 0)
  OBVIOUS
<1>7. sec2 = [m \in 1 .. k |-> IF m = k THEN a ELSE sec[m]]  OBVIOUS
<1> HIDE DEF a, sz, d
<1>8. sec2[k] = a /\ \A m \in 1 .. k - 1 : sec2[m] = sec[m]  BY <1>6, <1>7
<1>9. sec2 \in [1 .. k -> Nat]
  <2>1. \A m \in 1 .. k : (IF m = k THEN a ELSE sec[m]) \in Nat  BY <1>4, <1>5, <1>6
  <2> QED BY <1>7, <2>1
<1>10. PICK e \in Nat : e = n + d + z + 1 /\ Len(t) + 1 = e
  <2>1. n + d + z + 1 \in Nat  BY <1>1, <1>3
  <2> QED BY <1>2, <2>1
<1>11. n + 1 <= e /\ a + z = e /\ from <= a /\ a <= e /\ from <= e
  <2>1. PICK f \in Nat : f = from /\ f <= n + 1  BY <1>5
  <2>2. PICK g \in {0, 1} : g = d  BY <1>3
  <2>3. e = n + g + z + 1 /\ a = n + g + 1  BY <1>4, <1>10, <2>2
  <2> QED BY ONLY <2>1, <2>3, n \in Nat, z \in Nat, f \in Nat, g \in {0, 1}
<1>12. sec2[1] = from /\ sec2[k] + sz(k) = e
  <2>1. CASE k = 1
    <3>1. d = 0 /\ n + 1 = from  BY <1>3, <1>5, <1>6, <2>1
    <3>2. a = n + 1  BY <1>1, <1>4, <3>1
    <3>3. sec2[1] = a /\ sec2[k] = a /\ sz(k) = z  BY <1>4, <1>8, <2>1
    <3> QED BY <1>11, <3>1, <3>2, <3>3
  <2>2. CASE k # 1
    <3>1. 1 \in 1 .. k - 1 /\ k - 1 # 0  BY <1>6, <2>2
    <3>2. sec2[1] = sec[1] /\ sec[1] = from  BY <3>1, <1>5, <1>8
    <3> QED BY <3>2, <1>4, <1>8, <1>11
  <2> QED BY <2>1, <2>2
<1>13. ASSUME NEW m \in 1 .. k - 1
       PROVE  /\ sz(m) \in Nat /\ from <= sec2[m] /\ sec2[m] + sz(m) <= e
              /\ \A q \in 1 .. sz(m) : Alike(t[sec2[m] + q - 1], Body(p, levels[m], l)[q])
              /\ sec2[m + 1] = sec2[m] + sz(m) + 1 /\ t[sec2[m] + sz(m)] = Barrier
              /\ sec2[m] + sz(m) < a
  <2>1. PICK c \in Nat, w \in Nat, f \in Nat \ {0} : c = sec[m] /\ w = sz(m) /\ f = from /\ f <= c /\ c + w <= n + 1
    BY <1>5
  <2>0. c >= 1 /\ c + w <= n + 1
    <3>1. f >= 1 /\ f <= c /\ c + w <= n + 1  BY <2>1
    <3> QED BY ONLY <3>1, f \in Nat, c \in Nat, w \in Nat
  <2>2. sec2[m] = c  BY <1>8, <2>1
  <2>3. c + w <= e /\ c + w < a
    <3>1. k # 1  BY <1>6
    <3>2. a = n + 2  BY <1>3, <1>4, <3>1
    <3>3. n + 1 <= e /\ e \in Nat  BY <1>10, <1>11
    <3>4. c + w <= n + 1  BY <2>1
    <3> QED BY ONLY <3>2, <3>3, <3>4, n \in Nat, c \in Nat, w \in Nat
  <2>4. ASSUME NEW q \in 1 .. w PROVE Alike(t[c + q - 1], Body(p, levels[m], l)[q])
    <3>1. c + q - 1 \in 1 .. n
      BY ONLY <2>0, n \in Nat, c \in Nat, w \in Nat, q \in 1 .. w
    <3>2. t[c + q - 1] = s[c + q - 1]  BY <1>2, <3>1
    <3> QED BY <1>5, <2>1, <3>2
  <2>5. sec2[m + 1] = c + w + 1 /\ t[c + w] = Barrier
    <3>1. CASE m = k - 1
      <4>1. m + 1 = k /\ k # 1 /\ k - 1 # 0  BY <1>6, <3>1
      <4>2. sec2[m + 1] = a  BY <1>8, <4>1
      <4>3. c + w = n + 1  BY <1>5, <2>1, <3>1, <4>1
      <4>4. a = n + 2  BY <1>3, <1>4, <4>1
      <4>5. c + w + 1 = n + 2  BY <4>3, <2>1
      <4> QED BY <1>2, <4>1, <4>2, <4>3, <4>4, <4>5
    <3>2. CASE m # k - 1
      <4>1. m + 1 \in 1 .. k - 1  BY <1>6, <3>2
      <4>2. sec2[m + 1] = sec[m + 1] /\ sec[m + 1] = c + w + 1 /\ s[c + w] = Barrier
        BY <1>5, <1>8, <2>1, <3>2, <4>1
      <4>3. sec[m + 1] \in Nat /\ sec[m + 1] + sz(m + 1) <= n + 1 /\ sz(m + 1) \in Nat  BY <1>5, <4>1
      <4>4. c + w \in 1 .. n
        <5>1. PICK y \in Nat, v \in Nat : y = c + w + 1 /\ y + v <= n + 1  BY <4>2, <4>3
        <5> QED BY ONLY <5>1, <2>0, n \in Nat, c \in Nat, w \in Nat
      <4> QED BY <1>2, <4>2, <4>4
    <3> QED BY <3>1, <3>2
  <2> QED BY <2>1, <2>2, <2>3, <2>4, <2>5
<1>14. ASSUME NEW q \in 1 .. sz(k) PROVE Alike(t[sec2[k] + q - 1], Body(p, levels[k], l)[q])
  <2>1. q \in 1 .. z  BY <1>4, <1>14
  <2>2. sec2[k] + q - 1 = n + d + q  BY <1>3, <1>4, <1>8, <2>1
  <2>3. t[sec2[k] + q - 1] = b[q]  BY <1>2, <2>1, <2>2
  <2> QED BY <2>3 DEF Alike
<1>15. ASSUME NEW m \in 1 .. k
       PROVE  /\ sz(m) \in Nat /\ from <= sec2[m] /\ sec2[m] + sz(m) <= e
              /\ \A q \in 1 .. sz(m) : Alike(t[sec2[m] + q - 1], Body(p, levels[m], l)[q])
              /\ m # k => sec2[m + 1] = sec2[m] + sz(m) + 1 /\ t[sec2[m] + sz(m)] = Barrier
  <2>1. CASE m = k
    <3>1. sz(k) \in Nat  BY <1>4
    <3>2. sec2[k] + sz(k) <= e  BY <1>10, <1>12
    <3>3. from <= sec2[k]  BY <1>8, <1>11
    <3> QED BY <2>1, <3>1, <3>2, <3>3, <1>14
  <2>2. CASE m # k
    <3>1. m \in 1 .. k - 1  BY <1>6, <2>2
    <3> QED BY <3>1, <1>13
  <2> QED BY <2>1, <2>2
<1>16. ASSUME NEW m \in 1 .. k, NEW h \in 1 .. k, m < h PROVE sec2[m] + sz(m) < sec2[h]
  <2>1. m \in 1 .. k - 1  BY <1>16
  <2>2. CASE h = k  BY <1>8, <1>13, <2>1, <2>2
  <2>3. CASE h # k
    <3>1. h \in 1 .. k - 1  BY <1>6, <2>3
    <3> QED BY <3>1, <2>1, <1>5, <1>8, <1>16
  <2> QED BY <2>2, <2>3
<1>17. k # 0 /\ from \in Nat \ {0} /\ e \in Nat /\ from <= e  BY <1>5, <1>10, <1>11
<1>18. Len(t) + 1 = e  BY <1>10
<1>19. Sections(p, levels, k, l, t, from, e, sec2)
  <2>1. /\ from \in Nat \ {0} /\ e \in Nat /\ from <= e /\ sec2 \in [1 .. k -> Nat]
        /\ k = 0 => e = from
        /\ k # 0 => sec2[1] = from /\ sec2[k] + sz(k) = e
    BY <1>9, <1>12, <1>17
  <2> QED BY ONLY <2>1, <1>15, <1>16 DEF Sections, sz
<1> QED BY <1>18, <1>19
------------------------------------------------------------------------------
(* Emitting a list's levels *)

Items == [ins : Nat, at : [LaneIds -> Nat]]

StreamStates(p) == [lanes : [LaneIds -> Seq(AnyEntry(p))], queue : Seq(Items)]

\* The region job of level m.
JobOf(levels, m, sec) == [ins |-> levels[m].members[1], at |-> [l \in LaneIds |-> sec[l][m]]]

\* The queue has got the jobs of the first k levels, each once.
Queued(levels, k, sec, old, new) ==
  /\ Keeps(old, new)
  /\ \A q \in Len(old) + 1 .. Len(new) :
       \E m \in 1 .. k : levels[m].region /\ new[q] = JobOf(levels, m, sec)
  /\ \A m \in 1 .. k : levels[m].region =>
       \E q \in Len(old) + 1 .. Len(new) : new[q].ins = levels[m].members[1]
  /\ \A q, r \in Len(old) + 1 .. Len(new) : new[q].ins = new[r].ins => q = r

\* x is st with the first k levels emitted.
EmittedTo(p, st, levels, k, x) ==
  /\ x \in StreamStates(p)
  /\ k = 0 => x = st
  /\ \A l \in LaneIds : Keeps(st.lanes[l], x.lanes[l])
  /\ \E sec :
       /\ \A l \in LaneIds :
            Sections(p, levels, k, l, x.lanes[l], Len(st.lanes[l]) + 1, Len(x.lanes[l]) + 1, sec[l])
       /\ Queued(levels, k, sec, st.queue, x.queue)

Emit1(p, st, levels, x, k) == EmitLevel(p, IF k = 1 THEN st ELSE Synced(x), levels[k])

NextLanes(p, levels, x, k) == [l \in LaneIds |-> Grown1(k, x.lanes[l], Body(p, levels[k], l))]

NextJob(levels, x, k) ==
  [ins |-> levels[k].members[1], at |-> [l \in LaneIds |-> Len(x.lanes[l]) + Gap(k) + 1]]

LEMMA EmitIs ==
  ASSUME NEW p, Plain(p), NEW S, NEW levels, LevelsIn(p, S, levels), NEW k \in 1 .. Len(levels),
         NEW st, NEW x \in StreamStates(p), k = 1 => x = st
  PROVE  Emit1(p, st, levels, x, k) =
           [lanes |-> NextLanes(p, levels, x, k),
            queue |-> IF levels[k].region THEN Append(x.queue, NextJob(levels, x, k)) ELSE x.queue]
<1>1. PICK y, u : x = [lanes |-> y, queue |-> u] /\ x.lanes = y /\ x.queue = u
                  /\ y \in [LaneIds -> Seq(AnyEntry(p))]
  BY DEF StreamStates
<1>2. PICK z : z = IF k = 1 THEN y ELSE Concat(y, Everywhere(Barrier))  OBVIOUS
<1>3. (IF k = 1 THEN st ELSE Synced(x)) = [lanes |-> z, queue |-> u]
  <2>1. CASE k = 1  BY <1>1, <1>2, <2>1
  <2>2. CASE k # 1
    <3>1. Synced([lanes |-> y, queue |-> u]) = [lanes |-> Concat(y, Everywhere(Barrier)), queue |-> u]
      BY DEF Synced
    <3> QED BY <1>1, <1>2, <2>2, <3>1
  <2> QED BY <2>1, <2>2
<1>4. \A l \in LaneIds : y[l] \in Seq(AnyEntry(p))  BY <1>1
<1>5. \A l \in LaneIds : Len(z[l]) = Len(y[l]) + Gap(k)
  <2>1. CASE k = 1
    <3>1. \A l \in LaneIds : Len(y[l]) \in Nat  BY <1>4, LenProperties
    <3> QED BY <1>2, <2>1, <3>1 DEF Gap
  <2>2. CASE k # 1
    <3> SUFFICES ASSUME NEW l \in LaneIds PROVE Len(z[l]) = Len(y[l]) + 1
      BY <2>2 DEF Gap
    <3>1. z[l] = y[l] \o <<Barrier>>  BY <1>2, <2>2 DEF Concat, Everywhere
    <3>2. PICK s \in Seq(AnyEntry(p)) : s = y[l]  BY <1>4
    <3>3. PICK e \in AnyEntry(p) : e = Barrier  BY DEF AnyEntry
    <3>4. <<e>> \in Seq(AnyEntry(p)) /\ Len(<<e>>) = 1
      <4> HIDE <3>3
      <4> QED OBVIOUS
    <3> QED BY <3>1, <3>2, <3>3, <3>4, ConcatProperties
  <2> QED BY <2>1, <2>2
<1>6. NextLanes(p, levels, x, k) = [l \in LaneIds |-> z[l] \o Body(p, levels[k], l)]
  <2>1. \A l \in LaneIds : Grown1(k, y[l], Body(p, levels[k], l)) = z[l] \o Body(p, levels[k], l)
    BY <1>2 DEF Grown1, Concat, Everywhere
  <2> QED BY <1>1, <2>1 DEF NextLanes
<1>7. CASE levels[k].region
  <2>1. PICK i : i = levels[k].members[1]  OBVIOUS
  <2>2. Emit1(p, st, levels, x, k) = EmitControl(p, [lanes |-> z, queue |-> u], i)
    BY <1>3, <1>7, <2>1 DEF Emit1, EmitLevel
  <2>3. EmitControl(p, [lanes |-> z, queue |-> u], i) =
          [lanes |-> Concat(z, Everywhere(ControlEntry(p[i]))),
           queue |-> Append(u, [ins |-> i, at |-> [l \in LaneIds |-> Len(z[l]) + 1]])]
    BY DEF EmitControl
  <2>4. Concat(z, Everywhere(ControlEntry(p[i]))) = [l \in LaneIds |-> z[l] \o Body(p, levels[k], l)]
    BY <1>7, <2>1 DEF Concat, Everywhere, Body
  <2>5. [l \in LaneIds |-> Len(z[l]) + 1] = [l \in LaneIds |-> Len(y[l]) + Gap(k) + 1]  BY <1>5
  <2> QED BY <1>1, <1>6, <1>7, <2>1, <2>2, <2>3, <2>4, <2>5 DEF NextJob
<1>8. CASE ~levels[k].region
  <2>1. PICK m : m = levels[k].members  OBVIOUS
  <2>2. Emit1(p, st, levels, x, k) = EmitPhase(p, [lanes |-> z, queue |-> u], m)
    BY <1>3, <1>8, <2>1 DEF Emit1, EmitLevel
  <2>3. EmitPhase(p, [lanes |-> z, queue |-> u], m) =
          [lanes |-> Concat(z, PackUnits(Units(p, m))), queue |-> u]
    BY DEF EmitPhase
  <2>4. Concat(z, PackUnits(Units(p, m))) = [l \in LaneIds |-> z[l] \o Body(p, levels[k], l)]
    BY <1>8, <2>1 DEF Concat, Body
  <2> QED BY <1>1, <1>6, <1>8, <2>2, <2>3, <2>4
<1> QED BY <1>7, <1>8

\* One more region job.
LEMMA JobQueued ==
  ASSUME NEW k \in Nat \ {0}, NEW levels, NEW sec, NEW sec2, NEW old \in Seq(Items), NEW new \in Seq(Items),
         Queued(levels, k - 1, sec, old, new),
         \A m \in 1 .. k - 1 : JobOf(levels, m, sec2) = JobOf(levels, m, sec),
         levels[k].region, JobOf(levels, k, sec2) \in Items,
         \A m \in 1 .. k - 1 : levels[m].region => levels[m].members[1] # levels[k].members[1]
  PROVE  Queued(levels, k, sec2, old, Append(new, JobOf(levels, k, sec2)))
<1>1. PICK a \in Nat, b \in Nat : a = Len(old) /\ b = Len(new) /\ a <= b
  <2>1. Len(old) \in Nat /\ Len(new) \in Nat  BY LenProperties
  <2> QED BY <2>1 DEF Queued, Keeps
<1>2. PICK e \in Items : e = JobOf(levels, k, sec2)  OBVIOUS
<1>3. PICK t : t = Append(new, e)  OBVIOUS
<1>4. Len(t) = b + 1 /\ t[b + 1] = e /\ \A q \in 1 .. b : t[q] = new[q]
  BY <1>1, <1>3, AppendProperties
<1>5. e.ins = levels[k].members[1]  BY <1>2 DEF JobOf
<1>6. /\ \A q \in a + 1 .. b + 1 : q = b + 1 \/ (q \in a + 1 .. b /\ q \in 1 .. b)
      /\ \A q \in a + 1 .. b : q \in a + 1 .. b + 1 /\ q \in 1 .. b
      /\ \A q \in 1 .. a : q \in 1 .. b
      /\ b + 1 \in a + 1 .. b + 1 /\ a <= b + 1
      /\ \A m \in 1 .. k : m = k \/ m \in 1 .. k - 1
      /\ \A m \in 1 .. k - 1 : m \in 1 .. k
      /\ k \in 1 .. k
  BY <1>1
<1>7. /\ \A x \in 1 .. a : new[x] = old[x]
      /\ \A q \in a + 1 .. b : \E m \in 1 .. k - 1 : levels[m].region /\ new[q] = JobOf(levels, m, sec)
      /\ \A m \in 1 .. k - 1 : levels[m].region =>
           \E q \in a + 1 .. b : new[q].ins = levels[m].members[1]
      /\ \A q, r \in a + 1 .. b : new[q].ins = new[r].ins => q = r
  BY <1>1 DEF Queued, Keeps
<1>8. \A q \in a + 1 .. b : new[q].ins # e.ins
  <2> SUFFICES ASSUME NEW q \in a + 1 .. b PROVE new[q].ins # e.ins
    OBVIOUS
  <2>1. PICK m \in 1 .. k - 1 : levels[m].region /\ new[q] = JobOf(levels, m, sec)  BY <1>7
  <2>2. new[q].ins = levels[m].members[1]  BY <2>1 DEF JobOf
  <2> QED BY <1>5, <2>1, <2>2
<1>9. Keeps(old, t)
  <2>1. \A q \in 1 .. a : t[q] = old[q]  BY <1>4, <1>6, <1>7
  <2> QED BY <2>1, <1>1, <1>4, <1>6 DEF Keeps
<1>10. ASSUME NEW q \in a + 1 .. b + 1
       PROVE  \E m \in 1 .. k : levels[m].region /\ t[q] = JobOf(levels, m, sec2)
  <2>1. CASE q = b + 1  BY <1>2, <1>4, <1>6, <2>1
  <2>2. CASE q # b + 1
    <3>1. q \in a + 1 .. b /\ t[q] = new[q]  BY <1>4, <1>6, <2>2
    <3>2. PICK m \in 1 .. k - 1 : levels[m].region /\ new[q] = JobOf(levels, m, sec)  BY <1>7, <3>1
    <3> QED BY <3>1, <3>2, <1>6
  <2> QED BY <2>1, <2>2
<1>11. ASSUME NEW m \in 1 .. k, levels[m].region
       PROVE  \E q \in a + 1 .. b + 1 : t[q].ins = levels[m].members[1]
  <2>1. CASE m = k  BY <1>4, <1>5, <1>6, <2>1
  <2>2. CASE m # k
    <3>1. m \in 1 .. k - 1  BY <1>6, <2>2
    <3>2. PICK q \in a + 1 .. b : new[q].ins = levels[m].members[1]  BY <3>1, <1>7, <1>11
    <3> QED BY <3>2, <1>4, <1>6
  <2> QED BY <2>1, <2>2
<1>12. ASSUME NEW q \in a + 1 .. b + 1, NEW r \in a + 1 .. b + 1, t[q].ins = t[r].ins PROVE q = r
  <2>1. CASE q \in a + 1 .. b /\ r \in a + 1 .. b
    <3>1. t[q] = new[q] /\ t[r] = new[r]  BY <1>4, <1>6, <2>1
    <3> QED BY <3>1, <1>7, <1>12, <2>1
  <2>2. CASE q = b + 1 /\ r \in a + 1 .. b
    <3>1. t[q] = e /\ t[r] = new[r]  BY <1>4, <1>6, <2>2
    <3> QED BY <3>1, <1>8, <1>12, <2>2
  <2>3. CASE r = b + 1 /\ q \in a + 1 .. b
    <3>1. t[r] = e /\ t[q] = new[q]  BY <1>4, <1>6, <2>3
    <3> QED BY <3>1, <1>8, <1>12, <2>3
  <2>4. CASE q = b + 1 /\ r = b + 1  BY <2>4
  <2> QED BY <1>6, <2>1, <2>2, <2>3, <2>4
<1>13. Queued(levels, k, sec2, old, t)  BY <1>1, <1>4, <1>9, <1>10, <1>11, <1>12 DEF Queued
<1> QED BY <1>2, <1>3, <1>13

\* No region job.
LEMMA NoneQueued ==
  ASSUME NEW k \in Nat \ {0}, NEW levels, NEW sec, NEW sec2, NEW old, NEW new,
         Queued(levels, k - 1, sec, old, new),
         \A m \in 1 .. k - 1 : JobOf(levels, m, sec2) = JobOf(levels, m, sec), ~levels[k].region
  PROVE  Queued(levels, k, sec2, old, new)
<1>1. /\ \A m \in 1 .. k : m = k \/ m \in 1 .. k - 1
      /\ \A m \in 1 .. k - 1 : m \in 1 .. k
  OBVIOUS
<1>2. \A q \in Len(old) + 1 .. Len(new) :
        \E m \in 1 .. k : levels[m].region /\ new[q] = JobOf(levels, m, sec2)
  <2> SUFFICES ASSUME NEW q \in Len(old) + 1 .. Len(new)
               PROVE  \E m \in 1 .. k : levels[m].region /\ new[q] = JobOf(levels, m, sec2)
    OBVIOUS
  <2>1. PICK m \in 1 .. k - 1 : levels[m].region /\ new[q] = JobOf(levels, m, sec)  BY DEF Queued
  <2> QED BY <1>1, <2>1
<1>3. \A m \in 1 .. k : levels[m].region =>
        \E q \in Len(old) + 1 .. Len(new) : new[q].ins = levels[m].members[1]
  <2> SUFFICES ASSUME NEW m \in 1 .. k, levels[m].region
               PROVE  \E q \in Len(old) + 1 .. Len(new) : new[q].ins = levels[m].members[1]
    OBVIOUS
  <2>1. m \in 1 .. k - 1  BY <1>1
  <2> QED BY <2>1 DEF Queued
<1> QED BY <1>2, <1>3 DEF Queued

\* One more level emitted.
LEMMA EmitStep ==
  ASSUME NEW p, Plain(p), NEW S, NEW levels, LevelsIn(p, S, levels), NEW k \in 1 .. Len(levels),
         NEW st \in StreamStates(p), NEW x, EmittedTo(p, st, levels, k - 1, x)
  PROVE  EmittedTo(p, st, levels, k, Emit1(p, st, levels, x, k))
<1>0. PICK M \in Nat : M = Len(levels)
  <2>1. levels \in Seq(Levels)  BY DEF LevelsIn, Layered
  <2> QED BY <2>1, LenProperties
<1>1. k \in Nat \ {0} /\ (k - 1 = 0 <=> k = 1)  BY <1>0
<1>2. x \in StreamStates(p) /\ (k = 1 => x = st) /\ \A l \in LaneIds : Keeps(st.lanes[l], x.lanes[l])
  BY <1>1 DEF EmittedTo
<1>3. PICK sec :
        /\ \A l \in LaneIds :
             Sections(p, levels, k - 1, l, x.lanes[l], Len(st.lanes[l]) + 1, Len(x.lanes[l]) + 1, sec[l])
        /\ Queued(levels, k - 1, sec, st.queue, x.queue)
  BY DEF EmittedTo
<1> DEFINE E == AnyEntry(p)
           b(l) == Body(p, levels[k], l)
           s(l) == x.lanes[l]
           t(l) == Grown1(k, s(l), b(l))
           sec2 == [l \in LaneIds |-> [m \in 1 .. k |-> IF m = k THEN Len(s(l)) + Gap(k) + 1 ELSE sec[l][m]]]
           z == Emit1(p, st, levels, x, k)
<1>4. z = [lanes |-> NextLanes(p, levels, x, k),
           queue |-> IF levels[k].region THEN Append(x.queue, NextJob(levels, x, k)) ELSE x.queue]
  BY <1>2, EmitIs
<1>5. z.lanes = [l \in LaneIds |-> t(l)]  BY <1>4 DEF NextLanes
<1>6. \A l \in LaneIds : s(l) \in Seq(E) /\ st.lanes[l] \in Seq(E) /\ b(l) \in Seq(E)
  <2>1. x.lanes \in [LaneIds -> Seq(E)] /\ st.lanes \in [LaneIds -> Seq(E)]  BY <1>2 DEF StreamStates
  <2>2. \A l \in LaneIds : b(l) \in Seq(E)  BY BodyTyped
  <2> QED BY <2>1, <2>2
<1>7. x.queue \in Seq(Items) /\ st.queue \in Seq(Items)  BY <1>2 DEF StreamStates
<1>8. Barrier \in E  BY DEF AnyEntry
<1> HIDE DEF z, E
<1>9. ASSUME NEW l \in LaneIds
      PROVE  /\ t(l) \in Seq(E) /\ Keeps(s(l), t(l)) /\ Keeps(st.lanes[l], t(l))
             /\ Sections(p, levels, k, l, t(l), Len(st.lanes[l]) + 1, Len(t(l)) + 1, sec2[l])
  <2>1. /\ t(l) \in Seq(E) /\ Len(t(l)) = Len(s(l)) + Gap(k) + Len(b(l))
        /\ \A y \in 1 .. Len(s(l)) : t(l)[y] = s(l)[y]
    <3>1. s(l) \in Seq(E) /\ b(l) \in Seq(E)  BY <1>6
    <3>2. PICK v \in Seq(E), w \in Seq(E) : v = s(l) /\ w = b(l)  BY <3>1
    <3>3. /\ Grown1(k, v, w) \in Seq(E) /\ Len(Grown1(k, v, w)) = Len(v) + Gap(k) + Len(w)
          /\ \A y \in 1 .. Len(v) : Grown1(k, v, w)[y] = v[y]
          /\ k # 1 => Grown1(k, v, w)[Len(v) + 1] = Barrier
          /\ \A q \in 1 .. Len(w) : Grown1(k, v, w)[Len(v) + Gap(k) + q] = w[q]
      BY ONLY <1>8, GrownIs, v \in Seq(E), w \in Seq(E)
    <3> QED BY <3>2, <3>3
  <2>2. Len(s(l)) \in Nat /\ Len(b(l)) \in Nat /\ Gap(k) \in Nat /\ Len(st.lanes[l]) \in Nat
    BY <1>6, LenProperties DEF Gap
  <2> DEFINE r == s(l)
             u == t(l)
  <2>3. Keeps(r, u)
    <3>1. Len(r) <= Len(u)
      <4> DEFINE c == Len(r)
                 d == Len(b(l))
                 e == Gap(k)
      <4>1. c \in Nat /\ d \in Nat /\ e \in Nat /\ Len(u) = c + e + d  BY <2>1, <2>2
      <4> HIDE DEF c, d, e, u
      <4>2. c <= Len(u)  BY <4>1
      <4> QED BY <4>2 DEF c
    <3> QED BY <2>1, <3>1 DEF Keeps
  <2>4. Keeps(st.lanes[l], u)
    <3>1. Keeps(st.lanes[l], r)  BY <1>2
    <3>2. Len(r) \in Nat /\ Len(u) \in Nat /\ Len(st.lanes[l]) \in Nat  BY <2>1, <2>2, LenProperties
    <3> HIDE DEF r, u
    <3>3. \A y \in 1 .. Len(st.lanes[l]) : y \in 1 .. Len(r)  BY <3>1, <3>2 DEF Keeps
    <3> QED BY <2>3, <3>1, <3>2, <3>3 DEF Keeps
  <2>5. sec2[l] = [m \in 1 .. k |-> IF m = k THEN Len(r) + (IF k = 1 THEN 0 ELSE 1) + 1 ELSE sec[l][m]]
    BY DEF Gap
  <2>6. Sections(p, levels, k - 1, l, r, Len(st.lanes[l]) + 1, Len(r) + 1, sec[l])  BY <1>3
  <2>7. Sections(p, levels, k, l, u, Len(st.lanes[l]) + 1, Len(u) + 1, sec2[l])
    <3>1. r \in Seq(E) /\ b(l) \in Seq(E)  BY <1>6
    <3>2. u = Grown1(k, r, b(l))  OBVIOUS
    <3> HIDE DEF r, u, sec2
    <3> QED BY <1>1, <1>8, <2>5, <2>6, <3>1, <3>2, SectionAdded
  <2> QED BY <2>1, <2>3, <2>4, <2>7
<1>10. ASSUME NEW m \in 1 .. k - 1 PROVE JobOf(levels, m, sec2) = JobOf(levels, m, sec)
  <2>1. m \in 1 .. k /\ m # k  BY <1>1
  <2>2. \A l \in LaneIds : sec2[l][m] = sec[l][m]  BY <2>1
  <2> QED BY <2>2 DEF JobOf
<1>11. JobOf(levels, k, sec2) = NextJob(levels, x, k)
  <2>1. k \in 1 .. k  BY <1>1
  <2>2. \A l \in LaneIds : sec2[l][k] = Len(x.lanes[l]) + Gap(k) + 1  BY <2>1
  <2> QED BY <2>2 DEF JobOf, NextJob
<1> HIDE DEF sec2
<1>12. Queued(levels, k, sec2, st.queue, z.queue) /\ z.queue \in Seq(Items)
  <2>1. CASE levels[k].region
    <3>1. z.queue = Append(x.queue, JobOf(levels, k, sec2))  BY <1>4, <1>11, <2>1
    <3>2. PICK i \in Nat : i = levels[k].members[1] /\ Members(levels, k) = {i}
      <4>1. OneKind(p, levels, k)  BY DEF LevelsIn, Layered
      <4>2. PICK i \in Nat : levels[k].members = <<i>>  BY <4>1, <2>1 DEF OneKind
      <4> QED BY <4>2 DEF Members, ToSet
    <3>3. JobOf(levels, k, sec2) \in Items
      <4>1. \A l \in LaneIds : Len(x.lanes[l]) + Gap(k) + 1 \in Nat
        <5> SUFFICES ASSUME NEW l \in LaneIds PROVE Len(x.lanes[l]) + Gap(k) + 1 \in Nat
          OBVIOUS
        <5>1. PICK n \in Nat, g \in Nat : n = Len(x.lanes[l]) /\ g = Gap(k)
          <6>1. Len(x.lanes[l]) \in Nat  BY <1>6, LenProperties
          <6>2. Gap(k) \in Nat  BY DEF Gap
          <6> QED BY <6>1, <6>2
        <5>2. n + g + 1 \in Nat  BY ONLY n \in Nat, g \in Nat
        <5> QED BY <5>1, <5>2
      <4> QED BY <1>11, <3>2, <4>1 DEF NextJob, Items
    <3>4. ASSUME NEW m \in 1 .. k - 1, levels[m].region PROVE levels[m].members[1] # levels[k].members[1]
      <4>1. m \in 1 .. Len(levels) /\ m < k  BY <1>0
      <4>2. OneKind(p, levels, m)  BY <4>1 DEF LevelsIn, Layered
      <4>3. PICK h \in Nat : levels[m].members = <<h>>  BY <4>2, <3>4 DEF OneKind
      <4>4. h \in Members(levels, m) /\ h = levels[m].members[1]  BY <4>3 DEF Members, ToSet
      <4>5. h < i  BY <3>2, <4>1, <4>4 DEF LevelsIn, Layered
      <4> QED BY <3>2, <4>4, <4>5
    <3>5. Append(x.queue, JobOf(levels, k, sec2)) \in Seq(Items)  BY <1>7, <3>3
    <3> QED BY <1>1, <1>3, <1>7, <1>10, <2>1, <3>1, <3>3, <3>4, <3>5, JobQueued
  <2>2. CASE ~levels[k].region
    <3>1. z.queue = x.queue  BY <1>4, <2>2
    <3> QED BY <1>1, <1>3, <1>7, <1>10, <2>2, <3>1, NoneQueued
  <2> QED BY <2>1, <2>2
<1>13. z \in StreamStates(p)
  <2>1. z.lanes \in [LaneIds -> Seq(E)]  BY <1>5, <1>9
  <2>2. z = [lanes |-> z.lanes, queue |-> z.queue]  BY <1>4
  <2> QED BY <1>12, <2>1, <2>2 DEF StreamStates, E
<1>14. \A l \in LaneIds : z.lanes[l] = t(l)  BY <1>5
<1>15. \A l \in LaneIds :
         Sections(p, levels, k, l, z.lanes[l], Len(st.lanes[l]) + 1, Len(z.lanes[l]) + 1, sec2[l])
  BY <1>9, <1>14
<1>16. \A l \in LaneIds : Keeps(st.lanes[l], z.lanes[l])  BY <1>9, <1>14
<1>17. EmittedTo(p, st, levels, k, z)  BY <1>1, <1>12, <1>13, <1>15, <1>16 DEF EmittedTo
<1> QED BY <1>17 DEF z

\* All levels.
LEMMA ListEmitted ==
  ASSUME NEW p, Plain(p), NEW S, NEW levels, LevelsIn(p, S, levels), NEW st \in StreamStates(p)
  PROVE  EmittedTo(p, st, levels, Len(levels), EmitLevels(p, st, levels))
<1> DEFINE N == Len(levels)
           Is(f) == f = [k \in 0 .. Len(levels) |->
                           IF k = 0 THEN st
                           ELSE EmitLevel(p, IF k = 1 THEN st ELSE Synced(f[k - 1]), levels[k])]
           h == CHOOSE f : Is(f)
           T == StreamStates(p)
           G == [k \in 0 .. N |-> {x \in T : EmittedTo(p, st, levels, k, x)}]
           step == [k \in 1 .. N |-> [x \in T |-> Emit1(p, st, levels, x, k)]]
<1>1. EmitLevels(p, st, levels) = h[N]  BY DEF EmitLevels
<1>2. N \in Nat
  <2>1. levels \in Seq(Levels)  BY DEF LevelsIn, Layered
  <2> QED BY <2>1, LenProperties
<1>3. EmittedTo(p, st, levels, 0, st)
  <2>1. \A l \in LaneIds : Len(st.lanes[l]) \in Nat
    <3>1. \A l \in LaneIds : st.lanes[l] \in Seq(AnyEntry(p))  BY DEF StreamStates
    <3> QED BY <3>1, LenProperties
  <2>2. Len(st.queue) \in Nat
    <3>1. st.queue \in Seq(Items)  BY DEF StreamStates
    <3> QED BY <3>1, LenProperties
  <2>3. \A l \in LaneIds : Keeps(st.lanes[l], st.lanes[l])  BY <2>1 DEF Keeps
  <2>4. PICK sec : sec = [l \in LaneIds |-> [m \in {} |-> 0]]  OBVIOUS
  <2>5. ASSUME NEW l \in LaneIds
        PROVE  Sections(p, levels, 0, l, st.lanes[l], Len(st.lanes[l]) + 1, Len(st.lanes[l]) + 1, sec[l])
    <3>1. PICK n \in Nat : n = Len(st.lanes[l])  BY <2>1
    <3>2. n + 1 \in Nat \ {0} /\ n + 1 <= n + 1 /\ 1 .. 0 = {}  OBVIOUS
    <3>3. sec[l] \in [1 .. 0 -> Nat]  BY <2>4, <3>2
    <3>4. Sections(p, levels, 0, l, st.lanes[l], n + 1, n + 1, sec[l])  BY <3>2, <3>3 DEF Sections
    <3> QED BY <3>1, <3>4
  <2>6. Queued(levels, 0, sec, st.queue, st.queue)
    <3>1. PICK n \in Nat : n = Len(st.queue)  BY <2>2
    <3>2. n + 1 .. n = {} /\ 1 .. 0 = {} /\ n <= n  OBVIOUS
    <3> QED BY <3>1, <3>2 DEF Queued, Keeps
  <2> QED BY <2>3, <2>5, <2>6 DEF EmittedTo
<1> HIDE DEF N, T
<1>4. Leads(N, T, G, st, step)
  <2>1. st \in G[0]  BY <1>2, <1>3 DEF T
  <2>2. ASSUME NEW k \in 1 .. N, NEW x \in G[k - 1] PROVE step[k][x] \in G[k]
    <3>1. k - 1 \in 0 .. N /\ k \in 0 .. N  BY <1>2
    <3>2. x \in T /\ EmittedTo(p, st, levels, k - 1, x)  BY <3>1
    <3>3. step[k][x] = Emit1(p, st, levels, x, k)  BY <3>2
    <3>4. EmittedTo(p, st, levels, k, Emit1(p, st, levels, x, k))  BY <3>2, EmitStep DEF N
    <3>5. Emit1(p, st, levels, x, k) \in T  BY <3>4 DEF EmittedTo, T
    <3> QED BY <3>1, <3>3, <3>4, <3>5
  <2>3. \A k \in 0 .. N : G[k] \subseteq T  OBVIOUS
  <2> HIDE DEF G, step
  <2> QED BY <2>1, <2>2, <2>3 DEF Leads
<1>5. PICK f \in [0 .. N -> T] : /\ f[0] = st
                                 /\ \A k \in 0 .. N : f[k] \in G[k]
                                 /\ \A k \in 1 .. N : f[k] = step[k][f[k - 1]]
  <2> HIDE DEF G, step
  <2> QED BY <1>2, <1>4, Reached
<1>6. Is(f)
  <2>1. \A k \in 1 .. N : k - 1 \in 0 .. N /\ f[k - 1] \in T  BY <1>2
  <2>2. \A k \in 1 .. N : f[k] = Emit1(p, st, levels, f[k - 1], k)  BY <1>5, <2>1
  <2>3. f = [k \in 0 .. N |-> f[k]] /\ \A k \in 0 .. N : k = 0 \/ k \in 1 .. N  BY <1>2
  <2>4. \A k \in 0 .. N : f[k] = IF k = 0 THEN st
                                 ELSE EmitLevel(p, IF k = 1 THEN st ELSE Synced(f[k - 1]), levels[k])
    BY <1>5, <2>2, <2>3 DEF Emit1
  <2> QED BY <2>3, <2>4 DEF N
<1>7. Is(h)
  <2>1. \E g : Is(g)  BY <1>6
  <2> HIDE DEF Is
  <2> QED BY <2>1
<1> HIDE DEF h
<1>8. Heeds(h, N, G, st, step)
  <2>1. \A k \in 0 .. N : h[k] = IF k = 0 THEN st ELSE Emit1(p, st, levels, h[k - 1], k)
    <3>1. h = [k \in 0 .. N |-> IF k = 0 THEN st ELSE Emit1(p, st, levels, h[k - 1], k)]
      BY <1>7 DEF N, Emit1
    <3> QED BY <3>1
  <2>2. 0 \in 0 .. N /\ \A k \in 1 .. N : k \in 0 .. N /\ k # 0 /\ k - 1 \in 0 .. N  BY <1>2
  <2>3. h[0] = st  BY <2>1, <2>2
  <2>4. ASSUME NEW k \in 1 .. N, h[k - 1] \in G[k - 1] PROVE h[k] = step[k][h[k - 1]]
    <3>1. h[k - 1] \in T  BY <2>2, <2>4
    <3>2. h[k] = Emit1(p, st, levels, h[k - 1], k)  BY <2>1, <2>2
    <3> QED BY <3>1, <3>2
  <2> HIDE DEF G, step
  <2> QED BY <2>3, <2>4 DEF Heeds
<1>9. h[N] \in G[N]
  <2>1. \A k \in 0 .. N : h[k] \in G[k]
    <3> HIDE DEF G, step
    <3> QED BY <1>2, <1>4, <1>8, Kept
  <2>2. N \in 0 .. N  BY <1>2
  <2> QED BY <2>1, <2>2
<1>10. EmittedTo(p, st, levels, N, h[N])
  <2>1. N \in 0 .. N  BY <1>2
  <2> QED BY <1>9, <2>1
<1> QED BY <1>1, <1>10 DEF N
------------------------------------------------------------------------------
(* The lists' levels *)

Idle == [region |-> FALSE, members |-> <<>>]

\* A root without work gets a barrier in every lane, as if for two idle levels.
LevelsFor(p, mainLen, g) ==
  IF g = RootList /\ Busy(p, 1 .. mainLen) = {} THEN <<Idle, Idle>> ELSE ListLevels(p, mainLen, g)

\* Level m of list g is region instruction i.
RegionAt(p, mainLen, g, m, i) ==
  /\ m \in 1 .. Len(LevelsFor(p, mainLen, g)) /\ LevelsFor(p, mainLen, g)[m].region
  /\ i = LevelsFor(p, mainLen, g)[m].members[1]

LEMMA IdleBody ==
  ASSUME NEW p, Plain(p), NEW l \in LaneIds
  PROVE  Body(p, Idle, l) = <<>>
<1>1. Free(p, {})
  <2>1. Len(p) \in Nat  BY DEF Plain
  <2> QED BY <2>1 DEF Free
<1>2. ToSet(<<>>) = {}  BY DEF ToSet
<1>3. PackUnits(Units(p, <<>>))[l] \in Seq(TileEntries({}))  BY <1>1, <1>2, PhaseBody
<1>4. TileEntries({}) = {}  BY DEF TileEntries
<1>5. PICK s \in Seq({}) : s = PackUnits(Units(p, <<>>))[l]  BY <1>3, <1>4
<1>6. s = <<>>
  <2>1. Len(s) \in Nat /\ s \in [1 .. Len(s) -> {}]  BY LenProperties
  <2>2. Len(s) = 0  BY <2>1
  <2> QED BY <2>2, EmptySeq
<1>7. Body(p, Idle, l) = PackUnits(Units(p, <<>>))[l]  BY DEF Body, Idle
<1> QED BY <1>5, <1>6, <1>7

LEMMA LevelFacts ==
  ASSUME NEW p, NEW mainLen, Listing(p, mainLen), NEW g \in AllLists(p)
  PROVE  /\ Len(LevelsFor(p, mainLen, g)) \in Nat
         /\ \A m \in 1 .. Len(LevelsFor(p, mainLen, g)) : \A l \in LaneIds :
              /\ Body(p, LevelsFor(p, mainLen, g)[m], l) \in Seq(AnyEntry(p))
              /\ ~LevelsFor(p, mainLen, g)[m].region =>
                   Body(p, LevelsFor(p, mainLen, g)[m], l) \in Seq(TileEntries(1 .. Len(p)))
         /\ \A m, i : RegionAt(p, mainLen, g, m, i) =>
              /\ i \in Regions(p) /\ i \in Listed(p, mainLen, g)
              /\ ControlEntry(p[i]) \in AnyEntry(p) /\ Steers(ControlEntry(p[i]))
              /\ \A l \in LaneIds : Body(p, LevelsFor(p, mainLen, g)[m], l) = <<ControlEntry(p[i])>>
         /\ \A m, n, i : RegionAt(p, mainLen, g, m, i) /\ RegionAt(p, mainLen, g, n, i) => m = n
<1> DEFINE levels == LevelsFor(p, mainLen, g)
<1>0. Plain(p)  BY DEF Listing
<1>1. CASE g = RootList /\ Busy(p, 1 .. mainLen) = {}
  <2>1. levels = <<Idle, Idle>>  BY <1>1 DEF LevelsFor
  <2>2. Len(levels) = 2  BY <2>1
  <2>3. \A m \in 1 .. 2 : levels[m] = Idle  BY <2>1
  <2>4. ~Idle.region  BY DEF Idle
  <2>5. \A l \in LaneIds : Body(p, Idle, l) = <<>>  BY <1>0, IdleBody
  <2>6. <<>> \in Seq(AnyEntry(p)) /\ <<>> \in Seq(TileEntries(1 .. Len(p)))  OBVIOUS
  <2>7. \A m, i : ~RegionAt(p, mainLen, g, m, i)  BY <2>2, <2>3, <2>4 DEF RegionAt
  <2> HIDE DEF levels
  <2>8. \A m \in 1 .. Len(levels) : \A l \in LaneIds :
          Body(p, levels[m], l) \in Seq(AnyEntry(p)) /\ Body(p, levels[m], l) \in Seq(TileEntries(1 .. Len(p)))
    BY <2>2, <2>3, <2>5, <2>6
  <2> QED BY <2>2, <2>7, <2>8 DEF levels
<1>2. CASE ~(g = RootList /\ Busy(p, 1 .. mainLen) = {})
  <2> DEFINE S == Busy(p, Listed(p, mainLen, g))
  <2>1. levels = ListLevels(p, mainLen, g)  BY <1>2 DEF LevelsFor
  <2>2. Layered(p, S, levels)  BY <2>1, ListLayered
  <2>3. S \subseteq Listed(p, mainLen, g)  BY DEF Busy
  <2>4. LevelsIn(p, S, levels)
    <3>1. Listed(p, mainLen, g) \subseteq 1 .. Len(p)  BY ListFacts
    <3> QED BY <2>2, <2>3, <3>1 DEF LevelsIn
  <2> HIDE DEF levels, S
  <2>5. Len(levels) \in Nat
    <3>1. levels \in Seq(Levels)  BY <2>2 DEF Layered
    <3> QED BY <3>1, LenProperties
  <2>6. ASSUME NEW m \in 1 .. Len(levels), NEW l \in LaneIds
        PROVE  /\ Body(p, levels[m], l) \in Seq(AnyEntry(p))
               /\ levels[m].region =>
                    \E i \in Regions(p) :
                      /\ i = levels[m].members[1] /\ Members(levels, m) = {i} /\ i \in S
                      /\ Body(p, levels[m], l) = <<ControlEntry(p[i])>>
                      /\ ControlEntry(p[i]) \in AnyEntry(p) /\ Steers(ControlEntry(p[i]))
               /\ ~levels[m].region => Body(p, levels[m], l) \in Seq(TileEntries(1 .. Len(p)))
    BY <1>0, <2>4, BodyTyped
  <2>7. ASSUME NEW m, NEW i, RegionAt(p, mainLen, g, m, i)
        PROVE  /\ i \in Regions(p) /\ i \in Listed(p, mainLen, g)
               /\ ControlEntry(p[i]) \in AnyEntry(p) /\ Steers(ControlEntry(p[i]))
               /\ Members(levels, m) = {i} /\ m \in 1 .. Len(levels)
               /\ \A l \in LaneIds : Body(p, levels[m], l) = <<ControlEntry(p[i])>>
    <3>1. m \in 1 .. Len(levels) /\ levels[m].region /\ i = levels[m].members[1]
      BY <2>7 DEF RegionAt, levels
    <3>2. PICK l0 \in LaneIds : TRUE  BY NLanesPositive DEF LaneIds
    <3>3. i \in Regions(p) /\ Members(levels, m) = {i} /\ i \in S
          /\ ControlEntry(p[i]) \in AnyEntry(p) /\ Steers(ControlEntry(p[i]))
      BY <2>6, <3>1, <3>2
    <3>4. \A l \in LaneIds : Body(p, levels[m], l) = <<ControlEntry(p[i])>>  BY <2>6, <3>1
    <3> QED BY <2>3, <3>1, <3>3, <3>4
  <2>8. ASSUME NEW m, NEW n, NEW i, RegionAt(p, mainLen, g, m, i), RegionAt(p, mainLen, g, n, i)
        PROVE  m = n
    <3>1. /\ m \in 1 .. Len(levels) /\ n \in 1 .. Len(levels)
          /\ i \in Members(levels, m) /\ i \in Members(levels, n) /\ i \in Regions(p)
      BY <2>7, <2>8
    <3>2. \A a, b \in 1 .. Len(levels) : a < b => \A j \in Members(levels, a), k \in Members(levels, b) : j < k
      BY <2>2 DEF Layered
    <3>3. i \in Nat  BY <1>0, <3>1 DEF Regions, Plain
    <3>4. ~(m < n) /\ ~(n < m)  BY <3>1, <3>2, <3>3
    <3> QED BY <2>5, <3>1, <3>4
  <2>9. \A m \in 1 .. Len(levels) : \A l \in LaneIds :
          /\ Body(p, levels[m], l) \in Seq(AnyEntry(p))
          /\ ~levels[m].region => Body(p, levels[m], l) \in Seq(TileEntries(1 .. Len(p)))
    BY <2>6
  <2>10. \A m, i : RegionAt(p, mainLen, g, m, i) =>
           /\ i \in Regions(p) /\ i \in Listed(p, mainLen, g)
           /\ ControlEntry(p[i]) \in AnyEntry(p) /\ Steers(ControlEntry(p[i]))
           /\ \A l \in LaneIds : Body(p, levels[m], l) = <<ControlEntry(p[i])>>
    BY <2>7
  <2>11. \A m, n, i : RegionAt(p, mainLen, g, m, i) /\ RegionAt(p, mainLen, g, n, i) => m = n  BY <2>8
  <2> QED BY <2>5, <2>9, <2>10, <2>11 DEF levels
<1> QED BY <1>1, <1>2
------------------------------------------------------------------------------
(* Lists in streams *)

\* Stream t is s, perhaps with more to it and with other ranges in its entries.
Recast(s, t) == Len(s) <= Len(t) /\ \A x \in 1 .. Len(s) : Alike(t[x], s[x])

LEMMA AlikeFacts ==
  /\ \A e : Alike(e, e)
  /\ \A e, f, g : Alike(e, f) /\ Alike(f, g) => Alike(e, g)
  /\ \A e : Alike(e, Barrier) => e = Barrier
  /\ \A e, f : ~Steers(f) /\ Alike(e, f) => e = f
  /\ \A e, f : Steers(f) /\ Alike(e, f) => Steers(e) /\ e.kind = f.kind /\ e.flag = f.flag /\ e.trips = f.trips
<1>1. ~Steers(Barrier)  BY DEF Steers, Barrier
<1>2. \A e : Alike(e, e)  BY DEF Alike
<1>3. ASSUME NEW e, NEW f, NEW g, Alike(e, f), Alike(f, g) PROVE Alike(e, g)
  <2>1. CASE Steers(g)
    <3>1. Steers(f) /\ f.kind = g.kind /\ f.flag = g.flag /\ f.trips = g.trips  BY <1>3, <2>1 DEF Alike
    <3>2. Steers(e) /\ e.kind = f.kind /\ e.flag = f.flag /\ e.trips = f.trips  BY <1>3, <3>1 DEF Alike
    <3>3. e.kind = g.kind /\ e.flag = g.flag /\ e.trips = g.trips  BY <3>1, <3>2
    <3> QED BY <2>1, <3>2, <3>3 DEF Alike
  <2>2. CASE ~Steers(g)
    <3>1. f = g  BY <1>3, <2>2 DEF Alike
    <3> QED BY <1>3, <3>1
  <2> QED BY <2>1, <2>2
<1>4. \A e, f : ~Steers(f) /\ Alike(e, f) => e = f  BY DEF Alike
<1>5. \A e, f : Steers(f) /\ Alike(e, f) => Steers(e) /\ e.kind = f.kind /\ e.flag = f.flag /\ e.trips = f.trips
  BY DEF Alike
<1> QED BY <1>1, <1>2, <1>3, <1>4, <1>5

LEMMA KeepsRecast == ASSUME NEW s, NEW t, Keeps(s, t) PROVE Recast(s, t)
BY AlikeFacts DEF Keeps, Recast

\* Where the entries of a section are.
LEMMA SectionWithin ==
  ASSUME NEW p, NEW levels, NEW M \in Nat, NEW l, NEW s, NEW from, NEW end, NEW sec,
         Sections(p, levels, M, l, s, from, end, sec), NEW n \in Nat, end <= n + 1
  PROVE  /\ \A m \in 1 .. M : \A q \in 1 .. Size(p, levels, l, m) :
              /\ sec[m] + q - 1 \in 1 .. n /\ from <= sec[m] + q - 1 /\ sec[m] + q - 1 < end
         /\ \A m \in 1 .. M : m # M =>
              /\ sec[m] + Size(p, levels, l, m) \in 1 .. n
              /\ from <= sec[m] + Size(p, levels, l, m) /\ sec[m] + Size(p, levels, l, m) < end
<1>1. PICK a \in Nat, b \in Nat : a = from /\ b = end /\ a # 0  BY DEF Sections
<1>2. ASSUME NEW m \in 1 .. M
      PROVE  \E c \in Nat, z \in Nat : c = sec[m] /\ z = Size(p, levels, l, m) /\ a <= c /\ c + z <= b
  BY <1>1 DEF Sections
<1>3. ASSUME NEW m \in 1 .. M, NEW q \in 1 .. Size(p, levels, l, m)
      PROVE  sec[m] + q - 1 \in 1 .. n /\ a <= sec[m] + q - 1 /\ sec[m] + q - 1 < b
  <2>1. PICK c \in Nat, z \in Nat : c = sec[m] /\ z = Size(p, levels, l, m) /\ a <= c /\ c + z <= b  BY <1>2
  <2>2. q \in 1 .. z  BY <2>1
  <2>3. c + q - 1 \in 1 .. n /\ a <= c + q - 1 /\ c + q - 1 < b
    BY ONLY <1>1, <2>1, <2>2, end <= n + 1, n \in Nat, a \in Nat, b \in Nat, c \in Nat, z \in Nat
  <2> QED BY <2>1, <2>3
<1>4. ASSUME NEW m \in 1 .. M, m # M
      PROVE  /\ sec[m] + Size(p, levels, l, m) \in 1 .. n
             /\ a <= sec[m] + Size(p, levels, l, m) /\ sec[m] + Size(p, levels, l, m) < b
  <2>1. PICK c \in Nat, z \in Nat : c = sec[m] /\ z = Size(p, levels, l, m) /\ a <= c /\ c + z <= b  BY <1>2
  <2>2. m + 1 \in 1 .. M  BY <1>4
  <2>3. PICK d \in Nat, y \in Nat : d = sec[m + 1] /\ y = Size(p, levels, l, m + 1) /\ a <= d /\ d + y <= b
    BY <1>2, <2>2
  <2>4. d = c + z + 1  BY <1>4, <2>1, <2>3 DEF Sections
  <2>5. c + z \in 1 .. n /\ a <= c + z /\ c + z < b
    BY ONLY <1>1, <2>1, <2>3, <2>4, end <= n + 1, n \in Nat, a \in Nat, b \in Nat, c \in Nat, z \in Nat, d \in Nat, y \in Nat
  <2> QED BY <2>1, <2>5
<1> QED BY <1>1, <1>3, <1>4

\* A section stays where it is.
LEMMA SectionKept ==
  ASSUME NEW p, NEW levels, NEW M \in Nat, NEW l, NEW s, Len(s) \in Nat, NEW t, Recast(s, t),
         NEW from, NEW end, NEW sec, Sections(p, levels, M, l, s, from, end, sec), end <= Len(s) + 1
  PROVE  Sections(p, levels, M, l, t, from, end, sec)
<1>1. PICK n \in Nat : n = Len(s)  OBVIOUS
<1>2. end <= n + 1  BY <1>1
<1>3. /\ \A m \in 1 .. M : \A q \in 1 .. Size(p, levels, l, m) : sec[m] + q - 1 \in 1 .. n
      /\ \A m \in 1 .. M : m # M => sec[m] + Size(p, levels, l, m) \in 1 .. n
  BY <1>2, SectionWithin
<1>4. \A x \in 1 .. n : Alike(t[x], s[x])  BY <1>1 DEF Recast
<1>5. ASSUME NEW m \in 1 .. M, NEW q \in 1 .. Size(p, levels, l, m)
      PROVE  Alike(t[sec[m] + q - 1], Body(p, levels[m], l)[q])
  <2>1. Alike(s[sec[m] + q - 1], Body(p, levels[m], l)[q])  BY DEF Sections
  <2>2. Alike(t[sec[m] + q - 1], s[sec[m] + q - 1])  BY <1>3, <1>4
  <2> QED BY <2>1, <2>2, AlikeFacts
<1>6. ASSUME NEW m \in 1 .. M, m # M PROVE t[sec[m] + Size(p, levels, l, m)] = Barrier
  <2>1. s[sec[m] + Size(p, levels, l, m)] = Barrier  BY <1>6 DEF Sections
  <2>2. Alike(t[sec[m] + Size(p, levels, l, m)], s[sec[m] + Size(p, levels, l, m)])  BY <1>3, <1>4, <1>6
  <2> QED BY <2>1, <2>2, AlikeFacts
<1> QED BY <1>5, <1>6 DEF Sections
------------------------------------------------------------------------------
(* The lists of Z are in the streams of st at pl.  c is the instruction that *)
(* is being served, or 0.                                                    *)

Span(r) == SubList(r.from, r.end - r.from)

SecOf(pl, g) == [l \in LaneIds |-> pl[g][l].sec]

EntryAt(lanes, pl, g, m, l) == lanes[l][pl[g][l].sec[m]]

InLane(p, mainLen, s, r, g, l) ==
  /\ Sections(p, LevelsFor(p, mainLen, g), Len(LevelsFor(p, mainLen, g)), l, s, r.from, r.end, r.sec)
  /\ r.end <= Len(s) + 1

InStreams(p, mainLen, lanes, Z, pl) ==
  /\ \A g \in Z : \A l \in LaneIds : InLane(p, mainLen, lanes[l], pl[g][l], g, l)
  /\ \A g, h \in Z : g # h => \A l \in LaneIds : pl[g][l].end <= pl[h][l].from \/ pl[h][l].end <= pl[g][l].from

KnownLists(p, mainLen, Z) ==
  /\ RootList \in Z /\ Z \subseteq AllLists(p)
  /\ \A h \in Z \ {RootList} : \E g \in Z : h[1] \in Listed(p, mainLen, g)

\* The control entries of instruction i, at level m of g, name its sub-lists.
Settled(lanes, Z, pl, g, m, i) ==
  /\ <<i, "x">> \in Z /\ <<i, "y">> \in Z
  /\ \A l \in LaneIds : /\ EntryAt(lanes, pl, g, m, l).x = Span(pl[<<i, "x">>][l])
                        /\ EntryAt(lanes, pl, g, m, l).y = Span(pl[<<i, "y">>][l])

Steered(p, mainLen, st, Z, pl, c) ==
  \A g \in Z : \A m, i : RegionAt(p, mainLen, g, m, i) /\ i # c =>
    Settled(st.lanes, Z, pl, g, m, i) \/ \E q \in 1 .. Len(st.queue) : st.queue[q].ins = i

\* The jobs that wait are those of instructions whose sub-lists are to come.
Waits(p, mainLen, item, Z, pl, c) ==
  /\ item.ins # c /\ <<item.ins, "x">> \notin Z /\ <<item.ins, "y">> \notin Z
  /\ \E g \in Z : \E m : /\ RegionAt(p, mainLen, g, m, item.ins)
                         /\ item = JobOf(LevelsFor(p, mainLen, g), m, SecOf(pl, g))

Waiting(p, mainLen, queue, Z, pl, c) ==
  /\ \A q \in 1 .. Len(queue) : Waits(p, mainLen, queue[q], Z, pl, c)
  /\ \A q, r \in 1 .. Len(queue) : queue[q].ins = queue[r].ins => q = r

Underway(p, mainLen, st, Z, pl, c) ==
  /\ st \in StreamStates(p) /\ KnownLists(p, mainLen, Z)
  /\ InStreams(p, mainLen, st.lanes, Z, pl)
  /\ Steered(p, mainLen, st, Z, pl, c) /\ Waiting(p, mainLen, st.queue, Z, pl, c)
------------------------------------------------------------------------------
\* The entry of a region instruction is in its list's stretch of the stream.
LEMMA RegionStands ==
  ASSUME NEW p, NEW mainLen, Listing(p, mainLen), NEW g \in AllLists(p), NEW m, NEW i,
         RegionAt(p, mainLen, g, m, i), NEW l \in LaneIds, NEW s, Len(s) \in Nat, NEW r,
         InLane(p, mainLen, s, r, g, l)
  PROVE  /\ r.sec[m] \in 1 .. Len(s) /\ r.sec[m] \in Nat /\ r.from <= r.sec[m] /\ r.sec[m] < r.end
         /\ Alike(s[r.sec[m]], ControlEntry(p[i])) /\ Steers(s[r.sec[m]])
<1> DEFINE levels == LevelsFor(p, mainLen, g)
           M == Len(levels)
<1>1. M \in Nat /\ m \in 1 .. M  BY LevelFacts DEF RegionAt
<1>2. Body(p, levels[m], l) = <<ControlEntry(p[i])>> /\ Steers(ControlEntry(p[i]))  BY LevelFacts
<1>3. Sections(p, levels, M, l, s, r.from, r.end, r.sec) /\ r.end <= Len(s) + 1  BY DEF InLane
<1> HIDE DEF levels, M
<1>4. Size(p, levels, l, m) = 1 /\ Body(p, levels[m], l)[1] = ControlEntry(p[i])  BY <1>2 DEF Size
<1>5. 1 \in 1 .. Size(p, levels, l, m)  BY <1>4
<1>6. PICK c \in Nat : c = r.sec[m]
  <2>1. r.sec \in [1 .. M -> Nat]  BY <1>3 DEF Sections
  <2> QED BY <1>1, <2>1
<1>7. c + 1 - 1 = c  BY <1>6
<1>8. /\ r.sec[m] + 1 - 1 \in 1 .. Len(s) /\ r.from <= r.sec[m] + 1 - 1 /\ r.sec[m] + 1 - 1 < r.end
  BY <1>1, <1>3, <1>5, SectionWithin
<1>9. Alike(s[r.sec[m] + 1 - 1], Body(p, levels[m], l)[1])  BY <1>1, <1>3, <1>5 DEF Sections
<1>10. Alike(s[c], ControlEntry(p[i]))  BY <1>4, <1>6, <1>7, <1>9
<1>11. Steers(s[c])  BY <1>2, <1>10, AlikeFacts
<1> QED BY <1>6, <1>7, <1>8, <1>10, <1>11

LEMMA StreamLens ==
  ASSUME NEW p, NEW st \in StreamStates(p)
  PROVE  Len(st.queue) \in Nat /\ \A l \in LaneIds : Len(st.lanes[l]) \in Nat
<1>1. st.queue \in Seq(Items) /\ \A l \in LaneIds : st.lanes[l] \in Seq(AnyEntry(p))  BY DEF StreamStates
<1> QED BY <1>1, LenProperties

\* t is s with list g appended to every lane.
Appends(p, mainLen, s, t, Z, pl, g, pl2) ==
  /\ Underway(p, mainLen, t, Z \cup {g}, pl2, g[1])
  /\ \A h \in Z : pl2[h] = pl[h]
  /\ \A l \in LaneIds : /\ Keeps(s.lanes[l], t.lanes[l])
                        /\ pl2[g][l].from = Len(s.lanes[l]) + 1 /\ pl2[g][l].end = Len(t.lanes[l]) + 1

LEMMA ListPlaced ==
  ASSUME NEW p, NEW mainLen, Listing(p, mainLen), NEW st, NEW Z, NEW pl, NEW c,
         Underway(p, mainLen, st, Z, pl, c), NEW g \in SubLists(p), g \notin Z, g[1] = c,
         \E h \in Z : c \in Listed(p, mainLen, h)
  PROVE  \E pl2 : Appends(p, mainLen, st, ScheduleRange(p, st, RangeOf(p, mainLen, g)), Z, pl, g, pl2)
<1> DEFINE L == LevelsFor(p, mainLen, g)
           st2 == ScheduleRange(p, st, RangeOf(p, mainLen, g))
           Y == Z \cup {g}
<1>1. /\ st \in StreamStates(p) /\ KnownLists(p, mainLen, Z) /\ InStreams(p, mainLen, st.lanes, Z, pl)
      /\ Steered(p, mainLen, st, Z, pl, c) /\ Waiting(p, mainLen, st.queue, Z, pl, c)
  BY DEF Underway
<1>2. g # RootList /\ g \in AllLists(p)  BY ListFacts DEF AllLists
<1>3. EmittedTo(p, st, L, Len(L), st2)
  <2>1. L = ListLevels(p, mainLen, g)  BY <1>2 DEF LevelsFor
  <2>2. Layered(p, Busy(p, Listed(p, mainLen, g)), L)  BY <1>2, <2>1, ListLayered
  <2>3. Listed(p, mainLen, g) \subseteq 1 .. Len(p)  BY <1>2, ListFacts
  <2>4. Busy(p, Listed(p, mainLen, g)) \subseteq 1 .. Len(p)  BY <2>3 DEF Busy
  <2>5. LevelsIn(p, Busy(p, Listed(p, mainLen, g)), L)  BY <2>2, <2>4 DEF LevelsIn
  <2>6. Plain(p)  BY DEF Listing
  <2>7. st2 = EmitLevels(p, st, L)  BY <2>1 DEF ScheduleRange, ListLevels
  <2> HIDE DEF L, st2
  <2> QED BY <1>1, <2>5, <2>6, <2>7, ListEmitted
<1> HIDE DEF st2
<1>4. st2 \in StreamStates(p) /\ \A l \in LaneIds : Keeps(st.lanes[l], st2.lanes[l])  BY <1>3 DEF EmittedTo
<1>5. PICK sec :
        /\ \A l \in LaneIds :
             Sections(p, L, Len(L), l, st2.lanes[l], Len(st.lanes[l]) + 1, Len(st2.lanes[l]) + 1, sec[l])
        /\ Queued(L, Len(L), sec, st.queue, st2.queue)
  BY <1>3 DEF EmittedTo
<1> DEFINE pl2 == [h \in Y |-> IF h = g THEN [l \in LaneIds |-> [from |-> Len(st.lanes[l]) + 1,
                                                              end |-> Len(st2.lanes[l]) + 1, sec |-> sec[l]]]
                               ELSE pl[h]]
<1>6. /\ \A h \in Z : pl2[h] = pl[h]
      /\ \A l \in LaneIds : /\ pl2[g][l].from = Len(st.lanes[l]) + 1
                            /\ pl2[g][l].end = Len(st2.lanes[l]) + 1 /\ pl2[g][l].sec = sec[l]
  OBVIOUS
<1> HIDE DEF pl2, L
<1>7. Len(st.queue) \in Nat /\ \A l \in LaneIds : Len(st.lanes[l]) \in Nat /\ Len(st2.lanes[l]) \in Nat
  BY <1>1, <1>4, StreamLens
<1>8. Z \subseteq AllLists(p) /\ Y \subseteq AllLists(p)  BY <1>1, <1>2 DEF KnownLists
<1>9. KnownLists(p, mainLen, Y)
  <2>1. \A h \in Z \ {RootList} : \E f \in Z : h[1] \in Listed(p, mainLen, f)  BY <1>1 DEF KnownLists
  <2>2. \E f \in Z : g[1] \in Listed(p, mainLen, f)  OBVIOUS
  <2>3. RootList \in Z  BY <1>1 DEF KnownLists
  <2> QED BY <1>8, <2>1, <2>2, <2>3 DEF KnownLists
<1>10. \A h \in Z : \A l \in LaneIds : InLane(p, mainLen, st.lanes[l], pl[h][l], h, l)  BY <1>1 DEF InStreams
<1>11. ASSUME NEW h \in Z, NEW l \in LaneIds PROVE InLane(p, mainLen, st2.lanes[l], pl2[h][l], h, l)
  <2>1. pl2[h][l] = pl[h][l]  BY <1>6
  <2>2. PICK r : r = pl[h][l]  OBVIOUS
  <2>3. /\ Sections(p, LevelsFor(p, mainLen, h), Len(LevelsFor(p, mainLen, h)), l, st.lanes[l], r.from, r.end, r.sec)
        /\ r.end <= Len(st.lanes[l]) + 1
    BY <1>10, <2>2 DEF InLane
  <2>4. Recast(st.lanes[l], st2.lanes[l])  BY <1>4, KeepsRecast
  <2>5. Len(LevelsFor(p, mainLen, h)) \in Nat  BY <1>8, LevelFacts
  <2>6. Len(st.lanes[l]) \in Nat /\ Len(st2.lanes[l]) \in Nat  BY <1>7
  <2>7. Sections(p, LevelsFor(p, mainLen, h), Len(LevelsFor(p, mainLen, h)), l, st2.lanes[l], r.from, r.end, r.sec)
    BY <2>3, <2>4, <2>5, <2>6, SectionKept
  <2>8. r.end <= Len(st2.lanes[l]) + 1
    <3>1. PICK a \in Nat : a = r.end  BY <2>3 DEF Sections
    <3>2. PICK b \in Nat, c2 \in Nat : b = Len(st.lanes[l]) /\ c2 = Len(st2.lanes[l])  BY <2>6
    <3>3. a <= b + 1 /\ b <= c2  BY <1>4, <2>3, <3>1, <3>2 DEF Keeps
    <3>4. a <= c2 + 1  BY ONLY <3>3, a \in Nat, b \in Nat, c2 \in Nat
    <3> QED BY <3>1, <3>2, <3>4
  <2> QED BY <2>1, <2>2, <2>7, <2>8 DEF InLane
<1>12. ASSUME NEW l \in LaneIds PROVE InLane(p, mainLen, st2.lanes[l], pl2[g][l], g, l)
  <2>1. Len(st2.lanes[l]) + 1 <= Len(st2.lanes[l]) + 1
    <3>1. PICK n \in Nat : n = Len(st2.lanes[l])  BY <1>7
    <3> QED BY <3>1
  <2> QED BY <1>5, <1>6, <2>1 DEF InLane, L
<1>13. InStreams(p, mainLen, st2.lanes, Y, pl2)
  <2>1. \A h \in Y : \A l \in LaneIds : InLane(p, mainLen, st2.lanes[l], pl2[h][l], h, l)  BY <1>11, <1>12
  <2>2. ASSUME NEW f \in Y, NEW h \in Y, f # h, NEW l \in LaneIds
        PROVE  pl2[f][l].end <= pl2[h][l].from \/ pl2[h][l].end <= pl2[f][l].from
    <3>1. \A e \in Z : pl2[e][l].end <= pl2[g][l].from  BY <1>6, <1>10 DEF InLane
    <3>2. \A d, e \in Z : d # e => pl[d][l].end <= pl[e][l].from \/ pl[e][l].end <= pl[d][l].from
      BY <1>1 DEF InStreams
    <3>3. CASE f \in Z /\ h \in Z  BY <1>6, <2>2, <3>2, <3>3
    <3>4. CASE f = g /\ h \in Z  BY <3>1, <3>4
    <3>5. CASE f \in Z /\ h = g  BY <3>1, <3>5
    <3> QED BY <2>2, <3>3, <3>4, <3>5
  <2> QED BY <2>1, <2>2 DEF InStreams
<1> DEFINE a == Len(st.queue)
           b == Len(st2.queue)
<1>14. /\ a \in Nat /\ b \in Nat /\ a <= b /\ \A q \in 1 .. a : st2.queue[q] = st.queue[q]
       /\ \A q \in a + 1 .. b : \E m \in 1 .. Len(L) : L[m].region /\ st2.queue[q] = JobOf(L, m, sec)
       /\ \A m \in 1 .. Len(L) : L[m].region => \E q \in a + 1 .. b : st2.queue[q].ins = L[m].members[1]
       /\ \A q, r \in a + 1 .. b : st2.queue[q].ins = st2.queue[r].ins => q = r
  <2>1. a \in Nat /\ b \in Nat  BY <1>1, <1>4, StreamLens
  <2> QED BY <2>1, <1>5 DEF Queued, Keeps
<1> HIDE DEF a, b
<1>15. (\A q \in 1 .. a : q \in 1 .. b) /\ (\A q \in a + 1 .. b : q \in 1 .. b)
       /\ (\A q \in 1 .. b : q \in 1 .. a \/ q \in a + 1 .. b)
  BY <1>14
<1>16. Steered(p, mainLen, st2, Y, pl2, c)
  <2> SUFFICES ASSUME NEW h \in Y, NEW m, NEW i, RegionAt(p, mainLen, h, m, i), i # c
               PROVE  Settled(st2.lanes, Y, pl2, h, m, i) \/ \E q \in 1 .. b : st2.queue[q].ins = i
    BY DEF Steered, b
  <2>1. CASE h = g
    <3>1. m \in 1 .. Len(L) /\ L[m].region /\ i = L[m].members[1]  BY <2>1 DEF RegionAt, L
    <3>2. PICK q \in a + 1 .. b : st2.queue[q].ins = L[m].members[1]  BY <1>14, <3>1
    <3> QED BY <1>15, <3>1, <3>2
  <2>2. CASE h \in Z
    <3>1. CASE Settled(st.lanes, Z, pl, h, m, i)
      <4>1. /\ <<i, "x">> \in Z /\ <<i, "y">> \in Z
            /\ \A l \in LaneIds : /\ EntryAt(st.lanes, pl, h, m, l).x = Span(pl[<<i, "x">>][l])
                                  /\ EntryAt(st.lanes, pl, h, m, l).y = Span(pl[<<i, "y">>][l])
        BY <3>1 DEF Settled
      <4>2. ASSUME NEW l \in LaneIds PROVE EntryAt(st2.lanes, pl2, h, m, l) = EntryAt(st.lanes, pl, h, m, l)
        <5>1. pl2[h][l] = pl[h][l]  BY <1>6, <2>2
        <5>2. InLane(p, mainLen, st.lanes[l], pl[h][l], h, l) /\ Len(st.lanes[l]) \in Nat  BY <1>7, <1>10, <2>2
        <5>3. pl[h][l].sec[m] \in 1 .. Len(st.lanes[l])  BY <1>8, <2>2, <5>2, RegionStands
        <5>4. st2.lanes[l][pl[h][l].sec[m]] = st.lanes[l][pl[h][l].sec[m]]  BY <1>4, <5>3 DEF Keeps
        <5> QED BY <5>1, <5>4 DEF EntryAt
      <4>3. pl2[<<i, "x">>] = pl[<<i, "x">>] /\ pl2[<<i, "y">>] = pl[<<i, "y">>]  BY <1>6, <4>1
      <4> QED BY <4>1, <4>2, <4>3 DEF Settled
    <3>2. CASE \E q \in 1 .. a : st.queue[q].ins = i  BY <3>2, <1>14, <1>15
    <3> QED BY <1>1, <2>2, <3>1, <3>2 DEF Steered, a
  <2> QED BY <2>1, <2>2
<1>17. ASSUME NEW q \in 1 .. a
       PROVE  /\ Waits(p, mainLen, st2.queue[q], Y, pl2, c)
              /\ \E h \in Z : st2.queue[q].ins \in Listed(p, mainLen, h)
  <2>1. Waits(p, mainLen, st.queue[q], Z, pl, c)  BY <1>1 DEF Waiting, a
  <2>2. PICK e : e = st2.queue[q] /\ e = st.queue[q]  BY <1>14
  <2>3. e.ins # c /\ <<e.ins, "x">> \notin Z /\ <<e.ins, "y">> \notin Z  BY <2>1, <2>2 DEF Waits
  <2>4. PICK h \in Z : \E m : RegionAt(p, mainLen, h, m, e.ins) /\ e = JobOf(LevelsFor(p, mainLen, h), m, SecOf(pl, h))
    BY <2>1, <2>2 DEF Waits
  <2>5. <<e.ins, "x">> # g /\ <<e.ins, "y">> # g  BY <2>3
  <2>6. SecOf(pl2, h) = SecOf(pl, h)  BY <1>6 DEF SecOf
  <2>7. Waits(p, mainLen, e, Y, pl2, c)  BY <2>3, <2>4, <2>5, <2>6 DEF Waits
  <2>8. e.ins \in Listed(p, mainLen, h)  BY <1>8, <2>4, LevelFacts
  <2> QED BY <2>2, <2>7, <2>8
<1>18. ASSUME NEW q \in a + 1 .. b
       PROVE  Waits(p, mainLen, st2.queue[q], Y, pl2, c) /\ st2.queue[q].ins \in Listed(p, mainLen, g)
  <2>1. PICK m \in 1 .. Len(L) : L[m].region /\ st2.queue[q] = JobOf(L, m, sec)  BY <1>14
  <2>2. PICK e : e = st2.queue[q]  OBVIOUS
  <2>3. e.ins = L[m].members[1]  BY <2>1, <2>2 DEF JobOf
  <2>4. RegionAt(p, mainLen, g, m, e.ins)  BY <2>1, <2>3 DEF RegionAt, L
  <2>5. e.ins \in Listed(p, mainLen, g)  BY <1>2, <2>4, LevelFacts
  <2>6. e.ins # c
    <3>1. g[1] < e.ins  BY <2>5, ListFacts
    <3>2. g[1] \in Nat  BY ListFacts
    <3> QED BY <3>1, <3>2
  <2>7. ASSUME NEW w, <<e.ins, w>> \in Z PROVE FALSE
    <3>1. e.ins \in Regions(p) /\ e.ins # 0
      <4>1. e.ins \in Regions(p)  BY <1>2, <2>4, LevelFacts
      <4>2. Len(p) \in Nat  BY ListFacts
      <4> QED BY <4>1, <4>2 DEF Regions
    <3>2. <<e.ins, w>> # RootList  BY <3>1 DEF RootList
    <3>3. PICK f \in Z : e.ins \in Listed(p, mainLen, f)  BY <1>1, <2>7, <3>2 DEF KnownLists
    <3>4. f = g  BY <1>2, <1>8, <2>5, <3>3, ListFacts
    <3> QED BY <3>4
  <2>8. <<e.ins, "x">> # g /\ <<e.ins, "y">> # g  BY <2>6
  <2>9. JobOf(L, m, SecOf(pl2, g)) = JobOf(L, m, sec)  BY <1>6 DEF JobOf, SecOf
  <2>10. Waits(p, mainLen, e, Y, pl2, c)  BY <2>1, <2>2, <2>4, <2>6, <2>7, <2>8, <2>9 DEF Waits, L
  <2> QED BY <2>2, <2>5, <2>10
<1>19. Waiting(p, mainLen, st2.queue, Y, pl2, c)
  <2>1. \A q \in 1 .. b : Waits(p, mainLen, st2.queue[q], Y, pl2, c)  BY <1>15, <1>17, <1>18
  <2>2. ASSUME NEW q \in 1 .. b, NEW r \in 1 .. b, st2.queue[q].ins = st2.queue[r].ins PROVE q = r
    <3>1. ASSUME NEW x \in 1 .. a, NEW y \in a + 1 .. b, st2.queue[x].ins = st2.queue[y].ins PROVE FALSE
      <4>1. PICK h \in Z : st2.queue[x].ins \in Listed(p, mainLen, h)  BY <1>17
      <4>2. st2.queue[x].ins \in Listed(p, mainLen, g)  BY <1>18, <3>1
      <4>3. h = g  BY <1>2, <1>8, <4>1, <4>2, ListFacts
      <4> QED BY <4>3
    <3>2. CASE q \in 1 .. a /\ r \in 1 .. a
      <4>1. st.queue[q].ins = st.queue[r].ins  BY <1>14, <2>2, <3>2
      <4> QED BY <1>1, <3>2, <4>1 DEF Waiting, a
    <3>3. CASE q \in a + 1 .. b /\ r \in a + 1 .. b  BY <1>14, <2>2, <3>3
    <3>4. CASE q \in 1 .. a /\ r \in a + 1 .. b  BY <2>2, <3>1, <3>4
    <3>5. CASE q \in a + 1 .. b /\ r \in 1 .. a
      <4>1. st2.queue[r].ins = st2.queue[q].ins  BY <2>2
      <4> QED BY <3>1, <3>5, <4>1
    <3> QED BY <1>15, <3>2, <3>3, <3>4, <3>5
  <2> QED BY <2>1, <2>2 DEF Waiting, b
<1>20. Underway(p, mainLen, st2, Y, pl2, c)  BY <1>4, <1>9, <1>13, <1>16, <1>19 DEF Underway
<1>21. Appends(p, mainLen, st, st2, Z, pl, g, pl2)  BY <1>4, <1>6, <1>20 DEF Appends
<1> QED BY <1>21 DEF st2
------------------------------------------------------------------------------
(* Serving a region job *)

Ranged(s, k, X, Y) == [s EXCEPT ![k].x = X, ![k].y = Y]

\* A control entry gets ranges.
LEMMA EntryPatched ==
  ASSUME NEW p, NEW s \in Seq(AnyEntry(p)), NEW k \in 1 .. Len(s), Steers(s[k]),
         NEW X \in Ranges, NEW Y \in Ranges, NEW t, t = Ranged(s, k, X, Y)
  PROVE  /\ t \in Seq(AnyEntry(p)) /\ Len(t) = Len(s) /\ Recast(s, t)
         /\ \A j \in 1 .. Len(s) : j # k => t[j] = s[j]
         /\ t[k].x = X /\ t[k].y = Y
<1>1. PICK n \in Nat : n = Len(s) /\ DOMAIN s = 1 .. n /\ \A j \in 1 .. n : s[j] \in AnyEntry(p)
  BY LenProperties, ElementOfSeq
<1>2. PICK e \in AnyEntry(p) : e = s[k] /\ Steers(e)  BY <1>1
<1>3. /\ e = [kind |-> e.kind, flag |-> e.flag, x |-> e.x, y |-> e.y, trips |-> e.trips]
      /\ [kind |-> e.kind, flag |-> e.flag, x |-> X, y |-> Y, trips |-> e.trips] \in AnyEntry(p)
  <2>1. e # Barrier /\ e \notin TileEntries(1 .. Len(p))
    <3>1. \A f : f \in TileEntries(1 .. Len(p)) => f.kind = "tile"  BY DEF TileEntries, TileEntry
    <3> QED BY <1>2, <3>1 DEF Steers, Barrier
  <2> QED BY <2>1, EntryKinds
<1>4. PICK f : f = [kind |-> e.kind, flag |-> e.flag, x |-> X, y |-> Y, trips |-> e.trips]  OBVIOUS
<1>5. [[e EXCEPT !.x = X] EXCEPT !.y = Y] = f
  <2>1. PICK a, b, d, u, v : a = e.kind /\ b = e.flag /\ d = e.trips /\ u = e.x /\ v = e.y  OBVIOUS
  <2>2. e = [kind |-> a, flag |-> b, x |-> u, y |-> v, trips |-> d]
        /\ f = [kind |-> a, flag |-> b, x |-> X, y |-> Y, trips |-> d]
    BY <1>3, <1>4, <2>1
  <2>3. [[kind |-> a, flag |-> b, x |-> u, y |-> v, trips |-> d] EXCEPT !.x = X]
          = [kind |-> a, flag |-> b, x |-> X, y |-> v, trips |-> d]
    BY ONLY TRUE
  <2>4. [[kind |-> a, flag |-> b, x |-> X, y |-> v, trips |-> d] EXCEPT !.y = Y]
          = [kind |-> a, flag |-> b, x |-> X, y |-> Y, trips |-> d]
    BY ONLY TRUE
  <2> QED BY <2>2, <2>3, <2>4
<1>6. t = [s EXCEPT ![k] = f]
  <2>1. t = [[s EXCEPT ![k] = [s[k] EXCEPT !.x = X]] EXCEPT ![k] = [[s EXCEPT ![k] = [s[k] EXCEPT !.x = X]][k] EXCEPT !.y = Y]]
    BY DEF Ranged
  <2>2. k \in DOMAIN s  BY <1>1
  <2>3. PICK v : v = [s[k] EXCEPT !.x = X]  OBVIOUS
  <2>4. [s EXCEPT ![k] = v][k] = v  BY <2>2
  <2>5. t = [[s EXCEPT ![k] = v] EXCEPT ![k] = [v EXCEPT !.y = Y]]  BY <2>1, <2>3, <2>4
  <2>6. [v EXCEPT !.y = Y] = f  BY <1>2, <1>5, <2>3
  <2>7. t = [[s EXCEPT ![k] = v] EXCEPT ![k] = f]  BY <2>5, <2>6
  <2> QED BY <2>7
<1>7. f \in AnyEntry(p) /\ f.x = X /\ f.y = Y  BY <1>3, <1>4
<1>8. s \in [1 .. n -> AnyEntry(p)]  BY <1>1, LenProperties
<1>9. t \in [1 .. n -> AnyEntry(p)] /\ t[k] = f /\ \A j \in 1 .. n : j # k => t[j] = s[j]  BY <1>1, <1>6, <1>7, <1>8
<1>10. t \in Seq(AnyEntry(p)) /\ Len(t) = n  BY <1>1, <1>6, <1>7, ExceptSeq
<1>11. Alike(f, e)  BY <1>2, <1>4 DEF Alike, Steers
<1>12. Recast(s, t)
  <2>1. \A j \in 1 .. n : Alike(t[j], s[j])  BY <1>2, <1>9, <1>11, AlikeFacts
  <2>2. n <= n  OBVIOUS
  <2> QED BY <1>1, <1>10, <2>1, <2>2 DEF Recast
<1> QED BY <1>1, <1>7, <1>9, <1>10, <1>12

\* The entries of two region instructions are apart.
LEMMA EntriesApart ==
  ASSUME NEW p, NEW mainLen, Listing(p, mainLen), NEW lanes, NEW Z, Z \subseteq AllLists(p), NEW pl,
         InStreams(p, mainLen, lanes, Z, pl), \A l \in LaneIds : Len(lanes[l]) \in Nat,
         NEW g \in Z, NEW h \in Z, NEW m, NEW n, NEW i, NEW k, i # k,
         RegionAt(p, mainLen, g, m, i), RegionAt(p, mainLen, h, n, k), NEW l \in LaneIds
  PROVE  pl[g][l].sec[m] # pl[h][l].sec[n]
<1>1. /\ InLane(p, mainLen, lanes[l], pl[g][l], g, l) /\ InLane(p, mainLen, lanes[l], pl[h][l], h, l)
      /\ g # h => pl[g][l].end <= pl[h][l].from \/ pl[h][l].end <= pl[g][l].from
  BY DEF InStreams
<1>2. PICK r, s : r = pl[g][l] /\ s = pl[h][l]  OBVIOUS
<1>3. r.sec[m] \in Nat /\ r.from <= r.sec[m] /\ r.sec[m] < r.end  BY <1>1, <1>2, RegionStands
<1>4. s.sec[n] \in Nat /\ s.from <= s.sec[n] /\ s.sec[n] < s.end  BY <1>1, <1>2, RegionStands
<1>5. r.from \in Nat /\ r.end \in Nat /\ s.from \in Nat /\ s.end \in Nat
  BY <1>1, <1>2 DEF InLane, Sections
<1>6. CASE g # h
  <2>1. r.end <= s.from \/ s.end <= r.from  BY <1>1, <1>2, <1>6
  <2>2. r.sec[m] # s.sec[n]  BY ONLY <1>3, <1>4, <1>5, <2>1
  <2> QED BY <1>2, <2>2
<1>7. CASE g = h
  <2> DEFINE levels == LevelsFor(p, mainLen, g)
             M == Len(levels)
  <2>1. m # n  BY <1>7 DEF RegionAt
  <2>2. M \in Nat /\ m \in 1 .. M /\ n \in 1 .. M  BY <1>7, LevelFacts DEF RegionAt
  <2>3. \A a \in 1 .. M : Size(p, levels, l, a) \in Nat
    BY <1>1 DEF InLane, Sections
  <2>4. \A a, b \in 1 .. M : a < b => r.sec[a] + Size(p, levels, l, a) < r.sec[b]
    BY <1>1, <1>2 DEF InLane, Sections
  <2> HIDE DEF levels, M
  <2>5. r = s  BY <1>2, <1>7
  <2>6. m < n \/ n < m  BY <2>1, <2>2
  <2>7. PICK u \in Nat, v \in Nat, x \in Nat, y \in Nat :
          u = r.sec[m] /\ v = r.sec[n] /\ x = Size(p, levels, l, m) /\ y = Size(p, levels, l, n)
    BY <1>3, <1>4, <2>2, <2>3, <2>5
  <2>8. u + x < v \/ v + y < u  BY <2>2, <2>4, <2>6, <2>7
  <2>9. u # v  BY ONLY <2>8, u \in Nat, v \in Nat, x \in Nat, y \in Nat
  <2> QED BY <1>2, <2>5, <2>7, <2>9
<1> QED BY <1>6, <1>7

\* The sub-lists of c are what streams s1 and s2 have more than s0 and s1.
Between(s0, s1, s2, pl, c) ==
  \A l \in LaneIds :
    /\ Len(s0.lanes[l]) \in Nat /\ Len(s1.lanes[l]) \in Nat
    /\ Len(s0.lanes[l]) <= Len(s1.lanes[l]) /\ Len(s1.lanes[l]) <= Len(s2.lanes[l])
    /\ pl[<<c, "x">>][l].from = Len(s0.lanes[l]) + 1 /\ pl[<<c, "x">>][l].end = Len(s1.lanes[l]) + 1
    /\ pl[<<c, "y">>][l].from = Len(s1.lanes[l]) + 1 /\ pl[<<c, "y">>][l].end = Len(s2.lanes[l]) + 1

Names(item, pl, g, m) == \A l \in LaneIds : item.at[l] = pl[g][l].sec[m]

\* The control entries of c, whose sub-lists have been placed, get their ranges.
LEMMA RangesPatched ==
  ASSUME NEW p, NEW mainLen, Listing(p, mainLen), NEW st, NEW Z, NEW pl, NEW c,
         Underway(p, mainLen, st, Z, pl, c), <<c, "x">> \in Z, <<c, "y">> \in Z,
         NEW g \in Z, NEW m, RegionAt(p, mainLen, g, m, c),
         NEW item, Names(item, pl, g, m), NEW st0, NEW st1, Between(st0, st1, st, pl, c)
  PROVE  Underway(p, mainLen, Patched(st0, st1, st, item), Z, pl, 0)
<1> DEFINE X(l) == Span(pl[<<c, "x">>][l])
           Y(l) == Span(pl[<<c, "y">>][l])
           z == Patched(st0, st1, st, item)
<1>1. /\ st \in StreamStates(p) /\ KnownLists(p, mainLen, Z) /\ InStreams(p, mainLen, st.lanes, Z, pl)
      /\ Steered(p, mainLen, st, Z, pl, c) /\ Waiting(p, mainLen, st.queue, Z, pl, c)
  BY DEF Underway
<1>0. /\ \A l \in LaneIds : item.at[l] = pl[g][l].sec[m]
      /\ \A l \in LaneIds :
           /\ Len(st0.lanes[l]) \in Nat /\ Len(st1.lanes[l]) \in Nat
           /\ Len(st0.lanes[l]) <= Len(st1.lanes[l]) /\ Len(st1.lanes[l]) <= Len(st.lanes[l])
           /\ pl[<<c, "x">>][l].from = Len(st0.lanes[l]) + 1 /\ pl[<<c, "x">>][l].end = Len(st1.lanes[l]) + 1
           /\ pl[<<c, "y">>][l].from = Len(st1.lanes[l]) + 1 /\ pl[<<c, "y">>][l].end = Len(st.lanes[l]) + 1
  BY DEF Between, Names
<1>2. Z \subseteq AllLists(p)  BY <1>1 DEF KnownLists
<1>3. \A l \in LaneIds : st.lanes[l] \in Seq(AnyEntry(p)) /\ Len(st.lanes[l]) \in Nat
  BY <1>1, StreamLens DEF StreamStates
<1>4. \A h \in Z : \A l \in LaneIds : InLane(p, mainLen, st.lanes[l], pl[h][l], h, l)  BY <1>1 DEF InStreams
<1>5. ASSUME NEW l \in LaneIds
      PROVE  /\ X(l) \in Ranges /\ Y(l) \in Ranges
             /\ X(l) = SubList(Len(st0.lanes[l]) + 1, Len(st1.lanes[l]) - Len(st0.lanes[l]))
             /\ Y(l) = SubList(Len(st1.lanes[l]) + 1, Len(st.lanes[l]) - Len(st1.lanes[l]))
  <2>1. PICK n0 \in Nat, n1 \in Nat, n \in Nat :
          n0 = Len(st0.lanes[l]) /\ n1 = Len(st1.lanes[l]) /\ n = Len(st.lanes[l]) /\ n0 <= n1 /\ n1 <= n
    BY <1>0, <1>3
  <2>2. X(l) = SubList(n0 + 1, (n1 + 1) - (n0 + 1)) /\ Y(l) = SubList(n1 + 1, (n + 1) - (n1 + 1))
    BY <1>0, <2>1 DEF Span
  <2>3. (n1 + 1) - (n0 + 1) = n1 - n0 /\ (n + 1) - (n1 + 1) = n - n1 /\ n1 - n0 \in Nat /\ n - n1 \in Nat
        /\ n0 + 1 \in Nat /\ n1 + 1 \in Nat
    BY ONLY <2>1, n0 \in Nat, n1 \in Nat, n \in Nat
  <2>4. SubList(n0 + 1, n1 - n0) \in Ranges /\ SubList(n1 + 1, n - n1) \in Ranges
    BY <2>3 DEF SubList, Ranges
  <2> HIDE DEF X, Y
  <2> QED BY <2>1, <2>2, <2>3, <2>4
<1>6. /\ z = [lanes |-> z.lanes, queue |-> st.queue]
      /\ \A l \in LaneIds : z.lanes[l] = Ranged(st.lanes[l], item.at[l], X(l), Y(l))
      /\ z.lanes = [l \in LaneIds |-> z.lanes[l]]
  <2>1. PICK y, u : st = [lanes |-> y, queue |-> u] /\ y = st.lanes /\ u = st.queue /\ y = [l \in LaneIds |-> y[l]]
    BY <1>1 DEF StreamStates
  <2>2. PICK x : x = [l \in LaneIds |->
                       Ranged(y[l], item.at[l],
                              SubList(Len(st0.lanes[l]) + 1, Len(st1.lanes[l]) - Len(st0.lanes[l])),
                              SubList(Len(st1.lanes[l]) + 1, Len(st.lanes[l]) - Len(st1.lanes[l])))]
    OBVIOUS
  <2>3. Patched(st0, st1, [lanes |-> y, queue |-> u], item) = [lanes |-> x, queue |-> u]
    <3>1. Patched(st0, st1, [lanes |-> y, queue |-> u], item) =
            [[lanes |-> y, queue |-> u] EXCEPT
               !.lanes = [l \in LaneIds |->
                            Ranged(y[l], item.at[l],
                                   SubList(Len(st0.lanes[l]) + 1, Len(st1.lanes[l]) - Len(st0.lanes[l])),
                                   SubList(Len(st1.lanes[l]) + 1, Len(y[l]) - Len(st1.lanes[l])))]]
      BY ONLY TRUE DEF Patched, Ranged
    <3>2. Patched(st0, st1, [lanes |-> y, queue |-> u], item) = [[lanes |-> y, queue |-> u] EXCEPT !.lanes = x]
      BY <2>1, <2>2, <3>1
    <3> QED BY <3>2
  <2>4. z = [lanes |-> x, queue |-> u]  BY <2>1, <2>3
  <2> HIDE DEF z, X, Y
  <2>5. \A l \in LaneIds : x[l] = Ranged(y[l], item.at[l], X(l), Y(l))  BY <1>5, <2>2
  <2>6. z.lanes = x /\ z.queue = u  BY <2>4
  <2>7. x = [l \in LaneIds |-> x[l]]  BY <2>2
  <2>8. z = [lanes |-> z.lanes, queue |-> st.queue]  BY <2>1, <2>4, <2>6
  <2>9. z.lanes = [l \in LaneIds |-> z.lanes[l]]  BY <2>6, <2>7
  <2>10. \A l \in LaneIds : z.lanes[l] = Ranged(st.lanes[l], item.at[l], X(l), Y(l))
    BY <2>1, <2>5, <2>6
  <2> QED BY <2>8, <2>9, <2>10
<1> HIDE DEF z, X, Y
<1>7. ASSUME NEW l \in LaneIds
      PROVE  /\ z.lanes[l] \in Seq(AnyEntry(p)) /\ Len(z.lanes[l]) = Len(st.lanes[l])
             /\ Recast(st.lanes[l], z.lanes[l])
             /\ \A j \in 1 .. Len(st.lanes[l]) : j # pl[g][l].sec[m] => z.lanes[l][j] = st.lanes[l][j]
             /\ z.lanes[l][pl[g][l].sec[m]].x = X(l) /\ z.lanes[l][pl[g][l].sec[m]].y = Y(l)
  <2>1. pl[g][l].sec[m] \in 1 .. Len(st.lanes[l]) /\ Steers(st.lanes[l][pl[g][l].sec[m]])
    <3>1. g \in AllLists(p)  BY <1>2
    <3>2. InLane(p, mainLen, st.lanes[l], pl[g][l], g, l) /\ Len(st.lanes[l]) \in Nat  BY <1>3, <1>4
    <3> QED BY <3>1, <3>2, RegionStands
  <2>2. PICK k \in 1 .. Len(st.lanes[l]) : k = pl[g][l].sec[m] /\ k = item.at[l] /\ Steers(st.lanes[l][k])
    BY <1>0, <2>1
  <2>3. PICK s \in Seq(AnyEntry(p)) : s = st.lanes[l]  BY <1>3
  <2>4. z.lanes[l] = Ranged(s, k, X(l), Y(l))  BY <1>6, <2>2, <2>3
  <2>5. PICK t : t = Ranged(s, k, X(l), Y(l)) /\ t = z.lanes[l]  BY <2>4
  <2>6. X(l) \in Ranges /\ Y(l) \in Ranges /\ k \in 1 .. Len(s) /\ Steers(s[k])  BY <1>5, <2>2, <2>3
  <2>7. /\ t \in Seq(AnyEntry(p)) /\ Len(t) = Len(s) /\ Recast(s, t)
        /\ \A j \in 1 .. Len(s) : j # k => t[j] = s[j]
        /\ t[k].x = X(l) /\ t[k].y = Y(l)
    <3>1. PICK u \in Ranges, v \in Ranges : u = X(l) /\ v = Y(l)  BY <2>6
    <3>2. t = Ranged(s, k, u, v)  BY <2>5, <3>1
    <3>3. /\ t \in Seq(AnyEntry(p)) /\ Len(t) = Len(s) /\ Recast(s, t)
          /\ \A j \in 1 .. Len(s) : j # k => t[j] = s[j]
          /\ t[k].x = u /\ t[k].y = v
      BY ONLY <2>6, <3>2, EntryPatched, s \in Seq(AnyEntry(p)), u \in Ranges, v \in Ranges
    <3> QED BY <3>1, <3>3
  <2> QED BY <2>2, <2>3, <2>5, <2>7
<1>8. z \in StreamStates(p)
  <2>1. z.lanes \in [LaneIds -> Seq(AnyEntry(p))]  BY <1>6, <1>7
  <2>2. st.queue \in Seq(Items)  BY <1>1 DEF StreamStates
  <2> QED BY <1>6, <2>1, <2>2 DEF StreamStates
<1>9. z.queue = st.queue  BY <1>6
<1>10. ASSUME NEW h \in Z, NEW l \in LaneIds PROVE InLane(p, mainLen, z.lanes[l], pl[h][l], h, l)
  <2>1. PICK r : r = pl[h][l]  OBVIOUS
  <2>2. /\ Sections(p, LevelsFor(p, mainLen, h), Len(LevelsFor(p, mainLen, h)), l, st.lanes[l], r.from, r.end, r.sec)
        /\ r.end <= Len(st.lanes[l]) + 1
    BY <1>4, <2>1 DEF InLane
  <2>3. Len(LevelsFor(p, mainLen, h)) \in Nat  BY <1>2, LevelFacts
  <2>4. Recast(st.lanes[l], z.lanes[l]) /\ Len(st.lanes[l]) \in Nat /\ Len(z.lanes[l]) = Len(st.lanes[l])
    BY <1>3, <1>7
  <2>5. Sections(p, LevelsFor(p, mainLen, h), Len(LevelsFor(p, mainLen, h)), l, z.lanes[l], r.from, r.end, r.sec)
    BY <2>2, <2>3, <2>4, SectionKept
  <2> QED BY <2>1, <2>2, <2>4, <2>5 DEF InLane
<1>11. InStreams(p, mainLen, z.lanes, Z, pl)  BY <1>1, <1>10 DEF InStreams
<1>12. \A i \in Regions(p) : i # 0
  <2>1. Len(p) \in Nat  BY ListFacts
  <2> QED BY <2>1 DEF Regions
<1>13. Steered(p, mainLen, z, Z, pl, 0)
  <2> SUFFICES ASSUME NEW h \in Z, NEW n, NEW i, RegionAt(p, mainLen, h, n, i)
               PROVE  Settled(z.lanes, Z, pl, h, n, i) \/ \E q \in 1 .. Len(z.queue) : z.queue[q].ins = i
    BY DEF Steered
  <2>1. CASE i = c
    <3>1. i \in Listed(p, mainLen, h) /\ i \in Listed(p, mainLen, g)  BY <1>2, <2>1, LevelFacts
    <3>2. g = h  BY <1>2, <3>1, ListFacts
    <3>3. m = n  BY <1>2, <2>1, <3>2, LevelFacts
    <3>4. Settled(z.lanes, Z, pl, h, n, i)  BY <1>7, <2>1, <3>2, <3>3 DEF Settled, EntryAt, X, Y
    <3> QED BY <3>4
  <2>2. CASE i # c
    <3>1. CASE Settled(st.lanes, Z, pl, h, n, i)
      <4>1. /\ <<i, "x">> \in Z /\ <<i, "y">> \in Z
            /\ \A l \in LaneIds : /\ EntryAt(st.lanes, pl, h, n, l).x = Span(pl[<<i, "x">>][l])
                                  /\ EntryAt(st.lanes, pl, h, n, l).y = Span(pl[<<i, "y">>][l])
        BY <3>1 DEF Settled
      <4>2. ASSUME NEW l \in LaneIds PROVE EntryAt(z.lanes, pl, h, n, l) = EntryAt(st.lanes, pl, h, n, l)
        <5>1. pl[h][l].sec[n] # pl[g][l].sec[m]
          <6>1. \A k \in LaneIds : Len(st.lanes[k]) \in Nat  BY <1>3
          <6> QED BY <1>1, <1>2, <2>2, <6>1, EntriesApart
        <5>2. pl[h][l].sec[n] \in 1 .. Len(st.lanes[l])
          <6>1. h \in AllLists(p)  BY <1>2
          <6>2. InLane(p, mainLen, st.lanes[l], pl[h][l], h, l) /\ Len(st.lanes[l]) \in Nat  BY <1>3, <1>4
          <6> QED BY <6>1, <6>2, RegionStands
        <5> QED BY <1>7, <5>1, <5>2 DEF EntryAt
      <4> QED BY <4>1, <4>2 DEF Settled
    <3>2. CASE \E q \in 1 .. Len(st.queue) : st.queue[q].ins = i  BY <1>9, <3>2
    <3> QED BY <1>1, <2>2, <3>1, <3>2 DEF Steered
  <2> QED BY <2>1, <2>2
<1>14. Waiting(p, mainLen, st.queue, Z, pl, 0)
  <2> SUFFICES ASSUME NEW q \in 1 .. Len(st.queue) PROVE Waits(p, mainLen, st.queue[q], Z, pl, 0)
    BY <1>1 DEF Waiting
  <2>1. PICK e : e = st.queue[q]  OBVIOUS
  <2>2. Waits(p, mainLen, e, Z, pl, c)  BY <1>1, <2>1 DEF Waiting
  <2>3. PICK h \in Z : \E n : RegionAt(p, mainLen, h, n, e.ins)  BY <2>2 DEF Waits
  <2>4. e.ins # 0  BY <1>2, <1>12, <2>3, LevelFacts
  <2> QED BY <2>1, <2>2, <2>4 DEF Waits
<1>15. Underway(p, mainLen, z, Z, pl, 0)  BY <1>1, <1>8, <1>9, <1>11, <1>13, <1>14 DEF Underway
<1> QED BY <1>15 DEF z
------------------------------------------------------------------------------
\* The instructions whose sub-lists are placed.
ServedIn(p, Z) == {i \in Regions(p) : <<i, "x">> \in Z}

ServeHead(p, st) == ScheduleRegion(p, [st EXCEPT !.queue = Tail(@)], Head(st.queue))

\* The first region item is taken from the queue.
LEMMA JobTaken ==
  ASSUME NEW p, NEW mainLen, Listing(p, mainLen), NEW st, NEW Z, NEW pl,
         Underway(p, mainLen, st, Z, pl, 0), st.queue # <<>>
  PROVE  /\ Head(st.queue) \in Items /\ Waits(p, mainLen, Head(st.queue), Z, pl, 0)
         /\ Underway(p, mainLen, [st EXCEPT !.queue = Tail(@)], Z, pl, Head(st.queue).ins)
<1>1. /\ st \in StreamStates(p) /\ KnownLists(p, mainLen, Z) /\ InStreams(p, mainLen, st.lanes, Z, pl)
      /\ Steered(p, mainLen, st, Z, pl, 0) /\ Waiting(p, mainLen, st.queue, Z, pl, 0)
  BY DEF Underway
<1>2. PICK y, u : st = [lanes |-> y, queue |-> u] /\ st.lanes = y /\ st.queue = u
                  /\ y \in [LaneIds -> Seq(AnyEntry(p))] /\ u \in Seq(Items)
  BY <1>1 DEF StreamStates
<1>3. PICK n \in Nat : n = Len(u) /\ n >= 1
  <2>1. u # <<>> /\ Len(u) \in Nat  BY <1>2, LenProperties
  <2>2. Len(u) # 0  BY <1>2, <2>1, EmptySeq
  <2> QED BY <2>1, <2>2
<1>4. Head(u) = u[1] /\ u[1] \in Items
  <2>1. 1 \in 1 .. Len(u)  BY <1>3
  <2> QED BY <1>2, <2>1, ElementOfSeq
<1>5. PICK e : e = Head(u) /\ e = u[1]  BY <1>4
<1>6. PICK t \in Seq(Items) : /\ t = Tail(u) /\ Len(t) = n - 1
                              /\ \A q \in 1 .. n - 1 : t[q] = u[q + 1]
  <2>1. u # <<>>  BY <1>2
  <2>2. /\ Tail(u) \in Seq(Items) /\ Len(Tail(u)) = Len(u) - 1
        /\ \A q \in 1 .. Len(u) - 1 : Tail(u)[q] = u[q + 1]
    BY <1>2, <2>1, HeadTailProperties
  <2> QED BY <1>3, <2>2
<1>7. PICK s : s = [st EXCEPT !.queue = Tail(@)]  OBVIOUS
<1>8. s = [lanes |-> y, queue |-> t] /\ s.lanes = y /\ s.queue = t
  <2>1. [[lanes |-> y, queue |-> u] EXCEPT !.queue = t] = [lanes |-> y, queue |-> t]  OBVIOUS
  <2>2. s = [st EXCEPT !.queue = t]  BY <1>2, <1>6, <1>7
  <2>3. s = [lanes |-> y, queue |-> t]  BY <1>2, <2>1, <2>2
  <2> QED BY <2>3
<1>9. s \in StreamStates(p)  BY <1>2, <1>8 DEF StreamStates
<1>10. 1 \in 1 .. n /\ \A q \in 1 .. n - 1 : q + 1 \in 1 .. n /\ q + 1 # 1 /\ q = (q + 1) - 1  BY <1>3
<1>11. /\ \A q \in 1 .. n : Waits(p, mainLen, u[q], Z, pl, 0)
       /\ \A q, r \in 1 .. n : u[q].ins = u[r].ins => q = r
  BY <1>1, <1>2, <1>3 DEF Waiting
<1>12. ASSUME NEW q \in 1 .. n - 1 PROVE Waits(p, mainLen, t[q], Z, pl, e.ins)
  <2>1. PICK f : f = t[q] /\ f = u[q + 1]  BY <1>6
  <2>2. Waits(p, mainLen, f, Z, pl, 0)  BY <1>10, <1>11, <2>1
  <2>3. f.ins # e.ins  BY <1>5, <1>10, <1>11, <2>1
  <2>4. Waits(p, mainLen, f, Z, pl, e.ins)  BY <2>2, <2>3 DEF Waits
  <2> QED BY <2>1, <2>4
<1>13. ASSUME NEW q \in 1 .. n - 1, NEW r \in 1 .. n - 1, t[q].ins = t[r].ins PROVE q = r
  <2>1. u[q + 1].ins = u[r + 1].ins  BY <1>6, <1>13
  <2>2. q + 1 = r + 1  BY <1>10, <1>11, <2>1
  <2> QED BY <1>3, <2>2
<1>14. Waiting(p, mainLen, t, Z, pl, e.ins)  BY <1>6, <1>12, <1>13 DEF Waiting
<1>15. Steered(p, mainLen, s, Z, pl, e.ins)
  <2> SUFFICES ASSUME NEW h \in Z, NEW m, NEW i, RegionAt(p, mainLen, h, m, i), i # e.ins
               PROVE  Settled(y, Z, pl, h, m, i) \/ \E q \in 1 .. Len(t) : t[q].ins = i
    BY <1>8 DEF Steered
  <2>1. i # 0
    <3>1. Z \subseteq AllLists(p)  BY <1>1 DEF KnownLists
    <3>2. i \in Regions(p)  BY <3>1, LevelFacts
    <3>3. Len(p) \in Nat  BY ListFacts
    <3> QED BY <3>2, <3>3 DEF Regions
  <2>2. CASE \E q \in 1 .. n : u[q].ins = i
    <3>1. PICK q \in 1 .. n : u[q].ins = i  BY <2>2
    <3>2. q # 1  BY <1>5, <3>1
    <3>3. q - 1 \in 1 .. n - 1 /\ (q - 1) + 1 = q  BY <1>3, <3>1, <3>2
    <3>4. t[q - 1] = u[q]  BY <1>6, <3>3
    <3> QED BY <1>6, <3>1, <3>3, <3>4
  <2>3. Settled(y, Z, pl, h, m, i) \/ \E q \in 1 .. n : u[q].ins = i
    BY <1>1, <1>2, <1>3, <2>1 DEF Steered
  <2> QED BY <2>2, <2>3
<1>16. Underway(p, mainLen, s, Z, pl, e.ins)
  BY <1>1, <1>2, <1>8, <1>9, <1>14, <1>15 DEF Underway
<1> QED BY <1>2, <1>4, <1>5, <1>7, <1>10, <1>11, <1>16

\* A region job is served.
LEMMA JobServed ==
  ASSUME NEW p, NEW mainLen, Listing(p, mainLen), NEW st, NEW Z, NEW pl,
         Underway(p, mainLen, st, Z, pl, 0), st.queue # <<>>
  PROVE  \E Y, pl2 :
           /\ Underway(p, mainLen, ServeHead(p, st), Y, pl2, 0)
           /\ pl2[RootList] = pl[RootList]
           /\ Head(st.queue).ins \in Regions(p) \ ServedIn(p, Z)
           /\ ServedIn(p, Y) = ServedIn(p, Z) \cup {Head(st.queue).ins}
<1> DEFINE e == Head(st.queue)
           c == e.ins
           s == [st EXCEPT !.queue = Tail(@)]
           gx == <<c, "x">>
           gy == <<c, "y">>
           s1 == ScheduleRange(p, s, p[c].x)
           s2 == ScheduleRange(p, s1, p[c].y)
<1>1. e \in Items /\ Waits(p, mainLen, e, Z, pl, 0) /\ Underway(p, mainLen, s, Z, pl, c)  BY JobTaken
<1> HIDE DEF e, s
<1>0. PICK g \in Z : \E m : /\ RegionAt(p, mainLen, g, m, c)
                            /\ e = JobOf(LevelsFor(p, mainLen, g), m, SecOf(pl, g))
  BY <1>1 DEF Waits
<1>2. PICK m : RegionAt(p, mainLen, g, m, c) /\ e = JobOf(LevelsFor(p, mainLen, g), m, SecOf(pl, g))
  BY <1>0
<1>3. gx \notin Z /\ gy \notin Z  BY <1>1 DEF Waits
<1>4. Z \subseteq AllLists(p) /\ RootList \in Z  BY <1>1 DEF Underway, KnownLists
<1>5. c \in Regions(p) /\ c \in Listed(p, mainLen, g)  BY <1>2, <1>4, LevelFacts
<1>6. gx \in SubLists(p) /\ gy \in SubLists(p) /\ gx # gy /\ gx[1] = c /\ gy[1] = c  BY <1>5 DEF SubLists
<1>7. RangeOf(p, mainLen, gx) = p[c].x /\ RangeOf(p, mainLen, gy) = p[c].y
  <2>1. gx # RootList /\ gy # RootList  BY <1>6, ListFacts
  <2> QED BY <2>1 DEF RangeOf
<1>8. \A h \in Z : h # gx /\ h # gy  BY <1>3
<1> HIDE DEF gx, gy, c
<1>9. PICK pl1 :
        /\ Underway(p, mainLen, s1, Z \cup {gx}, pl1, c)
        /\ \A h \in Z : pl1[h] = pl[h]
        /\ \A l \in LaneIds : /\ Keeps(s.lanes[l], s1.lanes[l])
                              /\ pl1[gx][l].from = Len(s.lanes[l]) + 1 /\ pl1[gx][l].end = Len(s1.lanes[l]) + 1
  <2>1. \E h \in Z : c \in Listed(p, mainLen, h)  BY <1>5
  <2>2. \E pl1 : Appends(p, mainLen, s, ScheduleRange(p, s, RangeOf(p, mainLen, gx)), Z, pl, gx, pl1)
    BY <1>1, <1>3, <1>6, <2>1, ListPlaced
  <2>3. PICK pl1 : Appends(p, mainLen, s, s1, Z, pl, gx, pl1)  BY <1>7, <2>2
  <2> QED BY <1>6, <2>3 DEF Appends
<1> HIDE DEF s1
<1>10. PICK pl2 :
        /\ Underway(p, mainLen, s2, (Z \cup {gx}) \cup {gy}, pl2, c)
        /\ \A h \in Z \cup {gx} : pl2[h] = pl1[h]
        /\ \A l \in LaneIds : /\ Keeps(s1.lanes[l], s2.lanes[l])
                              /\ pl2[gy][l].from = Len(s1.lanes[l]) + 1 /\ pl2[gy][l].end = Len(s2.lanes[l]) + 1
  <2>1. \E h \in Z \cup {gx} : c \in Listed(p, mainLen, h)  BY <1>5
  <2>2. gy \notin Z \cup {gx}  BY <1>3, <1>6
  <2>3. \E pl2 : Appends(p, mainLen, s1, ScheduleRange(p, s1, RangeOf(p, mainLen, gy)), Z \cup {gx}, pl1, gy, pl2)
    BY <1>6, <1>9, <2>1, <2>2, ListPlaced
  <2>4. PICK pl2 : Appends(p, mainLen, s1, s2, Z \cup {gx}, pl1, gy, pl2)  BY <1>7, <2>3
  <2> QED BY <1>6, <2>4 DEF Appends
<1> HIDE DEF s2
<1>11. PICK Y : Y = (Z \cup {gx}) \cup {gy}  OBVIOUS
<1>12. \A h \in Z : pl2[h] = pl[h]  BY <1>9, <1>10
<1>13. \A l \in LaneIds : e.at[l] = pl2[g][l].sec[m]  BY <1>2, <1>12 DEF JobOf, SecOf
<1>14. ASSUME NEW l \in LaneIds
       PROVE  /\ Len(s.lanes[l]) \in Nat /\ Len(s1.lanes[l]) \in Nat
              /\ Len(s.lanes[l]) <= Len(s1.lanes[l]) /\ Len(s1.lanes[l]) <= Len(s2.lanes[l])
              /\ pl2[gx][l].from = Len(s.lanes[l]) + 1 /\ pl2[gx][l].end = Len(s1.lanes[l]) + 1
              /\ pl2[gy][l].from = Len(s1.lanes[l]) + 1 /\ pl2[gy][l].end = Len(s2.lanes[l]) + 1
  <2>1. s \in StreamStates(p) /\ s1 \in StreamStates(p)  BY <1>1, <1>9 DEF Underway
  <2>2. Len(s.lanes[l]) \in Nat /\ Len(s1.lanes[l]) \in Nat  BY <2>1, StreamLens
  <2>3. pl2[gx] = pl1[gx]  BY <1>10
  <2>4. Keeps(s.lanes[l], s1.lanes[l]) /\ Keeps(s1.lanes[l], s2.lanes[l])  BY <1>9, <1>10
  <2> QED BY <1>9, <1>10, <2>2, <2>3, <2>4 DEF Keeps
<1>15. Underway(p, mainLen, Patched(s, s1, s2, e), Y, pl2, 0)
  <2>1. Underway(p, mainLen, s2, Y, pl2, c) /\ <<c, "x">> \in Y /\ <<c, "y">> \in Y /\ g \in Y
    BY <1>10, <1>11 DEF gx, gy
  <2>2. Between(s, s1, s2, pl2, c)  BY <1>14 DEF gx, gy, Between
  <2>3. Names(e, pl2, g, m)  BY <1>13 DEF Names
  <2> QED BY <1>2, <2>1, <2>2, <2>3, RangesPatched
<1>16. Patched(s, s1, s2, e) = ServeHead(p, st)
  BY DEF ServeHead, ScheduleRegion, PlaceSecond, s, s1, s2, e, c
<1>17. pl2[RootList] = pl[RootList]  BY <1>4, <1>12
<1>18. ServedIn(p, Y) = ServedIn(p, Z) \cup {c}
  <2>1. \A i : <<i, "x">> = gx <=> i = c  BY DEF gx
  <2>2. \A i : <<i, "x">> # gy  BY DEF gy
  <2> QED BY <1>5, <1>11, <2>1, <2>2 DEF ServedIn
<1>19. c \notin ServedIn(p, Z)  BY <1>3 DEF ServedIn, gx
<1> QED BY <1>5, <1>15, <1>16, <1>17, <1>18, <1>19 DEF c, e
------------------------------------------------------------------------------
(* The root *)

NoStream == [l \in LaneIds |-> <<>>]

RootAt(lens, pl) == \A l \in LaneIds : pl[RootList][l].from = 1 /\ pl[RootList][l].end = lens[l] + 1

\* The root alone has been placed.
RootDone(p, mainLen, st) ==
  \E pl : /\ Underway(p, mainLen, st, {RootList}, pl, 0)
          /\ RootAt([l \in LaneIds |-> Len(st.lanes[l])], pl)

LEMMA IdleRoot ==
  ASSUME NEW p, NEW mainLen, Listing(p, mainLen), Busy(p, 1 .. mainLen) = {}
  PROVE  RootDone(p, mainLen, [lanes |-> [l \in LaneIds |-> <<Barrier>>], queue |-> <<>>])
<1> DEFINE Z == {RootList}
           L == LevelsFor(p, mainLen, RootList)
           st == [lanes |-> [l \in LaneIds |-> <<Barrier>>], queue |-> <<>>]
           sec == [m \in 1 .. 2 |-> m]
           pl == [g \in Z |-> [l \in LaneIds |-> [from |-> 1, end |-> 2, sec |-> sec]]]
<1>1. L = <<Idle, Idle>>  BY DEF LevelsFor
<1>2. Len(L) = 2 /\ \A m \in 1 .. 2 : L[m] = Idle  BY <1>1
<1>3. \A l \in LaneIds : Body(p, Idle, l) = <<>>  BY IdleBody DEF Listing
<1>4. \A m \in 1 .. 2 : \A l \in LaneIds : Size(p, L, l, m) = 0  BY <1>2, <1>3 DEF Size
<1>5. \A l \in LaneIds : pl[RootList][l].from = 1 /\ pl[RootList][l].end = 2 /\ pl[RootList][l].sec = sec
  OBVIOUS
<1>6. \A l \in LaneIds : st.lanes[l] = <<Barrier>> /\ Len(st.lanes[l]) = 1 /\ st.lanes[l][1] = Barrier  OBVIOUS
<1>7. st \in StreamStates(p)
  <2>1. Barrier \in AnyEntry(p)  BY DEF AnyEntry
  <2>2. \A e \in AnyEntry(p) : <<e>> \in Seq(AnyEntry(p))  OBVIOUS
  <2>3. <<Barrier>> \in Seq(AnyEntry(p))  BY <2>1, <2>2
  <2>4. <<>> \in Seq(Items)  OBVIOUS
  <2> QED BY <2>3, <2>4 DEF StreamStates
<1>8. st.queue = <<>> /\ Len(st.queue) = 0  OBVIOUS
<1> HIDE DEF L, st, pl
<1>9. 1 .. 2 = {1, 2} /\ \A m \in 1 .. 2 : sec[m] = m  OBVIOUS
<1>10. sec \in [1 .. 2 -> Nat]  OBVIOUS
<1> HIDE DEF sec
<1>11. ASSUME NEW l \in LaneIds PROVE Sections(p, L, 2, l, <<Barrier>>, 1, 2, sec)
  <2>1. \A m \in 1 .. 2 :
          /\ Size(p, L, l, m) \in Nat /\ 1 <= sec[m] /\ sec[m] + Size(p, L, l, m) <= 2
          /\ \A q \in 1 .. Size(p, L, l, m) : Alike(<<Barrier>>[sec[m] + q - 1], Body(p, L[m], l)[q])
          /\ m # 2 => /\ sec[m + 1] = sec[m] + Size(p, L, l, m) + 1
                      /\ <<Barrier>>[sec[m] + Size(p, L, l, m)] = Barrier
    <3> SUFFICES ASSUME NEW m \in 1 .. 2
                 PROVE  /\ Size(p, L, l, m) \in Nat /\ 1 <= sec[m] /\ sec[m] + Size(p, L, l, m) <= 2
                        /\ \A q \in 1 .. Size(p, L, l, m) : Alike(<<Barrier>>[sec[m] + q - 1], Body(p, L[m], l)[q])
                        /\ m # 2 => /\ sec[m + 1] = sec[m] + Size(p, L, l, m) + 1
                                    /\ <<Barrier>>[sec[m] + Size(p, L, l, m)] = Barrier
      OBVIOUS
    <3>1. Size(p, L, l, m) = 0 /\ sec[m] = m  BY <1>4, <1>9
    <3>2. \A q \in 1 .. Size(p, L, l, m) : FALSE  BY <3>1
    <3>3. m # 2 => m = 1 /\ m + 1 \in 1 .. 2 /\ sec[m + 1] = 2  BY <1>9
    <3> QED BY <3>1, <3>2, <3>3
  <2>2. \A m, n \in 1 .. 2 : m < n => sec[m] + Size(p, L, l, m) < sec[n]
    <3>1. \A m \in 1 .. 2 : sec[m] + Size(p, L, l, m) = m  BY <1>4, <1>9
    <3> QED BY <1>9, <3>1
  <2>3. sec[1] = 1 /\ sec[2] + Size(p, L, l, 2) = 2  BY <1>4, <1>9
  <2> QED BY <1>10, <2>1, <2>2, <2>3 DEF Sections
<1>12. ASSUME NEW g \in Z, NEW l \in LaneIds PROVE InLane(p, mainLen, st.lanes[l], pl[g][l], g, l)
  <2>1. Sections(p, L, Len(L), l, st.lanes[l], pl[RootList][l].from, pl[RootList][l].end, pl[RootList][l].sec)
    BY <1>2, <1>5, <1>6, <1>11
  <2>2. pl[RootList][l].end <= Len(st.lanes[l]) + 1  BY <1>5, <1>6
  <2>3. g = RootList  OBVIOUS
  <2> QED BY <2>1, <2>2, <2>3 DEF InLane, L
<1>13. InStreams(p, mainLen, st.lanes, Z, pl)  BY <1>12 DEF InStreams
<1>14. KnownLists(p, mainLen, Z)  BY DEF KnownLists, AllLists
<1>15. Steered(p, mainLen, st, Z, pl, 0)
  <2>1. ~Idle.region  BY DEF Idle
  <2>2. \A m, i : ~RegionAt(p, mainLen, RootList, m, i)  BY <1>2, <2>1 DEF RegionAt, L
  <2> QED BY <2>2 DEF Steered
<1>16. Waiting(p, mainLen, st.queue, Z, pl, 0)  BY <1>8 DEF Waiting
<1>17. Underway(p, mainLen, st, Z, pl, 0)  BY <1>7, <1>13, <1>14, <1>15, <1>16 DEF Underway
<1>18. RootAt([l \in LaneIds |-> Len(st.lanes[l])], pl)
  <2>1. \A l \in LaneIds : [k \in LaneIds |-> Len(st.lanes[k])][l] = 1  BY <1>6
  <2>2. 1 + 1 = 2  OBVIOUS
  <2> QED BY <1>5, <2>1, <2>2 DEF RootAt
<1>19. RootDone(p, mainLen, st)  BY <1>17, <1>18 DEF RootDone
<1> QED BY <1>19 DEF st

\* A level puts something in some lane.
LEMMA LevelWorks ==
  ASSUME NEW p, Plain(p), NEW S, NEW levels, LevelsIn(p, S, levels), NEW m \in 1 .. Len(levels)
  PROVE  \E l \in LaneIds : Body(p, levels[m], l) # <<>>
<1>1. PICK l0 \in LaneIds : TRUE  BY NLanesPositive DEF LaneIds
<1>2. CASE levels[m].region
  <2>1. Body(p, levels[m], l0) = <<ControlEntry(p[levels[m].members[1]])>>  BY <1>2 DEF Body
  <2>2. \A e : <<e>> # <<>>  OBVIOUS
  <2> QED BY <2>1, <2>2
<1>3. CASE ~levels[m].region
  <2>1. PackOK(p, Members(levels, m), PackUnits(Units(p, levels[m].members)))  BY <1>1, <1>3, BodyTyped
  <2>2. PICK i \in Members(levels, m) : i \in 1 .. Len(p)  BY DEF LevelsIn, Layered
  <2>3. 0 \in 0 .. NTiles(p[i]) - 1
    <3>1. p[i].n \in Nat  BY <2>2 DEF Plain
    <3>2. NTiles(p[i]) \in Nat \ {0}  BY <3>1, TilesCounted
    <3> QED BY <3>2
  <2>4. PICK l, x : RunAt(PackUnits(Units(p, levels[m].members)), l, x, i, 0)  BY <2>1, <2>2, <2>3 DEF PackOK
  <2>5. l \in LaneIds /\ x \in 1 .. Len(Body(p, levels[m], l))  BY <1>3, <2>4 DEF RunAt, Body
  <2>6. Body(p, levels[m], l) # <<>>
    <3>1. 1 .. Len(<<>>) = {}  OBVIOUS
    <3> QED BY <2>5, <3>1
  <2> QED BY <2>5, <2>6
<1> QED BY <1>2, <1>3

LEMMA RootPlaced ==
  ASSUME NEW p, NEW mainLen, Listing(p, mainLen) PROVE RootDone(p, mainLen, ScheduleRoot(p, mainLen))
<1> DEFINE K == ListLevels(p, mainLen, RootList)
           none == [lanes |-> NoStream, queue |-> <<>>]
           st == EmitLevels(p, none, K)
           S == Busy(p, 1 .. mainLen)
<1>1. ScheduleRoot(p, mainLen) = NeverEmpty(st)
  <2>1. RangeOf(p, mainLen, RootList) = SubList(1, mainLen)  BY DEF RangeOf
  <2> QED BY <2>1 DEF ScheduleRoot, ScheduleRange, ListLevels, NoStream
<1>2. none \in StreamStates(p)
  <2>1. <<>> \in Seq(AnyEntry(p)) /\ <<>> \in Seq(Items)  OBVIOUS
  <2> QED BY <2>1 DEF StreamStates, NoStream
<1>3. RootList \in AllLists(p) /\ Listed(p, mainLen, RootList) = 1 .. mainLen  BY ListFacts DEF AllLists
<1>4. LevelsIn(p, S, K)
  <2>1. Layered(p, S, K)  BY <1>3, ListLayered
  <2>2. 1 .. mainLen \subseteq 1 .. Len(p)  BY <1>3, ListFacts
  <2> QED BY <2>1, <2>2 DEF LevelsIn, Busy
<1>5. Plain(p)  BY DEF Listing
<1>6. Len(K) \in Nat
  <2>1. K \in Seq(Levels)  BY <1>4 DEF LevelsIn, Layered
  <2> QED BY <2>1, LenProperties
<1>7. none.lanes = NoStream /\ none.queue = <<>>  OBVIOUS
<1> HIDE DEF none, K
<1>8. EmittedTo(p, none, K, Len(K), st)  BY <1>2, <1>4, <1>5, ListEmitted
<1> HIDE DEF st
<1>9. CASE S = {}
  <2>1. Len(K) = 0
    <3>1. \A m \in 1 .. Len(K) : Members(K, m) \subseteq S /\ Members(K, m) # {}  BY <1>4 DEF LevelsIn, Layered
    <3>2. \A m \in 1 .. Len(K) : FALSE  BY <1>9, <3>1
    <3>3. Len(K) # 0 => 1 \in 1 .. Len(K)  BY <1>6
    <3> QED BY <3>2, <3>3
  <2>2. st = none  BY <1>8, <2>1 DEF EmittedTo
  <2>3. NeverEmpty(none) = [lanes |-> [l \in LaneIds |-> <<Barrier>>], queue |-> <<>>]
    <3>1. \A l \in LaneIds : none.lanes[l] = <<>>  BY <1>7 DEF NoStream
    <3>2. NeverEmpty(none) = [none EXCEPT !.lanes = [l \in LaneIds |-> <<Barrier>>]]  BY <3>1 DEF NeverEmpty
    <3>3. PICK y, z : y = NoStream /\ z = [l \in LaneIds |-> <<Barrier>>]  OBVIOUS
    <3>4. [[lanes |-> y, queue |-> <<>>] EXCEPT !.lanes = z] = [lanes |-> z, queue |-> <<>>]  OBVIOUS
    <3> QED BY <3>2, <3>3, <3>4 DEF none
  <2> QED BY <1>1, <1>9, <2>2, <2>3, IdleRoot
<1>10. CASE S # {}
  <2> DEFINE Z == {RootList}
  <2>1. PICK sec :
          /\ \A l \in LaneIds :
               Sections(p, K, Len(K), l, st.lanes[l], Len(none.lanes[l]) + 1, Len(st.lanes[l]) + 1, sec[l])
          /\ Queued(K, Len(K), sec, none.queue, st.queue)
    BY <1>8 DEF EmittedTo
  <2>2. st \in StreamStates(p)  BY <1>8 DEF EmittedTo
  <2>3. \A l \in LaneIds : Len(none.lanes[l]) + 1 = 1
    <3>1. \A l \in LaneIds : none.lanes[l] = <<>>  BY <1>7 DEF NoStream
    <3> QED BY <3>1
  <2>4. \A l \in LaneIds :
          Sections(p, K, Len(K), l, st.lanes[l], 1, Len(st.lanes[l]) + 1, sec[l])
    BY <2>1, <2>3
  <2>5. \A l \in LaneIds : Len(st.lanes[l]) \in Nat /\ Len(st.queue) \in Nat  BY <2>2, StreamLens
  <2>6. NeverEmpty(st) = st
    <3>1. \E i : i \in S  BY <1>10
    <3>2. 1 \in 1 .. Len(K)
      <4>1. \E m \in 1 .. Len(K) : TRUE  BY <1>4, <3>1 DEF LevelsIn, Layered
      <4> QED BY <1>6, <4>1
    <3>3. PICK l \in LaneIds : Body(p, K[1], l) # <<>>  BY <1>4, <1>5, <3>2, LevelWorks
    <3>4. Body(p, K[1], l) \in Seq(AnyEntry(p))  BY <1>4, <1>5, <3>2, BodyTyped
    <3>5. PICK z \in Nat : z = Size(p, K, l, 1) /\ z # 0
      <4>1. Len(Body(p, K[1], l)) \in Nat /\ Len(Body(p, K[1], l)) # 0  BY <3>3, <3>4, LenProperties, EmptySeq
      <4> QED BY <4>1 DEF Size
    <3>6. PICK n \in Nat, c \in Nat : n = Len(st.lanes[l]) /\ c = sec[l][1] /\ 1 <= c /\ c + z <= n + 1
      <4>1. sec[l] \in [1 .. Len(K) -> Nat] /\ 1 <= sec[l][1] /\ sec[l][1] + Size(p, K, l, 1) <= Len(st.lanes[l]) + 1
        BY <2>4, <3>2 DEF Sections
      <4>2. sec[l][1] \in Nat  BY <3>2, <4>1
      <4> QED BY <2>5, <3>5, <4>1, <4>2
    <3>7. n # 0  BY ONLY <3>5, <3>6, n \in Nat, c \in Nat, z \in Nat
    <3>8. st.lanes[l] # <<>>
      <4>1. Len(<<>>) = 0  OBVIOUS
      <4> QED BY <3>6, <3>7, <4>1
    <3> QED BY <3>8 DEF NeverEmpty
  <2>7. LevelsFor(p, mainLen, RootList) = K  BY <1>10 DEF LevelsFor, K
  <2> DEFINE pl == [g \in Z |-> [l \in LaneIds |-> [from |-> 1, end |-> Len(st.lanes[l]) + 1, sec |-> sec[l]]]]
  <2>8. \A l \in LaneIds : /\ pl[RootList][l].from = 1 /\ pl[RootList][l].end = Len(st.lanes[l]) + 1
                           /\ pl[RootList][l].sec = sec[l]
    OBVIOUS
  <2> HIDE DEF pl, S
  <2>9. ASSUME NEW g \in Z, NEW l \in LaneIds PROVE InLane(p, mainLen, st.lanes[l], pl[g][l], g, l)
    <3>1. g = RootList  OBVIOUS
    <3>2. PICK n \in Nat : n = Len(st.lanes[l])  BY <2>5
    <3>3. n + 1 <= n + 1  OBVIOUS
    <3> QED BY <2>4, <2>7, <2>8, <3>1, <3>2, <3>3 DEF InLane
  <2>10. InStreams(p, mainLen, st.lanes, Z, pl)  BY <2>9 DEF InStreams
  <2>11. KnownLists(p, mainLen, Z)  BY DEF KnownLists, AllLists
  <2>12. PICK b \in Nat : b = Len(st.queue) /\ b \in Nat
    <3>1. PICK l \in LaneIds : TRUE  BY NLanesPositive DEF LaneIds
    <3> QED BY <2>5, <3>1
  <2>13. /\ \A q \in 1 .. b : \E m \in 1 .. Len(K) : K[m].region /\ st.queue[q] = JobOf(K, m, sec)
         /\ \A m \in 1 .. Len(K) : K[m].region => \E q \in 1 .. b : st.queue[q].ins = K[m].members[1]
         /\ \A q, r \in 1 .. b : st.queue[q].ins = st.queue[r].ins => q = r
    <3>1. Len(none.queue) + 1 = 1  BY <1>7
    <3> QED BY <2>1, <2>12, <3>1 DEF Queued
  <2>14. Steered(p, mainLen, st, Z, pl, 0)
    <3>1. \A m, i : RegionAt(p, mainLen, RootList, m, i) => \E q \in 1 .. b : st.queue[q].ins = i
      BY <2>7, <2>13 DEF RegionAt
    <3> QED BY <2>12, <3>1 DEF Steered
  <2>15. ASSUME NEW q \in 1 .. b PROVE Waits(p, mainLen, st.queue[q], Z, pl, 0)
    <3>1. PICK m \in 1 .. Len(K) : K[m].region /\ st.queue[q] = JobOf(K, m, sec)  BY <2>13
    <3>2. PICK e : e = st.queue[q]  OBVIOUS
    <3>3. e.ins = K[m].members[1]  BY <3>1, <3>2 DEF JobOf
    <3>4. RegionAt(p, mainLen, RootList, m, e.ins)  BY <2>7, <3>1, <3>3 DEF RegionAt
    <3>5. e.ins # 0
      <4>1. e.ins \in Regions(p)  BY <1>3, <3>4, LevelFacts
      <4>2. Len(p) \in Nat  BY ListFacts
      <4> QED BY <4>1, <4>2 DEF Regions
    <3>6. <<e.ins, "x">> \notin Z /\ <<e.ins, "y">> \notin Z  BY <3>5 DEF RootList
    <3>7. JobOf(K, m, SecOf(pl, RootList)) = JobOf(K, m, sec)  BY <2>8 DEF JobOf, SecOf
    <3>8. Waits(p, mainLen, e, Z, pl, 0)  BY <2>7, <3>1, <3>2, <3>4, <3>5, <3>6, <3>7 DEF Waits
    <3> QED BY <3>2, <3>8
  <2>16. Waiting(p, mainLen, st.queue, Z, pl, 0)  BY <2>12, <2>13, <2>15 DEF Waiting
  <2>17. Underway(p, mainLen, st, Z, pl, 0)  BY <2>2, <2>10, <2>11, <2>14, <2>16 DEF Underway
  <2>18. RootAt([l \in LaneIds |-> Len(st.lanes[l])], pl)  BY <2>8 DEF RootAt
  <2> QED BY <1>1, <2>6, <2>17, <2>18 DEF RootDone
<1> QED BY <1>9, <1>10
------------------------------------------------------------------------------
(* All region jobs *)

\* streams are those of a program, with list g of Z at pl[g]: every lane's root is at
\* the beginning, and every control entry names its own sub-lists.
StreamsOf(p, mainLen, streams, lens, Z, pl) ==
  /\ streams \in [LaneIds -> Seq(AnyEntry(p))]
  /\ KnownLists(p, mainLen, Z) /\ InStreams(p, mainLen, streams, Z, pl)
  /\ \A g \in Z : \A m, i : RegionAt(p, mainLen, g, m, i) => Settled(streams, Z, pl, g, m, i)
  /\ RootAt(lens, pl)

\* k jobs have been served, or all.
DrainedTo(p, mainLen, lens, st, k) ==
  \E Z, pl : /\ Underway(p, mainLen, st, Z, pl, 0) /\ RootAt(lens, pl)
             /\ st.queue = <<>> \/ Cardinality(ServedIn(p, Z)) = k

\* In every lane's stream the levels of each list of the program are one stretch, in
\* the list's order; the root's is at the beginning and as long as rootLens says; and a
\* control entry names the stretches of its own sub-lists in its own lane, in every
\* lane alike (schedule_program: the lists of a region are placed, and its entries
\* patched, when its job is served).
THEOREM ProgramScheduled ==
  ASSUME NEW p, NEW mainLen, Listing(p, mainLen)
  PROVE  \E Z, pl : StreamsOf(p, mainLen, ScheduleProgram(p, mainLen).streams,
                              ScheduleProgram(p, mainLen).rootLens, Z, pl)
<1> DEFINE root == ScheduleRoot(p, mainLen)
           lens == [l \in LaneIds |-> Len(root.lanes[l])]
           N == Len(p)
           Serve(st) ==
             IF st.queue = <<>> THEN st
             ELSE ScheduleRegion(p, [st EXCEPT !.queue = Tail(@)], Head(st.queue))
           Is(f) == f = [k \in 0 .. N |-> IF k = 0 THEN root ELSE Serve(f[k - 1])]
           h == CHOOSE f : Is(f)
           T == StreamStates(p)
           G == [k \in 0 .. N |-> {x \in T : DrainedTo(p, mainLen, lens, x, k)}]
           step == [k \in 1 .. N |-> [x \in T |-> Serve(x)]]
<1>1. ScheduleProgram(p, mainLen).streams = h[N].lanes /\ ScheduleProgram(p, mainLen).rootLens = lens
  BY DEF ScheduleProgram, DrainQueue
<1>2. N \in Nat  BY ListFacts
<1>3. \A Z : IsFiniteSet(ServedIn(p, Z)) /\ Cardinality(ServedIn(p, Z)) \in Nat /\ ServedIn(p, Z) \subseteq 1 .. N
  <2> SUFFICES ASSUME NEW Z
               PROVE  IsFiniteSet(ServedIn(p, Z)) /\ Cardinality(ServedIn(p, Z)) \in Nat /\ ServedIn(p, Z) \subseteq 1 .. N
    OBVIOUS
  <2>1. ServedIn(p, Z) \subseteq 1 .. N  BY DEF ServedIn, Regions
  <2>2. IsFiniteSet(1 .. N)  BY <1>2, FS_Interval
  <2>3. IsFiniteSet(ServedIn(p, Z))  BY <2>1, <2>2, FS_Subset
  <2> QED BY <2>1, <2>3, FS_CardinalityType
<1>4. root \in T /\ DrainedTo(p, mainLen, lens, root, 0)
  <2>1. PICK pl : Underway(p, mainLen, root, {RootList}, pl, 0) /\ RootAt(lens, pl)
    <3>1. RootDone(p, mainLen, root)  BY RootPlaced
    <3> HIDE DEF root
    <3> QED BY <3>1 DEF RootDone
  <2>2. ServedIn(p, {RootList}) = {}
    <3>1. \A i \in Regions(p) : i # 0  BY <1>2 DEF Regions
    <3>2. \A i \in Regions(p) : <<i, "x">> # RootList  BY <3>1 DEF RootList
    <3> QED BY <3>2 DEF ServedIn
  <2>3. Cardinality(ServedIn(p, {RootList})) = 0  BY <2>2, FS_EmptySet
  <2> HIDE DEF root, lens
  <2> QED BY <2>1, <2>3 DEF DrainedTo, Underway
<1> HIDE DEF root, lens, N, T
<1>5. ASSUME NEW k \in 1 .. N, NEW x \in T, DrainedTo(p, mainLen, lens, x, k - 1)
      PROVE  Serve(x) \in T /\ DrainedTo(p, mainLen, lens, Serve(x), k)
  <2>1. PICK Z, pl : /\ Underway(p, mainLen, x, Z, pl, 0) /\ RootAt(lens, pl)
                     /\ x.queue = <<>> \/ Cardinality(ServedIn(p, Z)) = k - 1
    BY <1>5 DEF DrainedTo
  <2>2. CASE x.queue = <<>>
    <3>1. Serve(x) = x  BY <2>2
    <3> HIDE DEF Serve
    <3> QED BY <2>1, <2>2, <3>1 DEF DrainedTo
  <2>3. CASE x.queue # <<>>
    <3>1. Serve(x) = ServeHead(p, x)  BY <2>3 DEF ServeHead
    <3>2. PICK Y, pl2, i :
            /\ Underway(p, mainLen, ServeHead(p, x), Y, pl2, 0) /\ pl2[RootList] = pl[RootList]
            /\ i \notin ServedIn(p, Z) /\ ServedIn(p, Y) = ServedIn(p, Z) \cup {i}
      BY <2>1, <2>3, JobServed
    <3>3. Cardinality(ServedIn(p, Y)) = k
      <4>1. Cardinality(ServedIn(p, Z)) = k - 1  BY <2>1, <2>3
      <4>2. Cardinality(ServedIn(p, Z) \cup {i}) = Cardinality(ServedIn(p, Z)) + 1  BY <1>3, <3>2, FS_AddElement
      <4>3. (k - 1) + 1 = k  BY <1>2
      <4> QED BY <3>2, <4>1, <4>2, <4>3
    <3>4. RootAt(lens, pl2)  BY <2>1, <3>2 DEF RootAt
    <3>5. DrainedTo(p, mainLen, lens, ServeHead(p, x), k)  BY <3>2, <3>3, <3>4 DEF DrainedTo
    <3>6. ServeHead(p, x) \in T  BY <3>2 DEF Underway, T
    <3> HIDE DEF Serve
    <3> QED BY <3>1, <3>5, <3>6
  <2> QED BY <2>2, <2>3
<1> HIDE DEF Serve
<1>6. Leads(N, T, G, root, step)
  <2>1. root \in G[0]  BY <1>2, <1>4
  <2>2. ASSUME NEW k \in 1 .. N, NEW x \in G[k - 1] PROVE step[k][x] \in G[k]
    <3>1. k - 1 \in 0 .. N /\ k \in 0 .. N  BY <1>2
    <3>2. x \in T /\ DrainedTo(p, mainLen, lens, x, k - 1)  BY <3>1
    <3>3. step[k][x] = Serve(x)  BY <3>2
    <3>4. Serve(x) \in T /\ DrainedTo(p, mainLen, lens, Serve(x), k)  BY <1>5, <3>2
    <3> QED BY <3>1, <3>3, <3>4
  <2>3. \A k \in 0 .. N : G[k] \subseteq T  OBVIOUS
  <2> HIDE DEF G, step
  <2> QED BY <2>1, <2>2, <2>3 DEF Leads
<1>7. PICK f \in [0 .. N -> T] : /\ f[0] = root
                                 /\ \A k \in 0 .. N : f[k] \in G[k]
                                 /\ \A k \in 1 .. N : f[k] = step[k][f[k - 1]]
  <2> HIDE DEF G, step
  <2> QED BY <1>2, <1>6, Reached
<1>8. Is(f)
  <2>1. \A k \in 1 .. N : k - 1 \in 0 .. N /\ f[k - 1] \in T  BY <1>2
  <2>2. \A k \in 1 .. N : f[k] = Serve(f[k - 1])  BY <1>7, <2>1
  <2>3. f = [k \in 0 .. N |-> f[k]] /\ \A k \in 0 .. N : k = 0 \/ k \in 1 .. N  BY <1>2
  <2>4. \A k \in 0 .. N : f[k] = IF k = 0 THEN root ELSE Serve(f[k - 1])  BY <1>7, <2>2, <2>3
  <2> QED BY <2>3, <2>4
<1>9. Is(h)
  <2>1. \E g : Is(g)  BY <1>8
  <2> HIDE DEF Is
  <2> QED BY <2>1
<1> HIDE DEF h
<1>10. Heeds(h, N, G, root, step)
  <2>1. \A k \in 0 .. N : h[k] = IF k = 0 THEN root ELSE Serve(h[k - 1])
    <3>1. h = [k \in 0 .. N |-> IF k = 0 THEN root ELSE Serve(h[k - 1])]  BY <1>9
    <3> QED BY <3>1
  <2>2. 0 \in 0 .. N /\ \A k \in 1 .. N : k \in 0 .. N /\ k # 0 /\ k - 1 \in 0 .. N  BY <1>2
  <2>3. h[0] = root  BY <2>1, <2>2
  <2>4. ASSUME NEW k \in 1 .. N, h[k - 1] \in G[k - 1] PROVE h[k] = step[k][h[k - 1]]
    <3>1. h[k - 1] \in T  BY <2>2, <2>4
    <3>2. h[k] = Serve(h[k - 1])  BY <2>1, <2>2
    <3> QED BY <3>1, <3>2
  <2> HIDE DEF G, step
  <2> QED BY <2>3, <2>4 DEF Heeds
<1>11. h[N] \in G[N]
  <2>1. \A k \in 0 .. N : h[k] \in G[k]
    <3> HIDE DEF G, step
    <3> QED BY <1>2, <1>6, <1>10, Kept
  <2>2. N \in 0 .. N  BY <1>2
  <2> QED BY <2>1, <2>2
<1>12. PICK x \in T : x = h[N] /\ DrainedTo(p, mainLen, lens, x, N)
  <2>1. N \in 0 .. N  BY <1>2
  <2> QED BY <1>11, <2>1
<1>13. PICK Z, pl : /\ Underway(p, mainLen, x, Z, pl, 0) /\ RootAt(lens, pl)
                    /\ x.queue = <<>> \/ Cardinality(ServedIn(p, Z)) = N
  BY <1>12 DEF DrainedTo
<1>14. x.queue = <<>>
  <2> SUFFICES ASSUME x.queue # <<>> PROVE FALSE
    OBVIOUS
  <2>1. PICK i : i \in Regions(p) \ ServedIn(p, Z)  BY <1>13, JobServed
  <2>2. i \in 1 .. N  BY <2>1 DEF Regions, N
  <2>3. Cardinality(ServedIn(p, Z)) = N  BY <1>13
  <2>4. IsFiniteSet(1 .. N) /\ Cardinality(1 .. N) = N  BY <1>2, FS_Interval
  <2>5. ServedIn(p, Z) = 1 .. N  BY <1>3, <2>3, <2>4, FS_Subset
  <2> QED BY <2>1, <2>2, <2>5
<1>15. StreamsOf(p, mainLen, x.lanes, lens, Z, pl)
  <2>1. Len(x.queue) = 0  BY <1>14
  <2>2. ASSUME NEW g \in Z, NEW m, NEW i, RegionAt(p, mainLen, g, m, i)
        PROVE  Settled(x.lanes, Z, pl, g, m, i)
    <3>1. g \in AllLists(p)  BY <1>13 DEF Underway, KnownLists
    <3>2. i \in Regions(p) /\ Len(p) \in Nat  BY <2>2, <3>1, LevelFacts, ListFacts
    <3>3. i # 0  BY <3>2 DEF Regions
    <3>4. \A q \in 1 .. Len(x.queue) : FALSE  BY <2>1
    <3> QED BY <1>13, <2>2, <3>3, <3>4 DEF Underway, Steered
  <2>3. x.lanes \in [LaneIds -> Seq(AnyEntry(p))]  BY <1>13 DEF Underway, StreamStates
  <2> QED BY <1>13, <2>2, <2>3 DEF StreamsOf, Underway
<1> QED BY <1>1, <1>12, <1>15
------------------------------------------------------------------------------
(* Charts: a loaded program, with where its lists are in the streams *)

IsChart(w) ==
  /\ Listing(w.prog, w.main)
  /\ StreamsOf(w.prog, w.main, w.streams, w.rootLens, w.lists, w.spots)

Count(w, g)       == Len(LevelsFor(w.prog, w.main, g))
Steering(w, g, m) == LevelsFor(w.prog, w.main, g)[m].region
Target(w, g, m)   == LevelsFor(w.prog, w.main, g)[m].members[1]

\* Where list g is in lane l's stream, and where its level m.
From(w, g, l)      == w.spots[g][l].from
To(w, g, l)        == w.spots[g][l].end
Pos(w, g, m, l)    == w.spots[g][l].sec[m]
Beyond(w, g, m, l) == Pos(w, g, m, l) + Size(w.prog, LevelsFor(w.prog, w.main, g), l, m)

\* Level m is somewhere, and the barrier behind it.
LevelSpot(w, g, m, l) ==
  /\ Pos(w, g, m, l) \in Nat /\ Beyond(w, g, m, l) \in Nat
  /\ From(w, g, l) <= Pos(w, g, m, l) /\ Pos(w, g, m, l) <= Beyond(w, g, m, l)
  /\ Beyond(w, g, m, l) <= To(w, g, l)
  /\ m = 1 => Pos(w, g, m, l) = From(w, g, l)
  /\ m = Count(w, g) => Beyond(w, g, m, l) = To(w, g, l)
  /\ m # Count(w, g) => /\ Beyond(w, g, m, l) < To(w, g, l)
                        /\ w.streams[l][Beyond(w, g, m, l)] = Barrier
                        /\ Pos(w, g, m + 1, l) = Beyond(w, g, m, l) + 1

LEMMA ListSpots ==
  ASSUME NEW w, IsChart(w), NEW g \in w.lists, NEW l \in LaneIds
  PROVE  /\ Count(w, g) \in Nat /\ From(w, g, l) \in Nat \ {0} /\ To(w, g, l) \in Nat
         /\ From(w, g, l) <= To(w, g, l)
         /\ Count(w, g) = 0 => To(w, g, l) = From(w, g, l)
         /\ \A m \in 1 .. Count(w, g) : LevelSpot(w, g, m, l)
<1> DEFINE levels == LevelsFor(w.prog, w.main, g)
           M == Count(w, g)
           r == w.spots[g][l]
<1>1. /\ Sections(w.prog, levels, M, l, w.streams[l], From(w, g, l), To(w, g, l), r.sec)
      /\ g \in AllLists(w.prog) /\ Listing(w.prog, w.main)
  BY DEF IsChart, StreamsOf, InStreams, InLane, KnownLists, Count, From, To
<1>2. M \in Nat  BY <1>1, LevelFacts DEF Count
<1>3. ASSUME NEW m \in 1 .. M PROVE LevelSpot(w, g, m, l)
  <2>1. Pos(w, g, m, l) = r.sec[m] /\ Beyond(w, g, m, l) = r.sec[m] + Size(w.prog, levels, l, m)
    BY DEF Pos, Beyond
  <2>2. PICK a \in Nat, b \in Nat, c \in Nat, z \in Nat :
          /\ a = From(w, g, l) /\ b = To(w, g, l) /\ c = r.sec[m] /\ z = Size(w.prog, levels, l, m)
          /\ a <= c /\ c + z <= b
    BY <1>1 DEF Sections
  <2>3. m = 1 => c = a  BY <1>1, <2>2 DEF Sections
  <2>4. m = M => c + z = b  BY <1>1, <2>2 DEF Sections
  <2>5. m # M => w.streams[l][c + z] = Barrier /\ Pos(w, g, m + 1, l) = c + z + 1
    BY <1>1, <2>2 DEF Sections, Pos
  <2>6. m # M => c + z < b
    <3> SUFFICES ASSUME m # M PROVE c + z < b  OBVIOUS
    <3>1. m + 1 \in 1 .. M  BY <1>2
    <3>2. PICK d \in Nat, y \in Nat : d = r.sec[m + 1] /\ y = Size(w.prog, levels, l, m + 1) /\ d + y <= b
      BY <1>1, <2>2, <3>1 DEF Sections
    <3>3. d = c + z + 1  BY <2>5, <3>2 DEF Pos
    <3> QED BY <2>2, <3>2, <3>3
  <2>7. c + z \in Nat /\ c <= c + z  BY <2>2
  <2> QED BY <2>1, <2>2, <2>3, <2>4, <2>5, <2>6, <2>7 DEF LevelSpot
<1>4. /\ From(w, g, l) \in Nat \ {0} /\ To(w, g, l) \in Nat /\ From(w, g, l) <= To(w, g, l)
      /\ M = 0 => To(w, g, l) = From(w, g, l)
  BY <1>1 DEF Sections
<1> QED BY <1>2, <1>3, <1>4

\* The stretch of list g in lane l's stream.
Stretch(w, g, l) == SubList(From(w, g, l), To(w, g, l) - From(w, g, l))

\* Level m is tiles, ...
TileLevel(w, g, m, l) ==
  \A x \in Nat : Pos(w, g, m, l) <= x /\ x < Beyond(w, g, m, l) => w.streams[l][x].kind = "tile"

\* ... or a region's entry, which names its sub-lists.
RegionLevel(w, g, m, l) ==
  LET i == Target(w, g, m)
      e == w.streams[l][Pos(w, g, m, l)]
  IN /\ i \in Regions(w.prog) /\ i \in Listed(w.prog, w.main, g)
     /\ Beyond(w, g, m, l) = Pos(w, g, m, l) + 1
     /\ <<i, "x">> \in w.lists /\ <<i, "y">> \in w.lists
     /\ e.kind = w.prog[i].op /\ e.flag = w.prog[i].dst /\ e.trips = w.prog[i].trips
     /\ e.x = Stretch(w, <<i, "x">>, l) /\ e.y = Stretch(w, <<i, "y">>, l)

LEMMA LevelEntries ==
  ASSUME NEW w, IsChart(w), NEW g \in w.lists, NEW l \in LaneIds, NEW m \in 1 .. Count(w, g)
  PROVE  IF Steering(w, g, m) THEN RegionLevel(w, g, m, l) ELSE TileLevel(w, g, m, l)
<1> DEFINE levels == LevelsFor(w.prog, w.main, g)
           r == w.spots[g][l]
           p == w.prog
           s == w.streams[l]
<1>1. /\ Sections(p, levels, Len(levels), l, s, From(w, g, l), To(w, g, l), r.sec)
      /\ g \in AllLists(p) /\ Listing(p, w.main) /\ m \in 1 .. Len(levels)
  BY DEF IsChart, StreamsOf, InStreams, InLane, KnownLists, Count, From, To
<1>2. PICK c \in Nat, z \in Nat : c = r.sec[m] /\ z = Size(p, levels, l, m)
  BY <1>1 DEF Sections
<1>3. \A q \in 1 .. z : Alike(s[c + q - 1], Body(p, levels[m], l)[q])
  BY <1>1, <1>2 DEF Sections
<1>4. Pos(w, g, m, l) = c /\ Beyond(w, g, m, l) = c + z  BY <1>2 DEF Pos, Beyond
<1>5. CASE ~Steering(w, g, m)
  <2>1. Body(p, levels[m], l) \in Seq(TileEntries(1 .. Len(p)))
    <3>1. ~levels[m].region  BY <1>5 DEF Steering
    <3> QED BY <1>1, <3>1, LevelFacts
  <2>2. ASSUME NEW x \in Nat, c <= x, x < c + z PROVE s[x].kind = "tile"
    <3>1. PICK q \in 1 .. z : x = c + q - 1
      <4>1. x - c + 1 \in 1 .. z /\ x = c + (x - c + 1) - 1  BY <1>2, <2>2
      <4> QED BY <4>1
    <3>2. Body(p, levels[m], l)[q] \in TileEntries(1 .. Len(p))
      <4>1. PICK b \in Seq(TileEntries(1 .. Len(p))) : b = Body(p, levels[m], l)  BY <2>1
      <4>2. q \in 1 .. Len(b)  BY <1>2, <4>1 DEF Size
      <4> QED BY <4>1, <4>2, ElementOfSeq
    <3>3. \A e \in TileEntries(1 .. Len(p)) : e.kind = "tile" /\ ~Steers(e)
      BY DEF TileEntries, TileEntry, Steers
    <3>4. Alike(s[x], Body(p, levels[m], l)[q])  BY <1>3, <3>1
    <3> QED BY <3>2, <3>3, <3>4, AlikeFacts
  <2> QED BY <1>4, <1>5, <2>2 DEF TileLevel
<1>6. CASE Steering(w, g, m)
  <2> DEFINE i == Target(w, g, m)
             e == s[c]
  <2>1. RegionAt(p, w.main, g, m, i)  BY <1>1, <1>6 DEF RegionAt, Steering, Target
  <2>2. /\ i \in Regions(p) /\ i \in Listed(p, w.main, g)
        /\ Steers(ControlEntry(p[i])) /\ Body(p, levels[m], l) = <<ControlEntry(p[i])>>
    BY <1>1, <2>1, LevelFacts
  <2>3. z = 1  BY <1>2, <2>2 DEF Size
  <2>4. Alike(e, ControlEntry(p[i]))
    <3>1. 1 \in 1 .. z /\ c + 1 - 1 = c  BY <2>3
    <3>2. Alike(s[c + 1 - 1], Body(p, levels[m], l)[1])  BY <1>3, <3>1
    <3>3. <<ControlEntry(p[i])>>[1] = ControlEntry(p[i])  OBVIOUS
    <3> QED BY <2>2, <3>1, <3>2, <3>3
  <2>5. e.kind = p[i].op /\ e.flag = p[i].dst /\ e.trips = p[i].trips
    BY <2>2, <2>4 DEF Alike, ControlEntry
  <2>6. Settled(w.streams, w.lists, w.spots, g, m, i)  BY <2>1 DEF IsChart, StreamsOf
  <2>7. /\ <<i, "x">> \in w.lists /\ <<i, "y">> \in w.lists
        /\ e.x = Stretch(w, <<i, "x">>, l) /\ e.y = Stretch(w, <<i, "y">>, l)
    BY <1>2, <2>6 DEF Settled, EntryAt, Span, Stretch, From, To
  <2>8. Beyond(w, g, m, l) = Pos(w, g, m, l) + 1 /\ Pos(w, g, m, l) = c  BY <1>4, <2>3
  <2> QED BY <1>6, <2>2, <2>5, <2>7, <2>8 DEF RegionLevel
<1> QED BY <1>5, <1>6

------------------------------------------------------------------------------
(* Stacks *)

\* The last element of s, what is before it, and s with another last element.
LEMMA StackTop ==
  ASSUME NEW T, NEW s \in Seq(T), s # <<>>
  PROVE  /\ Len(s) \in Nat \ {0} /\ Last(s) = s[Len(s)] /\ Last(s) \in T
         /\ Front(s) \in Seq(T) /\ Len(Front(s)) = Len(s) - 1
         /\ \A k \in 1 .. Len(s) - 1 : Front(s)[k] = s[k]
<1>1. Len(s) \in Nat \ {0}  BY EmptySeq, LenProperties
<1>2. Last(s) = s[Len(s)] /\ Last(s) \in T
  <2>1. Len(s) \in 1 .. Len(s)  BY <1>1
  <2> QED BY <2>1, ElementOfSeq DEF Last
<1>3. PICK n \in Nat : Len(s) = n + 1
  <2>1. Len(s) - 1 \in Nat /\ Len(s) = (Len(s) - 1) + 1  BY <1>1
  <2> QED BY <2>1
<1>4. Front(s) = SubSeq(s, 1, n)  BY <1>3 DEF Front
<1>5. 1 \in 1 .. Len(s) + 1 /\ n \in 1 - 1 .. Len(s) /\ n = n - 1 + 1  BY <1>3
<1>6. /\ SubSeq(s, 1, n) \in Seq(T) /\ Len(SubSeq(s, 1, n)) = n
      /\ \A k \in 1 .. n : SubSeq(s, 1, n)[k] = s[k]
  <2>1. \A k \in 1 .. n : s[k] \in T
    <3>1. \A k \in 1 .. n : k \in 1 .. Len(s)  BY <1>3
    <3> QED BY <3>1, ElementOfSeq
  <2>2. SubSeq(s, 1, n) = [k \in 1 .. n |-> s[k]]
    <3>1. SubSeq(s, 1, n) = [k \in 1 .. (n - 1 + 1) |-> s[1 + k - 1]]  BY <1>5 DEF SubSeq
    <3>2. n - 1 + 1 = n /\ \A k \in 1 .. n : 1 + k - 1 = k  OBVIOUS
    <3> QED BY <3>1, <3>2
  <2>3. [k \in 1 .. n |-> s[k]] \in Seq(T)  BY <2>1
  <2>4. Len([k \in 1 .. n |-> s[k]]) = n  OBVIOUS
  <2> QED BY <2>2, <2>3, <2>4
<1>7. Len(s) - 1 = n  BY <1>3
<1> QED BY <1>1, <1>2, <1>4, <1>6, <1>7

LEMMA StackGrown ==
  ASSUME NEW T, NEW s \in Seq(T), NEW f \in T
  PROVE  /\ Append(s, f) \in Seq(T) /\ Append(s, f) # <<>> /\ Last(Append(s, f)) = f
         /\ Len(Append(s, f)) = Len(s) + 1 /\ Append(s, f)[Len(s) + 1] = f
         /\ \A k \in 1 .. Len(s) : Append(s, f)[k] = s[k]
<1>1. PICK n \in Nat : n = Len(s)  BY LenProperties
<1>2. /\ Append(s, f) \in Seq(T) /\ Len(Append(s, f)) = n + 1
      /\ \A k \in 1 .. n : Append(s, f)[k] = s[k]
      /\ Append(s, f)[n + 1] = f
  BY <1>1, AppendProperties
<1>3. Append(s, f) # <<>>
  <2>1. Len(<<>>) = 0 /\ n + 1 # 0  BY EmptySeq
  <2> QED BY <1>2, <2>1
<1>4. Last(Append(s, f)) = f  BY <1>2 DEF Last
<1> QED BY <1>1, <1>2, <1>3, <1>4

LEMMA StackRetopped ==
  ASSUME NEW T, NEW s \in Seq(T), s # <<>>, NEW f \in T
  PROVE  /\ WithTop(s, f) \in Seq(T) /\ WithTop(s, f) # <<>> /\ Last(WithTop(s, f)) = f
         /\ Len(WithTop(s, f)) = Len(s) /\ WithTop(s, f)[Len(s)] = f
         /\ \A k \in 1 .. Len(s) : k # Len(s) => WithTop(s, f)[k] = s[k]
<1>1. /\ Len(s) \in Nat \ {0} /\ Front(s) \in Seq(T) /\ Len(Front(s)) = Len(s) - 1
      /\ \A k \in 1 .. Len(s) - 1 : Front(s)[k] = s[k]
  BY StackTop
<1>2. PICK t \in Seq(T) : t = Front(s)  BY <1>1
<1>3. PICK n \in Nat : Len(s) = n + 1 /\ Len(t) = n
  <2>1. Len(s) - 1 \in Nat /\ Len(s) = (Len(s) - 1) + 1  BY <1>1
  <2> QED BY <1>1, <1>2, <2>1
<1>4. /\ Append(t, f) \in Seq(T) /\ Append(t, f) # <<>> /\ Last(Append(t, f)) = f
      /\ Len(Append(t, f)) = n + 1 /\ Append(t, f)[n + 1] = f
      /\ \A k \in 1 .. n : Append(t, f)[k] = t[k]
  BY <1>3, StackGrown
<1>5. \A k \in 1 .. n : t[k] = s[k]
  <2>1. Len(s) - 1 = n  BY <1>3
  <2> QED BY <1>1, <1>2, <2>1
<1>6. \A k \in 1 .. n + 1 : k # n + 1 => k \in 1 .. n  OBVIOUS
<1> QED BY <1>2, <1>3, <1>4, <1>5, <1>6 DEF WithTop
------------------------------------------------------------------------------
(* Trails: where a walk is in the program, the same for every lane *)

\* A place is a level of a list, in a frame of some phase.
Places(w) == [g : w.lists, m : Nat, ph : Int]

\* The sub-lists of the region at q.
Inside(w, q) == {<<Target(w, q.g, q.m), "x">>, <<Target(w, q.g, q.m), "y">>}

Nests(w, q, g) == q.m \in 1 .. Count(w, q.g) /\ Steering(w, q.g, q.m) /\ g \in Inside(w, q)

\* Lists within one another, from the root on.
Chain(w, a) ==
  /\ a \in Seq(Places(w)) /\ a # <<>> /\ a[1].g = RootList
  /\ \A k \in 1 .. Len(a) : k # Len(a) => Nests(w, a[k], a[k + 1].g)

\* The lists a walk is in, and whether it is past the level of the innermost one.
IsTrail(w, A) ==
  /\ Chain(w, A.at)
  /\ Last(A.at).m \in 0 .. Count(w, Last(A.at).g)
  /\ Last(A.at).m = 0 => A.past /\ Count(w, Last(A.at).g) = 0

Trails(w) == {A \in [at : Seq(Places(w)), past : BOOLEAN] : IsTrail(w, A)}

Depth(A)  == Len(A.at)
Inner(A)  == Last(A.at)
Around(A) == Last(Front(A.at))

\* A list is begun at its first level.
Begun(w, g, ph) == [g |-> g, m |-> IF Count(w, g) = 0 THEN 0 ELSE 1, ph |-> ph]

Onto(w, at, g, ph) == [at |-> Append(at, Begun(w, g, ph)), past |-> Count(w, g) = 0]
Again(w, A, g, ph) == Onto(w, Front(A.at), g, ph)
Passed(A)          == [at |-> A.at, past |-> TRUE]
Left(A)            == [at |-> Front(A.at), past |-> TRUE]
Onward(A) ==
  [at   |-> WithTop(A.at, [g |-> Inner(A).g, m |-> Inner(A).m + 1, ph |-> Inner(A).ph]),
   past |-> FALSE]

\* The region instructions at the place and around the list.
RegionOf(w, q) == w.prog[Target(w, q.g, q.m)]

AtTiles(w, A)  == ~A.past /\ ~Steering(w, Inner(A).g, Inner(A).m)
AtRegion(w, A) == ~A.past /\ Steering(w, Inner(A).g, Inner(A).m)
AtClose(w, A)  == A.past /\ Inner(A).m = Count(w, Inner(A).g)

LEMMA TrailFacts ==
  ASSUME NEW w, IsChart(w), NEW A \in Trails(w)
  PROVE  /\ A = [at |-> A.at, past |-> A.past] /\ A.past \in BOOLEAN
         /\ A.at \in Seq(Places(w)) /\ A.at # <<>> /\ Depth(A) \in Nat \ {0}
         /\ Inner(A) = A.at[Depth(A)] /\ Inner(A) \in Places(w)
         /\ ~A.past => Inner(A).m \in 1 .. Count(w, Inner(A).g)
         /\ Depth(A) = 1 => Inner(A).g = RootList
         /\ Depth(A) # 1 => /\ Depth(A) - 1 \in 1 .. Depth(A) /\ Around(A) = A.at[Depth(A) - 1]
                            /\ Around(A) \in Places(w) /\ Nests(w, Around(A), Inner(A).g)
                            /\ Front(A.at) \in Seq(Places(w)) /\ Front(A.at) # <<>>
                            /\ Len(Front(A.at)) = Depth(A) - 1
<1>1. A \in [at : Seq(Places(w)), past : BOOLEAN] /\ IsTrail(w, A)  BY DEF Trails
<1>2. A = [at |-> A.at, past |-> A.past] /\ A.past \in BOOLEAN /\ A.at \in Seq(Places(w))
  BY <1>1
<1>3. A.at # <<>>  BY <1>1 DEF IsTrail, Chain
<1>4. PICK a \in Seq(Places(w)) : a = A.at /\ a # <<>>  BY <1>2, <1>3
<1>5. /\ Len(a) \in Nat \ {0} /\ Last(a) = a[Len(a)] /\ Last(a) \in Places(w)
      /\ Front(a) \in Seq(Places(w)) /\ Len(Front(a)) = Len(a) - 1
      /\ \A k \in 1 .. Len(a) - 1 : Front(a)[k] = a[k]
  BY <1>4, StackTop
<1>6. PICK n \in Nat : Len(a) = n + 1
  <2>1. Len(a) - 1 \in Nat /\ Len(a) = (Len(a) - 1) + 1  BY <1>5
  <2> QED BY <2>1
<1>7. ASSUME ~A.past PROVE Inner(A).m \in 1 .. Count(w, Inner(A).g)
  <2>1. Inner(A).m \in 0 .. Count(w, Inner(A).g) /\ Inner(A).m # 0
    BY <1>1, <1>7 DEF IsTrail, Inner
  <2>2. Count(w, Inner(A).g) \in Nat
    <3>1. Inner(A).g \in w.lists  BY <1>4, <1>5 DEF Inner, Places
    <3>2. 1 \in LaneIds  BY NLanesPositive DEF LaneIds
    <3> QED BY <3>1, <3>2, ListSpots
  <2> QED BY <2>1, <2>2
<1>8. ASSUME Depth(A) = 1 PROVE Inner(A).g = RootList
  BY <1>1, <1>4, <1>5, <1>8 DEF IsTrail, Chain, Inner, Depth
<1>9. ASSUME Depth(A) # 1
      PROVE  /\ Depth(A) - 1 \in 1 .. Depth(A) /\ Around(A) = A.at[Depth(A) - 1]
             /\ Around(A) \in Places(w) /\ Nests(w, Around(A), Inner(A).g)
             /\ Front(A.at) \in Seq(Places(w)) /\ Front(A.at) # <<>>
             /\ Len(Front(A.at)) = Depth(A) - 1
  <2>1. n \in 1 .. n /\ n \in 1 .. n + 1 /\ n # n + 1 /\ n + 1 - 1 = n  BY <1>4, <1>6, <1>9 DEF Depth
  <2>2. PICK b \in Seq(Places(w)) : b = Front(a) /\ Len(b) = n  BY <1>5, <1>6, <2>1
  <2>3. b # <<>>
    <3>1. Len(<<>>) = 0  BY EmptySeq
    <3> QED BY <2>1, <2>2, <3>1
  <2>4. Last(b) = b[n] /\ Last(b) \in Places(w)  BY <2>2, <2>3, StackTop
  <2>5. b[n] = a[n]
    <3>1. Len(a) - 1 = n  BY <1>6
    <3> QED BY <1>5, <2>1, <2>2, <3>1
  <2>6. Nests(w, a[n], a[n + 1].g)  BY <1>1, <1>4, <1>6, <2>1 DEF IsTrail, Chain
  <2>7. Inner(A) = a[n + 1]  BY <1>4, <1>5, <1>6 DEF Inner
  <2> QED BY <1>4, <1>6, <2>1, <2>2, <2>3, <2>4, <2>5, <2>6, <2>7 DEF Depth, Around
<1>10. Depth(A) \in Nat \ {0} /\ Inner(A) = A.at[Depth(A)] /\ Inner(A) \in Places(w)
  BY <1>4, <1>5 DEF Depth, Inner
<1> QED BY <1>2, <1>3, <1>7, <1>8, <1>9, <1>10

LEMMA ChainGrown ==
  ASSUME NEW w, NEW a, Chain(w, a), NEW r \in Places(w), Nests(w, Last(a), r.g)
  PROVE  /\ Chain(w, Append(a, r)) /\ Front(Append(a, r)) = a /\ Last(Append(a, r)) = r
         /\ Len(Append(a, r)) = Len(a) + 1
<1> DEFINE T == Places(w)
           b == Append(a, r)
<1>1. a \in Seq(T) /\ a # <<>> /\ a[1].g = RootList
      /\ \A k \in 1 .. Len(a) : k # Len(a) => Nests(w, a[k], a[k + 1].g)
  BY DEF Chain
<1>2. PICK n \in Nat : n = Len(a) /\ n # 0 /\ Last(a) = a[n]
  <2>1. Len(a) \in Nat \ {0} /\ Last(a) = a[Len(a)]  BY <1>1, StackTop
  <2> QED BY <2>1
<1>3. /\ b \in Seq(T) /\ b # <<>> /\ Last(b) = r /\ Len(b) = n + 1 /\ b[n + 1] = r
      /\ \A k \in 1 .. n : b[k] = a[k]
  BY <1>1, <1>2, StackGrown
<1> HIDE DEF b, T
<1>4. Chain(w, b)
  <2>1. b[1].g = RootList
    <3>1. 1 \in 1 .. n  BY <1>2
    <3> QED BY <1>1, <1>3, <3>1
  <2>2. ASSUME NEW k \in 1 .. n + 1, k # n + 1 PROVE Nests(w, b[k], b[k + 1].g)
    <3>1. k \in 1 .. n  BY <2>2
    <3>2. CASE k = n  BY <1>2, <1>3, <3>1, <3>2
    <3>3. CASE k # n
      <4>1. k + 1 \in 1 .. n  BY <3>1, <3>3
      <4> QED BY <1>1, <1>2, <1>3, <3>1, <3>3, <4>1
    <3> QED BY <3>2, <3>3
  <2> QED BY <1>3, <2>1, <2>2 DEF Chain, T
<1>5. Front(b) = a
  <2>1. /\ Front(b) \in Seq(T) /\ Len(Front(b)) = Len(b) - 1
        /\ \A k \in 1 .. Len(b) - 1 : Front(b)[k] = b[k]
    BY <1>3, StackTop
  <2>2. Len(b) - 1 = n  BY <1>3
  <2>3. PICK f \in Seq(T) : f = Front(b) /\ Len(f) = Len(a) /\ \A k \in 1 .. Len(f) : f[k] = a[k]
    BY <1>2, <1>3, <2>1, <2>2
  <2>4. a \in Seq(T)  BY <1>1 DEF T
  <2>5. f = a  BY <2>3, <2>4, SeqEqual
  <2> QED BY <2>3, <2>5
<1> QED BY <1>2, <1>3, <1>4, <1>5 DEF b

LEMMA ChainCut ==
  ASSUME NEW w, NEW a, Chain(w, a), Len(a) # 1
  PROVE  /\ Chain(w, Front(a)) /\ Len(Front(a)) = Len(a) - 1
         /\ Nests(w, Last(Front(a)), Last(a).g)
<1> DEFINE T == Places(w)
           b == Front(a)
<1>1. a \in Seq(T) /\ a # <<>> /\ a[1].g = RootList
      /\ \A k \in 1 .. Len(a) : k # Len(a) => Nests(w, a[k], a[k + 1].g)
  BY DEF Chain
<1>2. /\ Len(a) \in Nat \ {0} /\ Last(a) = a[Len(a)]
      /\ b \in Seq(T) /\ Len(b) = Len(a) - 1 /\ \A k \in 1 .. Len(a) - 1 : b[k] = a[k]
  BY <1>1, StackTop
<1>3. PICK n \in Nat : Len(a) = n + 1 /\ n # 0
  <2>1. Len(a) - 1 \in Nat /\ Len(a) = (Len(a) - 1) + 1 /\ Len(a) - 1 # 0  BY <1>2
  <2> QED BY <2>1
<1>4. Len(b) = n /\ \A k \in 1 .. n : b[k] = a[k]
  <2>1. Len(a) - 1 = n  BY <1>3
  <2> QED BY <1>2, <2>1
<1> HIDE DEF b, T
<1>5. b # <<>>
  <2>1. Len(<<>>) = 0  BY EmptySeq
  <2> QED BY <1>3, <1>4, <2>1
<1>6. Last(b) = b[n]  BY <1>4 DEF Last
<1>7. b[1].g = RootList
  <2>1. 1 \in 1 .. n  BY <1>3
  <2> QED BY <1>1, <1>4, <2>1
<1>8. ASSUME NEW k \in 1 .. n, k # n PROVE Nests(w, b[k], b[k + 1].g)
  <2>1. k + 1 \in 1 .. n /\ k \in 1 .. n + 1 /\ k # n + 1  BY <1>8
  <2> QED BY <1>1, <1>3, <1>4, <2>1
<1>9. Chain(w, b)  BY <1>2, <1>4, <1>5, <1>7, <1>8 DEF Chain, T
<1>10. Nests(w, Last(b), Last(a).g)
  <2>1. n \in 1 .. n + 1 /\ n # n + 1 /\ n \in 1 .. n  BY <1>3
  <2>2. Nests(w, a[n], a[n + 1].g)  BY <1>1, <1>3, <2>1
  <2> QED BY <1>2, <1>3, <1>4, <1>6, <2>1, <2>2
<1> QED BY <1>2, <1>9, <1>10 DEF b

LEMMA ChainRetopped ==
  ASSUME NEW w, NEW a, Chain(w, a), NEW r \in Places(w), r.g = Last(a).g
  PROVE  Chain(w, WithTop(a, r)) /\ Last(WithTop(a, r)) = r /\ Len(WithTop(a, r)) = Len(a)
<1> DEFINE T == Places(w)
           b == WithTop(a, r)
<1>1. a \in Seq(T) /\ a # <<>> /\ a[1].g = RootList
      /\ \A k \in 1 .. Len(a) : k # Len(a) => Nests(w, a[k], a[k + 1].g)
  BY DEF Chain
<1>2. PICK n \in Nat : n = Len(a) /\ n # 0 /\ Last(a) = a[n]
  <2>1. Len(a) \in Nat \ {0} /\ Last(a) = a[Len(a)]  BY <1>1, StackTop
  <2> QED BY <2>1
<1>3. /\ b \in Seq(T) /\ b # <<>> /\ Last(b) = r /\ Len(b) = n /\ b[n] = r
      /\ \A k \in 1 .. n : k # n => b[k] = a[k]
  <2>1. /\ WithTop(a, r) \in Seq(T) /\ WithTop(a, r) # <<>> /\ Last(WithTop(a, r)) = r
        /\ Len(WithTop(a, r)) = Len(a) /\ WithTop(a, r)[Len(a)] = r
        /\ \A k \in 1 .. Len(a) : k # Len(a) => WithTop(a, r)[k] = a[k]
    BY <1>1, StackRetopped
  <2> QED BY <1>2, <2>1
<1> HIDE DEF b, T
<1>4. \A k \in 1 .. n : b[k].g = a[k].g  BY <1>2, <1>3
<1>5. b[1].g = RootList
  <2>1. 1 \in 1 .. n  BY <1>2
  <2> QED BY <1>1, <1>4, <2>1
<1>6. ASSUME NEW k \in 1 .. n, k # n PROVE Nests(w, b[k], b[k + 1].g)
  <2>1. k + 1 \in 1 .. n  BY <1>6
  <2>2. Nests(w, a[k], a[k + 1].g)  BY <1>1, <1>2, <1>6
  <2> QED BY <1>3, <1>4, <1>6, <2>1, <2>2
<1>7. Chain(w, b)  BY <1>3, <1>5, <1>6 DEF Chain, T
<1> QED BY <1>2, <1>3, <1>7 DEF b

LEMMA InsideLists ==
  ASSUME NEW w, IsChart(w), NEW q \in Places(w), q.m \in 1 .. Count(w, q.g), Steering(w, q.g, q.m)
  PROVE  /\ Inside(w, q) \subseteq w.lists /\ Target(w, q.g, q.m) \in Regions(w.prog)
         /\ \A h \in Inside(w, q) : h[1] = Target(w, q.g, q.m) /\ h \in SubLists(w.prog)
         /\ Target(w, q.g, q.m) \in Listed(w.prog, w.main, q.g)
<1> DEFINE i == Target(w, q.g, q.m)
<1>1. 1 \in LaneIds /\ q.g \in w.lists  BY NLanesPositive DEF LaneIds, Places
<1>2. RegionLevel(w, q.g, q.m, 1)  BY <1>1, LevelEntries
<1>3. <<i, "x">> \in w.lists /\ <<i, "y">> \in w.lists /\ i \in Regions(w.prog) /\ i \in Listed(w.prog, w.main, q.g)
  BY <1>2 DEF RegionLevel
<1>4. <<i, "x">> \in SubLists(w.prog) /\ <<i, "y">> \in SubLists(w.prog)  BY <1>3 DEF SubLists
<1> QED BY <1>3, <1>4 DEF Inside

\* Where a list is begun.
LEMMA BegunPlace ==
  ASSUME NEW w, IsChart(w), NEW g \in w.lists, NEW ph \in Int
  PROVE  /\ Begun(w, g, ph) \in Places(w) /\ Begun(w, g, ph).g = g /\ Begun(w, g, ph).ph = ph
         /\ Begun(w, g, ph).m = IF Count(w, g) = 0 THEN 0 ELSE 1
         /\ Begun(w, g, ph).m \in 0 .. Count(w, g)
<1>1. Count(w, g) \in Nat
  <2>1. 1 \in LaneIds  BY NLanesPositive DEF LaneIds
  <2> QED BY <2>1, ListSpots
<1> QED BY <1>1 DEF Begun, Places

LEMMA OntoTrail ==
  ASSUME NEW w, IsChart(w), NEW a, Chain(w, a), NEW g \in w.lists, Nests(w, Last(a), g), NEW ph \in Int
  PROVE  /\ Onto(w, a, g, ph) \in Trails(w)
         /\ Depth(Onto(w, a, g, ph)) = Len(a) + 1 /\ Inner(Onto(w, a, g, ph)) = Begun(w, g, ph)
         /\ Around(Onto(w, a, g, ph)) = Last(a) /\ Onto(w, a, g, ph).past = (Count(w, g) = 0)
         /\ Front(Onto(w, a, g, ph).at) = a
<1> DEFINE r == Begun(w, g, ph)
           A == Onto(w, a, g, ph)
<1>1. r \in Places(w) /\ r.g = g /\ r.m \in 0 .. Count(w, g) /\ (r.m = 0 => Count(w, g) = 0)
  BY BegunPlace
<1> HIDE DEF r
<1>2. PICK b : b = Append(a, r)  OBVIOUS
<1>3. Chain(w, b) /\ Front(b) = a /\ Last(b) = r /\ Len(b) = Len(a) + 1
  BY <1>1, <1>2, ChainGrown
<1>4. A.at = b /\ A.past = (Count(w, g) = 0) /\ A \in [at : Seq(Places(w)), past : BOOLEAN]
  BY <1>2, <1>3 DEF Onto, r, Chain
<1> HIDE DEF A
<1>5. IsTrail(w, A)  BY <1>1, <1>3, <1>4 DEF IsTrail
<1>6. A \in Trails(w)  BY <1>4, <1>5 DEF Trails
<1> QED BY <1>3, <1>4, <1>6 DEF A, r, Depth, Inner, Around

LEMMA PassedTrail ==
  ASSUME NEW w, NEW A \in Trails(w)
  PROVE  /\ Passed(A) \in Trails(w) /\ Depth(Passed(A)) = Depth(A) /\ Inner(Passed(A)) = Inner(A)
         /\ Around(Passed(A)) = Around(A) /\ Passed(A).past = TRUE
<1>1. A \in [at : Seq(Places(w)), past : BOOLEAN] /\ IsTrail(w, A)  BY DEF Trails
<1>2. Passed(A).at = A.at /\ Passed(A).past = TRUE /\ Passed(A) \in [at : Seq(Places(w)), past : BOOLEAN]
  BY <1>1 DEF Passed
<1>3. IsTrail(w, Passed(A))  BY <1>1, <1>2 DEF IsTrail
<1> QED BY <1>2, <1>3 DEF Trails, Depth, Inner, Around

\* Into a sub-list of the region at the innermost place.
LEMMA EnterTrail ==
  ASSUME NEW w, IsChart(w), NEW A \in Trails(w), AtRegion(w, A), NEW g \in Inside(w, Inner(A)), NEW ph \in Int
  PROVE  /\ g \in w.lists /\ Onto(w, A.at, g, ph) \in Trails(w)
         /\ Depth(Onto(w, A.at, g, ph)) = Depth(A) + 1 /\ Inner(Onto(w, A.at, g, ph)) = Begun(w, g, ph)
         /\ Around(Onto(w, A.at, g, ph)) = Inner(A) /\ Onto(w, A.at, g, ph).past = (Count(w, g) = 0)
         /\ Front(Onto(w, A.at, g, ph).at) = A.at
<1>1. Inner(A) \in Places(w) /\ Inner(A).m \in 1 .. Count(w, Inner(A).g) /\ Steering(w, Inner(A).g, Inner(A).m)
  BY TrailFacts DEF AtRegion
<1>2. g \in w.lists  BY <1>1, InsideLists
<1>3. Chain(w, A.at)  BY DEF Trails, IsTrail
<1>4. Nests(w, Last(A.at), g)  BY <1>1 DEF Nests, Inner
<1> QED BY <1>2, <1>3, <1>4, OntoTrail DEF Depth, Inner

\* Back to the region around.
LEMMA LeftTrail ==
  ASSUME NEW w, IsChart(w), NEW A \in Trails(w), Depth(A) # 1
  PROVE  /\ Left(A) \in Trails(w) /\ Depth(Left(A)) = Depth(A) - 1 /\ Inner(Left(A)) = Around(A)
         /\ Left(A).past = TRUE
<1>1. Chain(w, A.at) /\ A.at \in Seq(Places(w))  BY DEF Trails, IsTrail, Chain
<1>2. Chain(w, Front(A.at)) /\ Len(Front(A.at)) = Len(A.at) - 1  BY <1>1, ChainCut DEF Depth
<1>3. Nests(w, Around(A), Inner(A).g) /\ Around(A) \in Places(w)  BY TrailFacts
<1>4. Left(A).at = Front(A.at) /\ Left(A).past = TRUE  BY DEF Left
<1>5. Left(A) \in [at : Seq(Places(w)), past : BOOLEAN]  BY <1>2 DEF Left, Chain
<1>6. Around(A).m \in 0 .. Count(w, Around(A).g) /\ Around(A).m # 0  BY <1>3 DEF Nests
<1>7. IsTrail(w, Left(A))  BY <1>2, <1>4, <1>6 DEF IsTrail, Around
<1> QED BY <1>2, <1>4, <1>5, <1>7 DEF Trails, Depth, Inner, Around

\* Into a sub-list of the region around, from the beginning.
LEMMA AgainTrail ==
  ASSUME NEW w, IsChart(w), NEW A \in Trails(w), Depth(A) # 1, NEW g \in Inside(w, Around(A)), NEW ph \in Int
  PROVE  /\ g \in w.lists /\ Again(w, A, g, ph) \in Trails(w)
         /\ Depth(Again(w, A, g, ph)) = Depth(A) /\ Inner(Again(w, A, g, ph)) = Begun(w, g, ph)
         /\ Around(Again(w, A, g, ph)) = Around(A) /\ Again(w, A, g, ph).past = (Count(w, g) = 0)
         /\ Front(Again(w, A, g, ph).at) = Front(A.at)
<1>1. Chain(w, A.at)  BY DEF Trails, IsTrail
<1>2. Chain(w, Front(A.at)) /\ Len(Front(A.at)) = Len(A.at) - 1  BY <1>1, ChainCut DEF Depth
<1>3. Nests(w, Around(A), Inner(A).g) /\ Around(A) \in Places(w)  BY TrailFacts
<1>4. g \in w.lists  BY <1>3, InsideLists DEF Nests
<1>5. Nests(w, Last(Front(A.at)), g)  BY <1>3 DEF Nests, Around
<1>6. PICK n \in Nat : n = Len(A.at)  BY TrailFacts DEF Depth
<1>7. (n - 1) + 1 = n  BY <1>6
<1> QED BY <1>2, <1>4, <1>5, <1>6, <1>7, OntoTrail DEF Again, Depth, Around

\* On to the next level.
LEMMA OnwardTrail ==
  ASSUME NEW w, IsChart(w), NEW A \in Trails(w), A.past, Inner(A).m < Count(w, Inner(A).g)
  PROVE  /\ Onward(A) \in Trails(w) /\ Depth(Onward(A)) = Depth(A) /\ Onward(A).past = FALSE
         /\ Inner(Onward(A)).g = Inner(A).g /\ Inner(Onward(A)).m = Inner(A).m + 1
         /\ Inner(Onward(A)).ph = Inner(A).ph
<1> DEFINE q == Inner(A)
           r == [g |-> q.g, m |-> q.m + 1, ph |-> q.ph]
<1>1. Chain(w, A.at) /\ q \in Places(w) /\ q = Last(A.at)
  BY TrailFacts DEF Trails, IsTrail, Inner
<1>2. Count(w, q.g) \in Nat
  <2>1. 1 \in LaneIds /\ q.g \in w.lists  BY <1>1, NLanesPositive DEF LaneIds, Places
  <2> QED BY <2>1, ListSpots
<1>3. q.m \in Nat /\ q.g \in w.lists /\ q.ph \in Int  BY <1>1 DEF Places
<1>4. r \in Places(w) /\ r.g = q.g /\ r.m = q.m + 1 /\ r.ph = q.ph  BY <1>3 DEF Places
<1>5. q.m + 1 \in 0 .. Count(w, q.g) /\ q.m + 1 # 0  BY <1>2, <1>3
<1>6. Onward(A) = [at |-> WithTop(A.at, r), past |-> FALSE]  BY DEF Onward
<1> HIDE DEF q, r
<1>7. Chain(w, WithTop(A.at, r)) /\ Last(WithTop(A.at, r)) = r /\ Len(WithTop(A.at, r)) = Len(A.at)
  BY <1>1, <1>4, ChainRetopped
<1>8. PICK b : b = WithTop(A.at, r)  OBVIOUS
<1>9. Onward(A).at = b /\ Onward(A).past = FALSE /\ Onward(A) \in [at : Seq(Places(w)), past : BOOLEAN]
  BY <1>6, <1>7, <1>8 DEF Chain
<1>10. IsTrail(w, Onward(A))  BY <1>4, <1>5, <1>7, <1>8, <1>9 DEF IsTrail
<1> QED BY <1>4, <1>7, <1>8, <1>9, <1>10 DEF Trails, Depth, Inner, q

------------------------------------------------------------------------------
(* Frames of lane l along a trail *)

Frames == [pc : Nat, end : Nat, widx : Nat, phase : Int]

\* Where lane l has the level of place q.
SpotOf(w, l, q) == Pos(w, q.g, q.m, l)

\* Frame f is that of place q, in a list whose region is at widx.
Framing(w, l, q, f, widx) == f.end = To(w, q.g, l) /\ f.phase = q.ph /\ f.widx = widx

OwnerSpot(w, l, a, k) == IF k = 1 THEN RootIdx ELSE SpotOf(w, l, a[k - 1])

\* Stack s has a frame for every place of a; all but the innermost are at their region.
Stacked(w, l, s, a) ==
  /\ s \in Seq(Frames) /\ Len(s) = Len(a)
  /\ \A k \in 1 .. Len(a) : /\ Framing(w, l, a[k], s[k], OwnerSpot(w, l, a, k))
                            /\ k # Len(a) => s[k].pc = SpotOf(w, l, a[k])

StackOf(w, a) == a \in Seq(Places(w)) /\ a # <<>>

LEMMA StackedTop ==
  ASSUME NEW w, NEW l, NEW s, NEW a, StackOf(w, a), Stacked(w, l, s, a)
  PROVE  /\ s # <<>> /\ Last(s) = s[Len(a)] /\ Last(s) \in Frames /\ Len(a) \in Nat \ {0}
         /\ Framing(w, l, Last(a), Last(s), OwnerSpot(w, l, a, Len(a)))
<1>1. a \in Seq(Places(w)) /\ a # <<>> /\ s \in Seq(Frames) /\ Len(s) = Len(a)  BY DEF StackOf, Stacked
<1>2. Len(a) \in Nat \ {0} /\ Last(a) = a[Len(a)]  BY <1>1, StackTop
<1>3. s # <<>>
  <2>1. Len(<<>>) = 0  BY EmptySeq
  <2> QED BY <1>1, <1>2, <2>1
<1>4. Last(s) = s[Len(s)] /\ Last(s) \in Frames  BY <1>1, <1>3, StackTop
<1>5. Len(a) \in 1 .. Len(a)  BY <1>2
<1>6. Framing(w, l, a[Len(a)], s[Len(a)], OwnerSpot(w, l, a, Len(a)))  BY <1>5 DEF Stacked
<1> QED BY <1>1, <1>2, <1>3, <1>4, <1>6

LEMMA StackedGrown ==
  ASSUME NEW w, NEW l, NEW s, NEW a, StackOf(w, a), Stacked(w, l, s, a),
         Last(s).pc = SpotOf(w, l, Last(a)),
         NEW r \in Places(w), NEW f \in Frames, Framing(w, l, r, f, SpotOf(w, l, Last(a)))
  PROVE  Stacked(w, l, Append(s, f), Append(a, r)) /\ Last(Append(s, f)) = f
<1> DEFINE t == Append(s, f)
           b == Append(a, r)
<1>1. a \in Seq(Places(w)) /\ a # <<>> /\ s \in Seq(Frames) /\ Len(s) = Len(a)  BY DEF StackOf, Stacked
<1>2. PICK n \in Nat : n = Len(a) /\ n = Len(s) /\ n # 0 /\ Last(a) = a[n] /\ Last(s) = s[n]
  <2>1. Len(a) \in Nat \ {0} /\ Last(a) = a[Len(a)]  BY <1>1, StackTop
  <2>2. Last(s) = s[Len(a)]  BY StackedTop
  <2> QED BY <1>1, <2>1, <2>2
<1>3. /\ t \in Seq(Frames) /\ Len(t) = n + 1 /\ t[n + 1] = f /\ Last(t) = f
      /\ \A k \in 1 .. n : t[k] = s[k]
  BY <1>1, <1>2, StackGrown
<1>4. Len(b) = n + 1 /\ b[n + 1] = r /\ \A k \in 1 .. n : b[k] = a[k]
  BY <1>1, <1>2, StackGrown
<1> HIDE DEF t, b
<1>5. ASSUME NEW k \in 1 .. n + 1
      PROVE  /\ Framing(w, l, b[k], t[k], OwnerSpot(w, l, b, k))
             /\ k # n + 1 => t[k].pc = SpotOf(w, l, b[k])
  <2>1. CASE k = n + 1
    <3>1. k # 1 /\ k - 1 = n /\ n \in 1 .. n  BY <1>2, <2>1
    <3>2. OwnerSpot(w, l, b, k) = SpotOf(w, l, a[n])  BY <1>4, <3>1 DEF OwnerSpot
    <3> QED BY <1>2, <1>3, <1>4, <2>1, <3>2
  <2>2. CASE k # n + 1
    <3>1. k \in 1 .. n  BY <2>2
    <3>2. OwnerSpot(w, l, b, k) = OwnerSpot(w, l, a, k)
      <4>1. k # 1 => k - 1 \in 1 .. n  BY <3>1
      <4> QED BY <1>4, <4>1 DEF OwnerSpot
    <3>3. Framing(w, l, a[k], s[k], OwnerSpot(w, l, a, k)) /\ (k # n => s[k].pc = SpotOf(w, l, a[k]))
      BY <1>2, <3>1 DEF Stacked
    <3>4. k = n => s[k].pc = SpotOf(w, l, a[k])  BY <1>2
    <3> QED BY <1>3, <1>4, <3>1, <3>2, <3>3, <3>4
  <2> QED BY <2>1, <2>2
<1>6. Stacked(w, l, t, b)  BY <1>3, <1>4, <1>5 DEF Stacked
<1> QED BY <1>3, <1>6 DEF t, b

LEMMA StackedRetopped ==
  ASSUME NEW w, NEW l, NEW s, NEW a, StackOf(w, a), Stacked(w, l, s, a),
         NEW r \in Places(w), NEW f \in Frames, Framing(w, l, r, f, Last(s).widx)
  PROVE  Stacked(w, l, WithTop(s, f), WithTop(a, r)) /\ Last(WithTop(s, f)) = f
<1> DEFINE t == WithTop(s, f)
           b == WithTop(a, r)
<1>1. a \in Seq(Places(w)) /\ a # <<>> /\ s \in Seq(Frames) /\ Len(s) = Len(a) /\ s # <<>>
  BY StackedTop DEF StackOf, Stacked
<1>2. PICK n \in Nat : n = Len(a) /\ n = Len(s) /\ n # 0 /\ Last(s) = s[n]
  BY <1>1, StackedTop
<1>3. /\ t \in Seq(Frames) /\ Len(t) = n /\ t[n] = f /\ Last(t) = f
      /\ \A k \in 1 .. n : k # n => t[k] = s[k]
  <2>1. /\ WithTop(s, f) \in Seq(Frames) /\ WithTop(s, f) # <<>> /\ Last(WithTop(s, f)) = f
        /\ Len(WithTop(s, f)) = Len(s) /\ WithTop(s, f)[Len(s)] = f
        /\ \A k \in 1 .. Len(s) : k # Len(s) => WithTop(s, f)[k] = s[k]
    <3>1. s \in Seq(Frames) /\ s # <<>>  BY <1>1
    <3> QED BY ONLY <3>1, f \in Frames, StackRetopped, Zenon
  <2> QED BY <1>2, <2>1
<1>4. Len(b) = n /\ b[n] = r /\ \A k \in 1 .. n : k # n => b[k] = a[k]
  <2>1. /\ WithTop(a, r) \in Seq(Places(w)) /\ WithTop(a, r) # <<>> /\ Last(WithTop(a, r)) = r
        /\ Len(WithTop(a, r)) = Len(a) /\ WithTop(a, r)[Len(a)] = r
        /\ \A k \in 1 .. Len(a) : k # Len(a) => WithTop(a, r)[k] = a[k]
    <3>1. a \in Seq(Places(w)) /\ a # <<>>  BY <1>1
    <3> QED BY ONLY <3>1, r \in Places(w), StackRetopped, Zenon
  <2> QED BY <1>2, <2>1
<1> HIDE DEF t, b
<1>5. ASSUME NEW k \in 1 .. n
      PROVE  /\ Framing(w, l, b[k], t[k], OwnerSpot(w, l, b, k))
             /\ k # n => t[k].pc = SpotOf(w, l, b[k])
  <2>1. Framing(w, l, a[k], s[k], OwnerSpot(w, l, a, k)) /\ (k # n => s[k].pc = SpotOf(w, l, a[k]))
    BY <1>2 DEF Stacked
  <2>2. OwnerSpot(w, l, b, k) = OwnerSpot(w, l, a, k)
    <3>1. k # 1 => k - 1 \in 1 .. n /\ k - 1 # n  OBVIOUS
    <3> QED BY <1>4, <3>1 DEF OwnerSpot
  <2>3. CASE k = n
    <3>1. s[n].widx = OwnerSpot(w, l, a, k)  BY <2>1, <2>3 DEF Framing
    <3> QED BY <1>2, <1>3, <1>4, <2>2, <2>3, <3>1
  <2>4. CASE k # n  BY <1>3, <1>4, <2>1, <2>2, <2>4
  <2> QED BY <2>3, <2>4
<1>6. Stacked(w, l, t, b)  BY <1>3, <1>4, <1>5 DEF Stacked
<1> QED BY <1>3, <1>6 DEF t, b

LEMMA StackedCut ==
  ASSUME NEW w, NEW l, NEW s, NEW a, StackOf(w, a), Stacked(w, l, s, a), Len(a) # 1
  PROVE  /\ StackOf(w, Front(a)) /\ Stacked(w, l, Front(s), Front(a))
         /\ Last(Front(s)).pc = SpotOf(w, l, Last(Front(a))) /\ Last(s).widx = SpotOf(w, l, Last(Front(a)))
<1> DEFINE t == Front(s)
           b == Front(a)
<1>1. a \in Seq(Places(w)) /\ a # <<>> /\ s \in Seq(Frames) /\ Len(s) = Len(a) /\ s # <<>>
  BY StackedTop DEF StackOf, Stacked
<1>2. PICK n \in Nat : Len(a) = n + 1 /\ Len(s) = n + 1 /\ n # 0
  <2>1. Len(a) \in Nat \ {0}  BY StackedTop
  <2>2. Len(a) - 1 \in Nat /\ Len(a) = (Len(a) - 1) + 1 /\ Len(a) - 1 # 0  BY <2>1
  <2> QED BY <1>1, <2>2
<1>3. t \in Seq(Frames) /\ Len(t) = n /\ \A k \in 1 .. n : t[k] = s[k]
  <2>1. t \in Seq(Frames) /\ Len(t) = Len(s) - 1 /\ \A k \in 1 .. Len(s) - 1 : t[k] = s[k]
    BY <1>1, StackTop
  <2>2. Len(s) - 1 = n  BY <1>2
  <2> QED BY <2>1, <2>2
<1>4. b \in Seq(Places(w)) /\ Len(b) = n /\ \A k \in 1 .. n : b[k] = a[k]
  <2>1. b \in Seq(Places(w)) /\ Len(b) = Len(a) - 1 /\ \A k \in 1 .. Len(a) - 1 : b[k] = a[k]
    BY <1>1, StackTop
  <2>2. Len(a) - 1 = n  BY <1>2
  <2> QED BY <2>1, <2>2
<1> HIDE DEF t, b
<1>5. t # <<>> /\ b # <<>>
  <2>1. Len(<<>>) = 0  BY EmptySeq
  <2> QED BY <1>2, <1>3, <1>4, <2>1
<1>6. Last(t) = s[n] /\ Last(b) = a[n]
  <2>1. n \in 1 .. n  BY <1>2
  <2>2. Last(t) = t[n] /\ Last(b) = b[n]  BY <1>3, <1>4 DEF Last
  <2> QED BY <1>3, <1>4, <2>1, <2>2
<1>7. ASSUME NEW k \in 1 .. n
      PROVE  /\ Framing(w, l, b[k], t[k], OwnerSpot(w, l, b, k)) /\ t[k].pc = SpotOf(w, l, b[k])
  <2>1. k \in 1 .. n + 1 /\ k # n + 1  OBVIOUS
  <2>2. Framing(w, l, a[k], s[k], OwnerSpot(w, l, a, k)) /\ s[k].pc = SpotOf(w, l, a[k])
    BY <1>2, <2>1 DEF Stacked
  <2>3. OwnerSpot(w, l, b, k) = OwnerSpot(w, l, a, k)
    <3>1. k # 1 => k - 1 \in 1 .. n  OBVIOUS
    <3> QED BY <1>4, <3>1 DEF OwnerSpot
  <2> QED BY <1>3, <1>4, <2>2, <2>3
<1>8. Stacked(w, l, t, b)  BY <1>3, <1>4, <1>7 DEF Stacked
<1>9. Last(t).pc = SpotOf(w, l, Last(b))
  <2>1. n \in 1 .. n  BY <1>2
  <2> QED BY <1>3, <1>4, <1>6, <1>7, <2>1
<1>10. Last(s).widx = SpotOf(w, l, Last(b))
  <2>1. n + 1 # 1 /\ n + 1 - 1 = n  BY <1>2
  <2>2. OwnerSpot(w, l, a, n + 1) = SpotOf(w, l, a[n])  BY <2>1 DEF OwnerSpot
  <2>3. Last(s).widx = OwnerSpot(w, l, a, n + 1)  BY <1>2, StackedTop DEF Framing
  <2> QED BY <1>6, <2>2, <2>3
<1> QED BY <1>4, <1>5, <1>8, <1>9, <1>10 DEF t, b, StackOf

\* Entry e is that of the region at q.
Directs(w, l, q, e) ==
  /\ e.kind = RegionOf(w, q).op /\ e.flag = RegionOf(w, q).dst /\ e.trips = RegionOf(w, q).trips
  /\ e.x = Stretch(w, <<Target(w, q.g, q.m), "x">>, l)
  /\ e.y = Stretch(w, <<Target(w, q.g, q.m), "y">>, l)

\* Lane l is somewhere in the level, or where it ends.
TopFits(w, l, A, pc) ==
  IF A.past
  THEN pc = IF Inner(A).m = 0 THEN From(w, Inner(A).g, l) ELSE Beyond(w, Inner(A).g, Inner(A).m, l)
  ELSE SpotOf(w, l, Inner(A)) <= pc /\ pc < Beyond(w, Inner(A).g, Inner(A).m, l)

\* Lane l's frames s are at trail A.
Fits(w, l, s, A) == Stacked(w, l, s, A.at) /\ TopFits(w, l, A, Last(s).pc)

LEMMA FitsTop ==
  ASSUME NEW w, IsChart(w), NEW l \in LaneIds, NEW A \in Trails(w), NEW s, Fits(w, l, s, A)
  PROVE  /\ s \in Seq(Frames) /\ s # <<>> /\ Len(s) = Depth(A) /\ Last(s) \in Frames
         /\ Framing(w, l, Inner(A), Last(s), OwnerSpot(w, l, A.at, Depth(A)))
         /\ StackOf(w, A.at) /\ Stacked(w, l, s, A.at) /\ Inner(A).g \in w.lists
<1>1. StackOf(w, A.at) /\ Inner(A).g \in w.lists  BY TrailFacts DEF StackOf, Places
<1>2. Stacked(w, l, s, A.at)  BY DEF Fits
<1>3. s # <<>> /\ Last(s) \in Frames /\ Framing(w, l, Last(A.at), Last(s), OwnerSpot(w, l, A.at, Len(A.at)))
  BY <1>1, <1>2, StackedTop
<1> QED BY <1>1, <1>2, <1>3 DEF Stacked, Depth, Inner

LEMMA Directed ==
  ASSUME NEW w, IsChart(w), NEW l \in LaneIds, NEW q \in Places(w), q.m \in 1 .. Count(w, q.g),
         Steering(w, q.g, q.m)
  PROVE  /\ Directs(w, l, q, w.streams[l][SpotOf(w, l, q)])
         /\ SpotOf(w, l, q) \in Nat \ {0} /\ Beyond(w, q.g, q.m, l) = SpotOf(w, l, q) + 1
<1>1. q.g \in w.lists  BY DEF Places
<1>2. RegionLevel(w, q.g, q.m, l)  BY <1>1, LevelEntries
<1>3. PICK a \in Nat, c \in Nat : a = From(w, q.g, l) /\ c = Pos(w, q.g, q.m, l) /\ a # 0 /\ a <= c
  BY <1>1, ListSpots DEF LevelSpot
<1>4. c \in Nat \ {0}  BY <1>3
<1>5. Directs(w, l, q, w.streams[l][SpotOf(w, l, q)])
  BY <1>2 DEF RegionLevel, Directs, RegionOf, SpotOf
<1> QED BY <1>2, <1>3, <1>4, <1>5 DEF RegionLevel, SpotOf

\* What lane l finds there.
Finds(w, l, s, A) ==
  /\ AtEnd(s) <=> AtClose(w, A)
  /\ AtTiles(w, A) => w.streams[l][Last(s).pc].kind = "tile"
  /\ AtRegion(w, A) => /\ Last(s).pc = SpotOf(w, l, Inner(A))
                       /\ Directs(w, l, Inner(A), w.streams[l][Last(s).pc])
  /\ A.past /\ ~AtClose(w, A) => /\ w.streams[l][Last(s).pc] = Barrier
                                 /\ Inner(A).m < Count(w, Inner(A).g) /\ Inner(A).m # 0

LEMMA Sight ==
  ASSUME NEW w, IsChart(w), NEW l \in LaneIds, NEW A \in Trails(w), NEW s, Fits(w, l, s, A)
  PROVE  /\ Finds(w, l, s, A)
         /\ AtRoot(s) <=> Depth(A) = 1
         /\ Depth(A) # 1 => /\ Last(s).widx = SpotOf(w, l, Around(A))
                            /\ Directs(w, l, Around(A), w.streams[l][Last(s).widx])
<1> DEFINE q == Inner(A)
           M == Count(w, q.g)
           pc == Last(s).pc
<1>1. /\ s \in Seq(Frames) /\ s # <<>> /\ Last(s) \in Frames
      /\ Framing(w, l, q, Last(s), OwnerSpot(w, l, A.at, Depth(A)))
      /\ StackOf(w, A.at) /\ Stacked(w, l, s, A.at) /\ q.g \in w.lists
  BY FitsTop
<1>2. /\ M \in Nat /\ From(w, q.g, l) \in Nat /\ To(w, q.g, l) \in Nat
      /\ M = 0 => To(w, q.g, l) = From(w, q.g, l)
      /\ \A m \in 1 .. M : LevelSpot(w, q.g, m, l)
  BY <1>1, ListSpots
<1>3. TopFits(w, l, A, pc) /\ pc \in Nat /\ Last(s).end = To(w, q.g, l)
  BY <1>1 DEF Fits, Framing, Frames
<1>4. q \in Places(w) /\ q.m \in 0 .. M /\ (q.m = 0 => A.past /\ M = 0) /\ A.past \in BOOLEAN
  BY TrailFacts DEF Trails, IsTrail, Inner
<1>5. AtEnd(s) <=> pc >= To(w, q.g, l)  BY <1>3 DEF AtEnd
<1> HIDE DEF q, M, pc
<1>6. ASSUME q.m = 0 PROVE Finds(w, l, s, A)
  <2>1. A.past /\ M = 0  BY <1>4, <1>6
  <2>2. pc = From(w, q.g, l)  BY <1>3, <1>6, <2>1 DEF TopFits, q
  <2>3. pc = To(w, q.g, l) /\ AtEnd(s)  BY <1>2, <1>3, <1>5, <2>1, <2>2
  <2>4. AtClose(w, A)  BY <1>6, <2>1 DEF AtClose, q, M
  <2> QED BY <2>1, <2>3, <2>4 DEF Finds, AtTiles, AtRegion
<1>7. ASSUME q.m # 0 PROVE q.m \in 1 .. M /\ LevelSpot(w, q.g, q.m, l)
  <2>1. q.m \in 1 .. M  BY <1>2, <1>4, <1>7
  <2> QED BY <1>2, <2>1
<1>8. ASSUME q.m # 0 /\ A.past PROVE Finds(w, l, s, A)
  <2>1. pc = Beyond(w, q.g, q.m, l)  BY <1>3, <1>8 DEF TopFits, q
  <2>2. CASE q.m = M
    <3>1. pc = To(w, q.g, l)  BY <1>7, <1>8, <2>1, <2>2 DEF LevelSpot, M
    <3>2. AtEnd(s)  BY <1>2, <1>5, <3>1
    <3> QED BY <1>8, <2>2, <3>2 DEF Finds, AtClose, AtTiles, AtRegion, q, M
  <2>3. CASE q.m # M
    <3>1. pc < To(w, q.g, l) /\ w.streams[l][pc] = Barrier  BY <1>7, <1>8, <2>1, <2>3 DEF LevelSpot, M
    <3>2. ~AtEnd(s)  BY <1>2, <1>3, <1>5, <3>1
    <3>3. q.m < M  BY <1>2, <1>7, <1>8, <2>3
    <3> QED BY <1>8, <2>3, <3>1, <3>2, <3>3 DEF Finds, AtClose, AtTiles, AtRegion, q, M, pc
  <2> QED BY <2>2, <2>3
<1>9. ASSUME q.m # 0 /\ ~A.past PROVE Finds(w, l, s, A)
  <2>1. Pos(w, q.g, q.m, l) <= pc /\ pc < Beyond(w, q.g, q.m, l)
    BY <1>3, <1>9 DEF TopFits, q, SpotOf
  <2>2. PICK c \in Nat, d \in Nat, e \in Nat :
          c = Pos(w, q.g, q.m, l) /\ d = Beyond(w, q.g, q.m, l) /\ e = To(w, q.g, l) /\ d <= e
    BY <1>2, <1>7, <1>9 DEF LevelSpot
  <2>3. pc < To(w, q.g, l) /\ ~(pc >= To(w, q.g, l))  BY <1>3, <2>1, <2>2
  <2>4. ~AtEnd(s) /\ ~AtClose(w, A)  BY <1>5, <1>9, <2>3 DEF AtClose
  <2>5. CASE ~Steering(w, q.g, q.m)
    <3>1. TileLevel(w, q.g, q.m, l)
      <4>1. q.m \in 1 .. Count(w, q.g)  BY <1>7, <1>9 DEF M
      <4> QED BY <1>1, <2>5, <4>1, LevelEntries DEF q
    <3>2. w.streams[l][pc].kind = "tile"  BY <1>3, <2>1, <3>1 DEF TileLevel
    <3> QED BY <1>9, <2>4, <2>5, <3>2 DEF Finds, AtTiles, AtRegion, q, pc
  <2>6. CASE Steering(w, q.g, q.m)
    <3>1. /\ Directs(w, l, q, w.streams[l][SpotOf(w, l, q)])
          /\ Beyond(w, q.g, q.m, l) = SpotOf(w, l, q) + 1
      <4>1. q.m \in 1 .. Count(w, q.g)  BY <1>7, <1>9 DEF M
      <4> QED BY <1>4, <2>6, <4>1, Directed
    <3>2. pc = SpotOf(w, l, q)
      <4>1. c = SpotOf(w, l, q) /\ d = c + 1 /\ c <= pc /\ pc < d  BY <2>1, <2>2, <3>1 DEF SpotOf
      <4> QED BY <1>3, <4>1
    <3> QED BY <1>9, <2>4, <2>6, <3>1, <3>2 DEF Finds, AtTiles, AtRegion, q, pc
  <2> QED BY <2>5, <2>6
<1>10. Finds(w, l, s, A)  BY <1>6, <1>8, <1>9
<1>11. ASSUME Depth(A) # 1
       PROVE  /\ Last(s).widx = SpotOf(w, l, Around(A)) /\ SpotOf(w, l, Around(A)) # 0
              /\ Directs(w, l, Around(A), w.streams[l][Last(s).widx])
  <2>1. Last(s).widx = SpotOf(w, l, Around(A))
    <3>1. PICK a : a = A.at  OBVIOUS
    <3>2. StackOf(w, a) /\ Stacked(w, l, s, a) /\ Len(a) # 1  BY <1>1, <1>11, <3>1 DEF Depth
    <3>3. Last(s).widx = SpotOf(w, l, Last(Front(a)))  BY <3>2, StackedCut
    <3> QED BY <3>1, <3>3 DEF Around
  <2>2. Around(A) \in Places(w) /\ Nests(w, Around(A), q.g)  BY <1>11, TrailFacts DEF q
  <2>3. SpotOf(w, l, Around(A)) \in Nat \ {0} /\ Directs(w, l, Around(A), w.streams[l][SpotOf(w, l, Around(A))])
    BY <2>2, Directed DEF Nests
  <2> QED BY <2>1, <2>3
<1>12. Depth(A) = 1 => Last(s).widx = RootIdx  BY <1>1 DEF Framing, OwnerSpot
<1>13. AtRoot(s) <=> Depth(A) = 1  BY <1>11, <1>12 DEF AtRoot, RootIdx
<1> QED BY <1>10, <1>11, <1>13

------------------------------------------------------------------------------
(* Moves of a lane *)

LEMMA StackedStill ==
  ASSUME NEW w, NEW l, NEW s, NEW a, StackOf(w, a), Stacked(w, l, s, a),
         NEW f \in Frames, Framing(w, l, Last(a), f, Last(s).widx)
  PROVE  Stacked(w, l, WithTop(s, f), a) /\ Last(WithTop(s, f)) = f
<1>1. PICK b : b = WithTop(a, Last(a))  OBVIOUS
<1>2. a \in Seq(Places(w)) /\ a # <<>>  BY DEF StackOf
<1>3. PICK r \in Places(w) : r = Last(a) /\ r = a[Len(a)]  BY <1>2, StackTop
<1>4. /\ b \in Seq(Places(w)) /\ Len(b) = Len(a) /\ b[Len(a)] = r
      /\ \A k \in 1 .. Len(a) : k # Len(a) => b[k] = a[k]
  <2>1. /\ WithTop(a, r) \in Seq(Places(w)) /\ WithTop(a, r) # <<>> /\ Last(WithTop(a, r)) = r
        /\ Len(WithTop(a, r)) = Len(a) /\ WithTop(a, r)[Len(a)] = r
        /\ \A k \in 1 .. Len(a) : k # Len(a) => WithTop(a, r)[k] = a[k]
    BY ONLY <1>2, r \in Places(w), StackRetopped, Zenon
  <2> QED BY <1>1, <1>3, <2>1
<1>5. b = a
  <2>1. \A k \in 1 .. Len(b) : b[k] = a[k]  BY <1>3, <1>4
  <2> QED BY <1>2, <1>4, <2>1, SeqEqual
<1>6. Stacked(w, l, WithTop(s, f), b) /\ Last(WithTop(s, f)) = f  BY <1>1, <1>3, StackedRetopped
<1> QED BY <1>5, <1>6

\* One entry further.
Ahead(f) == [f EXCEPT !.pc = @ + 1]

LEMMA AheadFrame ==
  ASSUME NEW f \in Frames
  PROVE  /\ Ahead(f) \in Frames /\ Ahead(f).pc = f.pc + 1 /\ Ahead(f).end = f.end
         /\ Ahead(f).widx = f.widx /\ Ahead(f).phase = f.phase
BY DEF Ahead, Frames

\* Where a level starts: in it, or past it at once where lane l has no tiles of it.
Lands(w, l, s, A) == Fits(w, l, s, A) \/ (AtTiles(w, A) /\ Fits(w, l, s, Passed(A)))

LEMMA LevelStart ==
  ASSUME NEW w, IsChart(w), NEW l \in LaneIds, NEW A \in Trails(w), ~A.past,
         NEW s, Stacked(w, l, s, A.at), Last(s).pc = SpotOf(w, l, Inner(A))
  PROVE  Lands(w, l, s, A)
<1> DEFINE q == Inner(A)
<1>1. q \in Places(w) /\ q.m \in 1 .. Count(w, q.g) /\ q.g \in w.lists  BY TrailFacts DEF Places
<1>2. LevelSpot(w, q.g, q.m, l)  BY <1>1, ListSpots
<1>3. PICK c \in Nat, d \in Nat : c = SpotOf(w, l, q) /\ d = Beyond(w, q.g, q.m, l) /\ c <= d
  BY <1>2 DEF LevelSpot, SpotOf
<1>4. q.m # 0  BY <1>1
<1>5. CASE c < d
  <2>1. TopFits(w, l, A, Last(s).pc)  BY <1>3, <1>5 DEF TopFits
  <2> QED BY <2>1 DEF Lands, Fits
<1>6. CASE c = d
  <2>1. ~Steering(w, q.g, q.m)
    <3> SUFFICES ASSUME Steering(w, q.g, q.m) PROVE FALSE  OBVIOUS
    <3>1. d = c + 1  BY <1>1, <1>3, Directed
    <3> QED BY <1>6, <3>1
  <2>2. AtTiles(w, A)  BY <2>1 DEF AtTiles
  <2>3. Passed(A).at = A.at /\ Passed(A).past = TRUE /\ Inner(Passed(A)) = q  BY DEF Passed, Inner
  <2>4. TopFits(w, l, Passed(A), Last(s).pc)  BY <1>3, <1>4, <1>6, <2>3 DEF TopFits
  <2> QED BY <2>2, <2>3, <2>4 DEF Lands, Fits
<1> QED BY <1>3, <1>5, <1>6

LEMMA StepTile ==
  ASSUME NEW w, IsChart(w), NEW l \in LaneIds, NEW A \in Trails(w), NEW s, Fits(w, l, s, A), AtTiles(w, A)
  PROVE  Lands(w, l, Step(s), A)
<1> DEFINE q == Inner(A)
           f == Ahead(Last(s))
<1>1. /\ Last(s) \in Frames /\ Framing(w, l, q, Last(s), OwnerSpot(w, l, A.at, Depth(A)))
      /\ StackOf(w, A.at) /\ Stacked(w, l, s, A.at)
  BY FitsTop
<1>2. f \in Frames /\ f.pc = Last(s).pc + 1 /\ Framing(w, l, Last(A.at), f, Last(s).widx)
  BY <1>1, AheadFrame DEF Framing, Inner
<1>3. Step(s) = WithTop(s, f)  BY DEF Step, Ahead
<1> HIDE DEF f
<1>4. Stacked(w, l, Step(s), A.at) /\ Last(Step(s)) = f  BY <1>1, <1>2, <1>3, StackedStill
<1>5. q \in Places(w) /\ q.m \in 1 .. Count(w, q.g) /\ q.g \in w.lists /\ ~A.past
  BY TrailFacts DEF Places, AtTiles
<1>6. LevelSpot(w, q.g, q.m, l)  BY <1>5, ListSpots
<1>7. PICK c \in Nat, d \in Nat : c = SpotOf(w, l, q) /\ d = Beyond(w, q.g, q.m, l)
  BY <1>6 DEF LevelSpot, SpotOf
<1>8. PICK x \in Nat : x = Last(s).pc /\ c <= x /\ x < d /\ f.pc = x + 1
  <2>1. Last(s).pc \in Nat  BY <1>1 DEF Frames
  <2> QED BY <1>2, <1>5, <1>7, <2>1 DEF Fits, TopFits
<1>9. CASE x + 1 < d
  <2>1. c <= x + 1  BY <1>8
  <2>2. TopFits(w, l, A, f.pc)  BY <1>5, <1>7, <1>8, <1>9, <2>1 DEF TopFits
  <2> QED BY <1>4, <2>2 DEF Lands, Fits
<1>10. CASE ~(x + 1 < d)
  <2>1. x + 1 = d  BY <1>8, <1>10
  <2>2. Passed(A).at = A.at /\ Passed(A).past = TRUE /\ Inner(Passed(A)) = q  BY DEF Passed, Inner
  <2>3. q.m # 0  BY <1>5
  <2>4. TopFits(w, l, Passed(A), f.pc)  BY <1>7, <1>8, <2>1, <2>2, <2>3 DEF TopFits
  <2> QED BY <1>4, <2>2, <2>4 DEF Lands, Fits
<1> QED BY <1>9, <1>10

LEMMA StepOver ==
  ASSUME NEW w, IsChart(w), NEW l \in LaneIds, NEW A \in Trails(w), NEW s, Fits(w, l, s, A), AtRegion(w, A)
  PROVE  Fits(w, l, Step(s), Passed(A))
<1> DEFINE q == Inner(A)
           f == Ahead(Last(s))
<1>1. /\ Last(s) \in Frames /\ Framing(w, l, q, Last(s), OwnerSpot(w, l, A.at, Depth(A)))
      /\ StackOf(w, A.at) /\ Stacked(w, l, s, A.at)
  BY FitsTop
<1>2. f \in Frames /\ f.pc = Last(s).pc + 1 /\ Framing(w, l, Last(A.at), f, Last(s).widx)
  BY <1>1, AheadFrame DEF Framing, Inner
<1>3. Step(s) = WithTop(s, f)  BY DEF Step, Ahead
<1> HIDE DEF f
<1>4. Stacked(w, l, Step(s), A.at) /\ Last(Step(s)) = f  BY <1>1, <1>2, <1>3, StackedStill
<1>5. q \in Places(w) /\ q.m \in 1 .. Count(w, q.g) /\ q.m # 0  BY TrailFacts DEF AtRegion
<1>6. Last(s).pc = SpotOf(w, l, q)  BY Sight DEF Finds
<1>7. Beyond(w, q.g, q.m, l) = SpotOf(w, l, q) + 1  BY <1>5, Directed DEF AtRegion
<1>8. Passed(A).at = A.at /\ Passed(A).past = TRUE /\ Inner(Passed(A)) = q  BY DEF Passed, Inner
<1>9. TopFits(w, l, Passed(A), f.pc)  BY <1>2, <1>5, <1>6, <1>7, <1>8 DEF TopFits
<1> QED BY <1>4, <1>8, <1>9 DEF Fits

LEMMA BarrierStepped ==
  ASSUME NEW w, IsChart(w), NEW l \in LaneIds, NEW A \in Trails(w), NEW s, Fits(w, l, s, A),
         A.past, ~AtClose(w, A)
  PROVE  Onward(A) \in Trails(w) /\ Lands(w, l, Step(s), Onward(A))
<1> DEFINE q == Inner(A)
           f == Ahead(Last(s))
           r == [g |-> q.g, m |-> q.m + 1, ph |-> q.ph]
<1>1. /\ Last(s) \in Frames /\ Framing(w, l, q, Last(s), OwnerSpot(w, l, A.at, Depth(A)))
      /\ StackOf(w, A.at) /\ Stacked(w, l, s, A.at) /\ q.g \in w.lists
  BY FitsTop
<1>2. f \in Frames /\ f.pc = Last(s).pc + 1 /\ f.end = Last(s).end /\ f.phase = Last(s).phase /\ f.widx = Last(s).widx
  BY <1>1, AheadFrame
<1>3. Step(s) = WithTop(s, f)  BY DEF Step, Ahead
<1>4. q.m < Count(w, q.g) /\ q.m # 0 /\ q \in Places(w)  BY Sight, TrailFacts DEF Finds
<1>5. q.m \in Nat /\ q.ph \in Int  BY <1>4 DEF Places
<1>6. r \in Places(w) /\ r.g = q.g /\ r.ph = q.ph /\ r.m = q.m + 1  BY <1>1, <1>5 DEF Places
<1>7. Framing(w, l, r, f, Last(s).widx)  BY <1>1, <1>2, <1>6 DEF Framing
<1>8. Onward(A).at = WithTop(A.at, r)  BY DEF Onward
<1>9. /\ Onward(A) \in Trails(w) /\ Onward(A).past = FALSE
      /\ Inner(Onward(A)).g = q.g /\ Inner(Onward(A)).m = q.m + 1
  BY <1>4, OnwardTrail
<1> HIDE DEF f, r, q
<1>10. Stacked(w, l, Step(s), Onward(A).at) /\ Last(Step(s)) = f
  BY <1>1, <1>2, <1>3, <1>6, <1>7, <1>8, StackedRetopped
<1>11. Last(s).pc = Beyond(w, q.g, q.m, l)  BY <1>4 DEF Fits, TopFits, q
<1>12. Pos(w, q.g, q.m + 1, l) = Beyond(w, q.g, q.m, l) + 1
  <2>1. Count(w, q.g) \in Nat /\ \A m \in 1 .. Count(w, q.g) : LevelSpot(w, q.g, m, l)  BY <1>1, ListSpots
  <2>2. q.m \in 1 .. Count(w, q.g) /\ q.m # Count(w, q.g)  BY <1>4, <1>5, <2>1
  <2> QED BY <2>1, <2>2 DEF LevelSpot
<1>13. f.pc = SpotOf(w, l, Inner(Onward(A)))  BY <1>2, <1>9, <1>11, <1>12 DEF SpotOf
<1> QED BY <1>9, <1>10, <1>13, LevelStart

\* A list is begun: at its first level, or at its end.
LEMMA ListStart ==
  ASSUME NEW w, IsChart(w), NEW l \in LaneIds, NEW g \in w.lists, NEW ph \in Int,
         NEW A \in Trails(w), Inner(A) = Begun(w, g, ph), A.past = (Count(w, g) = 0),
         NEW s, Stacked(w, l, s, A.at), Last(s).pc = From(w, g, l)
  PROVE  Lands(w, l, s, A)
<1>1. Inner(A).g = g /\ Inner(A).m = IF Count(w, g) = 0 THEN 0 ELSE 1  BY BegunPlace
<1>2. Count(w, g) \in Nat /\ \A m \in 1 .. Count(w, g) : LevelSpot(w, g, m, l)  BY ListSpots
<1>3. CASE Count(w, g) = 0
  <2>1. TopFits(w, l, A, Last(s).pc)  BY <1>1, <1>3 DEF TopFits
  <2> QED BY <2>1 DEF Lands, Fits
<1>4. CASE Count(w, g) # 0
  <2>1. 1 \in 1 .. Count(w, g)  BY <1>2, <1>4
  <2>2. Pos(w, g, 1, l) = From(w, g, l)  BY <1>2, <2>1 DEF LevelSpot
  <2>3. Last(s).pc = SpotOf(w, l, Inner(A)) /\ ~A.past  BY <1>1, <1>4, <2>2 DEF SpotOf
  <2> QED BY <2>3, LevelStart
<1> QED BY <1>3, <1>4

LEMMA StretchIs ==
  ASSUME NEW w, IsChart(w), NEW l \in LaneIds, NEW g \in w.lists
  PROVE  /\ Stretch(w, g, l).start = From(w, g, l)
         /\ Stretch(w, g, l).start + Stretch(w, g, l).len = To(w, g, l)
         /\ From(w, g, l) \in Nat /\ To(w, g, l) \in Nat
         /\ Stretch(w, g, l).len \in Nat /\ (Stretch(w, g, l).len = 0 => From(w, g, l) = To(w, g, l))
<1>1. PICK a \in Nat, b \in Nat : a = From(w, g, l) /\ b = To(w, g, l) /\ a <= b  BY ListSpots
<1>2. Stretch(w, g, l).start = a /\ Stretch(w, g, l).len = b - a  BY <1>1 DEF Stretch, SubList
<1>3. b - a \in Nat /\ a + (b - a) = b /\ (b - a = 0 => a = b)  BY <1>1
<1> QED BY <1>1, <1>2, <1>3

LEMMA PushFits ==
  ASSUME NEW w, IsChart(w), NEW l \in LaneIds, NEW A \in Trails(w), NEW s, Fits(w, l, s, A), AtRegion(w, A),
         NEW g \in Inside(w, Inner(A)), NEW ph \in Int
  PROVE  /\ Onto(w, A.at, g, ph) \in Trails(w)
         /\ Lands(w, l, Pushed(s, Stretch(w, g, l), ph), Onto(w, A.at, g, ph))
<1> DEFINE q == Inner(A)
           B == Onto(w, A.at, g, ph)
           t == Pushed(s, Stretch(w, g, l), ph)
           r == Begun(w, g, ph)
           f == Frame(From(w, g, l), To(w, g, l), Last(s).pc, ph)
<1>1. /\ Last(s) \in Frames /\ StackOf(w, A.at) /\ Stacked(w, l, s, A.at)
  BY FitsTop
<1>2. Last(s).pc = SpotOf(w, l, Last(A.at)) /\ Last(s).pc \in Nat  BY <1>1, Sight DEF Finds, Inner, Frames
<1>3. g \in w.lists /\ B \in Trails(w) /\ Inner(B) = r /\ B.past = (Count(w, g) = 0)  BY EnterTrail
<1>4. t = Append(s, f)  BY <1>3, StretchIs DEF Pushed
<1>5. f \in Frames /\ f.pc = From(w, g, l)  BY <1>2, <1>3, StretchIs DEF Frame, Frames
<1>6. r \in Places(w) /\ r.g = g /\ r.ph = ph  BY <1>3, BegunPlace
<1>7. Framing(w, l, r, f, SpotOf(w, l, Last(A.at)))  BY <1>2, <1>6 DEF Framing, Frame
<1>8. B.at = Append(A.at, r)  BY DEF Onto
<1> HIDE DEF f, r, B, t
<1>9. Stacked(w, l, t, B.at) /\ Last(t) = f  BY <1>1, <1>2, <1>4, <1>5, <1>6, <1>7, <1>8, StackedGrown
<1>10. Inner(B) = Begun(w, g, ph)  BY <1>3 DEF r
<1>11. Lands(w, l, t, B)  BY <1>3, <1>5, <1>9, <1>10, ListStart
<1> QED BY <1>3, <1>11 DEF B, t

LEMMA RewindFits ==
  ASSUME NEW w, IsChart(w), NEW l \in LaneIds, NEW A \in Trails(w), NEW s, Fits(w, l, s, A), Depth(A) # 1,
         NEW g \in Inside(w, Around(A)), NEW ph \in Int
  PROVE  /\ Again(w, A, g, ph) \in Trails(w)
         /\ Lands(w, l, Rewound(s, Stretch(w, g, l), ph), Again(w, A, g, ph))
<1> DEFINE B == Again(w, A, g, ph)
           t == Rewound(s, Stretch(w, g, l), ph)
           r == Begun(w, g, ph)
           f == [Last(s) EXCEPT !.pc = From(w, g, l), !.end = To(w, g, l), !.phase = ph]
<1>1. /\ Last(s) \in Frames /\ StackOf(w, A.at) /\ Stacked(w, l, s, A.at)
  BY FitsTop
<1>3. g \in w.lists /\ B \in Trails(w) /\ Inner(B) = r /\ B.past = (Count(w, g) = 0)  BY AgainTrail
<1>4. t = WithTop(s, f)  BY <1>3, StretchIs DEF Rewound
<1>5. f \in Frames /\ f.pc = From(w, g, l) /\ f.end = To(w, g, l) /\ f.phase = ph /\ f.widx = Last(s).widx
  BY <1>1, <1>3, StretchIs DEF Frames
<1>6. r \in Places(w) /\ r.g = g /\ r.ph = ph  BY <1>3, BegunPlace
<1>8. B.at = WithTop(A.at, r)  BY DEF Again, Onto, WithTop
<1> HIDE DEF f, r, B, t
<1>7. Framing(w, l, r, f, Last(s).widx)  BY <1>5, <1>6 DEF Framing
<1>9. Stacked(w, l, t, B.at) /\ Last(t) = f  BY <1>1, <1>4, <1>5, <1>6, <1>7, <1>8, StackedRetopped
<1>10. Inner(B) = Begun(w, g, ph)  BY <1>3 DEF r
<1>11. Lands(w, l, t, B)  BY <1>3, <1>5, <1>9, <1>10, ListStart
<1> QED BY <1>3, <1>11 DEF B, t

LEMMA PopFits ==
  ASSUME NEW w, IsChart(w), NEW l \in LaneIds, NEW A \in Trails(w), NEW s, Fits(w, l, s, A), Depth(A) # 1
  PROVE  Left(A) \in Trails(w) /\ Fits(w, l, Popped(s), Left(A))
<1> DEFINE q == Around(A)
           t == Front(s)
           a == Front(A.at)
           f == Ahead(Last(t))
<1>1. /\ StackOf(w, A.at) /\ Stacked(w, l, s, A.at) /\ Len(A.at) # 1
  BY FitsTop DEF Depth
<1>2. StackOf(w, a) /\ Stacked(w, l, t, a) /\ Last(t).pc = SpotOf(w, l, Last(a))  BY <1>1, StackedCut
<1>3. Last(a) = q  BY DEF Around
<1>4. Left(A) \in Trails(w) /\ Left(A).past = TRUE /\ Left(A).at = a /\ Inner(Left(A)) = q
  BY LeftTrail DEF Left
<1>5. Popped(s) = WithTop(t, f)  BY DEF Popped, Step, Ahead
<1>6. q \in Places(w) /\ Nests(w, q, Inner(A).g)  BY TrailFacts
<1> HIDE DEF a, t, q
<1>7. Last(t) \in Frames /\ Framing(w, l, Last(a), Last(t), OwnerSpot(w, l, a, Len(a)))  BY <1>2, StackedTop
<1>8. f \in Frames /\ f.pc = Last(t).pc + 1 /\ f.end = Last(t).end /\ f.phase = Last(t).phase /\ f.widx = Last(t).widx
  BY <1>7, AheadFrame
<1> HIDE DEF f
<1>9. Framing(w, l, Last(a), f, Last(t).widx)  BY <1>7, <1>8 DEF Framing
<1>10. Stacked(w, l, Popped(s), a) /\ Last(Popped(s)) = f  BY <1>2, <1>5, <1>8, <1>9, StackedStill
<1>11. q.m # 0 /\ Beyond(w, q.g, q.m, l) = SpotOf(w, l, q) + 1  BY <1>6, Directed DEF Nests
<1>12. TopFits(w, l, Left(A), f.pc)  BY <1>2, <1>3, <1>4, <1>8, <1>11 DEF TopFits
<1> QED BY <1>4, <1>10, <1>12 DEF Fits

------------------------------------------------------------------------------
(* Where a walk stops *)

\* Where walks go on by themselves they all go on to the same trail.
Reach(S, next, o) ==
  {A \in S : \A C \in SUBSET S : o \in C /\ (\A B \in C \cap DOMAIN next : next[B] \in C) => A \in C}

LEMMA ReachOn ==
  ASSUME NEW S, NEW next, NEW o \in S
  PROVE  /\ o \in Reach(S, next, o)
         /\ \A A \in Reach(S, next, o) \cap DOMAIN next :
              next[A] \in S => next[A] \in Reach(S, next, o)
<1>1. o \in Reach(S, next, o)  BY DEF Reach
<1>2. ASSUME NEW A \in Reach(S, next, o) \cap DOMAIN next, next[A] \in S
      PROVE  next[A] \in Reach(S, next, o)
  <2>1. SUFFICES ASSUME NEW C \in SUBSET S, o \in C, \A B \in C \cap DOMAIN next : next[B] \in C
                 PROVE  next[A] \in C
    BY <1>2 DEF Reach
  <2>2. A \in C  BY <2>1 DEF Reach
  <2> QED BY <2>1, <2>2
<1> QED BY <1>1, <1>2

\* A set that has o and is closed under next has all of Reach.
LEMMA ReachWithin ==
  ASSUME NEW S, NEW next, NEW o, NEW C, C \subseteq S, o \in C,
         \A B \in C \cap DOMAIN next : next[B] \in C
  PROVE  Reach(S, next, o) \subseteq C
BY DEF Reach

\* What is reached from X is X or what is reached from where it goes on to.
LEMMA ReachFrom ==
  ASSUME NEW S, NEW next, \A B \in S \cap DOMAIN next : next[B] \in S, NEW X \in S \cap DOMAIN next
  PROVE  Reach(S, next, X) \subseteq {X} \cup Reach(S, next, next[X])
<1> DEFINE E == {X} \cup Reach(S, next, next[X])
<1>1. X \in S /\ next[X] \in S  OBVIOUS
<1>2. E \subseteq S  BY <1>1 DEF Reach
<1>3. next[X] \in Reach(S, next, next[X])  BY <1>1, ReachOn
<1>4. ASSUME NEW Y \in E \cap DOMAIN next PROVE next[Y] \in E
  <2>1. CASE Y = X  BY <1>3, <2>1
  <2>2. CASE Y # X
    <3>1. Y \in Reach(S, next, next[X]) \cap DOMAIN next /\ next[Y] \in S
      BY <1>2, <1>4, <2>2
    <3> QED BY <1>1, <3>1, ReachOn
  <2> QED BY <2>1, <2>2
<1>5. X \in E  OBVIOUS
<1> HIDE DEF E
<1>6. Reach(S, next, X) \subseteq E  BY <1>2, <1>4, <1>5, ReachWithin
<1> QED BY <1>6 DEF E

\* One of two trails a walk comes to is on the way from the other.
LEMMA OneWay ==
  ASSUME NEW S, NEW next, \A B \in S \cap DOMAIN next : next[B] \in S, NEW o \in S,
         NEW A \in Reach(S, next, o), NEW B \in Reach(S, next, o)
  PROVE  B \in Reach(S, next, A) \/ A \in Reach(S, next, B)
<1> DEFINE C == {X \in S : X \in Reach(S, next, A) \/ A \in Reach(S, next, X)}
<1>0. A \in S  BY DEF Reach
<1>1. ASSUME NEW X \in C \cap DOMAIN next PROVE next[X] \in C
  <2>1. X \in S /\ next[X] \in S  OBVIOUS
  <2>2. CASE X \in Reach(S, next, A)
    <3>1. next[X] \in Reach(S, next, A)  BY <1>0, <2>1, <2>2, ReachOn
    <3> QED BY <2>1, <3>1
  <2>3. CASE X \notin Reach(S, next, A)
    <3>1. A \in Reach(S, next, X)  BY <2>3
    <3>2. A # X  BY <1>0, <2>3, ReachOn
    <3>3. Reach(S, next, X) \subseteq {X} \cup Reach(S, next, next[X])
      <4>1. X \in S \cap DOMAIN next  OBVIOUS
      <4> QED BY <4>1, ReachFrom
    <3>4. A \in Reach(S, next, next[X])  BY <3>1, <3>2, <3>3
    <3> QED BY <2>1, <3>4
  <2> QED BY <2>2, <2>3
<1>2. o \in C /\ C \subseteq S  OBVIOUS
<1>3. Reach(S, next, o) \subseteq C  BY <1>1, <1>2, ReachWithin
<1> QED BY <1>3

LEMMA OneEnd ==
  ASSUME NEW S, NEW next, \A B \in S \cap DOMAIN next : next[B] \in S, NEW o \in S,
         NEW A \in Reach(S, next, o), A \notin DOMAIN next,
         NEW B \in Reach(S, next, o), B \notin DOMAIN next
  PROVE  A = B
<1>1. ASSUME NEW X \in S, X \notin DOMAIN next PROVE Reach(S, next, X) \subseteq {X}
  <2> DEFINE E == {X}
  <2>1. E \subseteq S /\ X \in E /\ \A Y \in E \cap DOMAIN next : next[Y] \in E  BY <1>1
  <2> HIDE DEF E
  <2>2. Reach(S, next, X) \subseteq E  BY <2>1, ReachWithin
  <2> QED BY <2>2 DEF E
<1>2. A \in S /\ B \in S  BY DEF Reach
<1>3. B \in Reach(S, next, A) \/ A \in Reach(S, next, B)  BY OneWay
<1> QED BY <1>1, <1>2, <1>3

\* What a walk at trail A stops for, or "on".
Enters(w, A) ==
  RegionOf(w, Inner(A)).op = "while"
    \/ (RegionOf(w, Inner(A)).op = "for" /\ RegionOf(w, Inner(A)).trips > 0)

Shuts(w, A) ==
  IF RegionOf(w, Around(A)).op # "while"
  THEN IF RegionOf(w, Around(A)).op = "if" THEN "on" ELSE "for"
  ELSE IF Inner(A).ph = 0 THEN "cond" ELSE "body"

Halts(w, A) ==
  IF AtTiles(w, A) THEN "on"
  ELSE IF AtRegion(w, A)
  THEN IF RegionOf(w, Inner(A)).op = "if" THEN "if"
       ELSE IF Enters(w, A) /\ Depth(A) >= MaxDepth THEN "done" ELSE "on"
  ELSE IF ~AtClose(w, A) THEN "barrier"
  ELSE IF Depth(A) = 1 THEN "done" ELSE Shuts(w, A)

\* Where it goes on to.
Sub(w, q, side) == <<Target(w, q.g, q.m), side>>

Goal(w, A) ==
  IF AtTiles(w, A) THEN Passed(A)
  ELSE IF AtRegion(w, A)
  THEN IF RegionOf(w, Inner(A)).op = "while" THEN Onto(w, A.at, Sub(w, Inner(A), "x"), 0)
       ELSE IF RegionOf(w, Inner(A)).trips = 0 THEN Passed(A)
       ELSE Onto(w, A.at, Sub(w, Inner(A), "y"), RegionOf(w, Inner(A)).trips)
  ELSE Left(A)

Going(w)  == {A \in Trails(w) : Halts(w, A) = "on"}
Follow(w) == [A \in Going(w) |-> Goal(w, A)]
Course(w, o) == Reach(Trails(w), Follow(w), o)

LEMMA RegionKinds ==
  ASSUME NEW w, IsChart(w), NEW q \in Places(w), q.m \in 1 .. Count(w, q.g), Steering(w, q.g, q.m)
  PROVE  /\ RegionOf(w, q).op \in {"while", "for", "if"} /\ RegionOf(w, q).trips \in Nat
         /\ Sub(w, q, "x") \in Inside(w, q) /\ Sub(w, q, "y") \in Inside(w, q)
<1>1. Target(w, q.g, q.m) \in Regions(w.prog)  BY InsideLists
<1>2. Listing(w.prog, w.main)  BY DEF IsChart
<1>3. IsRegion(RegionOf(w, q)) /\ InsForm(RegionOf(w, q))
  BY <1>1, <1>2 DEF Regions, RegionOf, Listing
<1>4. Sub(w, q, "x") \in Inside(w, q) /\ Sub(w, q, "y") \in Inside(w, q)  BY DEF Sub, Inside
<1> QED BY <1>3, <1>4 DEF IsRegion, InsForm

LEMMA GoalIs ==
  ASSUME NEW w, IsChart(w), NEW A \in Trails(w), AtTiles(w, A) \/ AtRegion(w, A) \/ Depth(A) # 1
  PROVE  Goal(w, A) \in Trails(w)
<1>1. CASE AtTiles(w, A)  BY <1>1, PassedTrail DEF Goal
<1>2. CASE ~AtTiles(w, A) /\ AtRegion(w, A)
  <2>1. Inner(A) \in Places(w) /\ Inner(A).m \in 1 .. Count(w, Inner(A).g) /\ Steering(w, Inner(A).g, Inner(A).m)
    BY <1>2, TrailFacts DEF AtRegion
  <2>2. /\ RegionOf(w, Inner(A)).trips \in Nat
        /\ Sub(w, Inner(A), "x") \in Inside(w, Inner(A)) /\ Sub(w, Inner(A), "y") \in Inside(w, Inner(A))
    BY <2>1, RegionKinds
  <2>3. Onto(w, A.at, Sub(w, Inner(A), "x"), 0) \in Trails(w)
    <3>1. 0 \in Int  OBVIOUS
    <3> QED BY <1>2, <2>2, <3>1, EnterTrail
  <2>4. Onto(w, A.at, Sub(w, Inner(A), "y"), RegionOf(w, Inner(A)).trips) \in Trails(w)
    BY <1>2, <2>2, EnterTrail
  <2>5. Passed(A) \in Trails(w)  BY PassedTrail
  <2> QED BY <1>2, <2>3, <2>4, <2>5 DEF Goal
<1>3. CASE ~AtTiles(w, A) /\ ~AtRegion(w, A)
  <2>1. Left(A) \in Trails(w)  BY <1>3, LeftTrail
  <2> QED BY <1>3, <2>1 DEF Goal
<1> QED BY <1>1, <1>2, <1>3

LEMMA GoalTrail ==
  ASSUME NEW w, IsChart(w), NEW A \in Going(w)
  PROVE  Goal(w, A) \in Trails(w)
<1>1. A \in Trails(w) /\ Halts(w, A) = "on"  BY DEF Going
<1>2. AtTiles(w, A) \/ AtRegion(w, A) \/ Depth(A) # 1  BY <1>1 DEF Halts
<1> QED BY <1>1, <1>2, GoalIs

LEMMA FollowOn ==
  ASSUME NEW w, IsChart(w), NEW o \in Trails(w)
  PROVE  /\ o \in Course(w, o) /\ Course(w, o) \subseteq Trails(w)
         /\ \A A \in Course(w, o) : Halts(w, A) = "on" => Goal(w, A) \in Course(w, o)
         /\ \A A, B \in Course(w, o) : Halts(w, A) # "on" /\ Halts(w, B) # "on" => A = B
<1> DEFINE S == Trails(w)  next == Follow(w)
<1>1. \A B \in S \cap DOMAIN next : next[B] \in S  BY GoalTrail DEF Follow
<1>2. Course(w, o) \subseteq S  BY DEF Course, Reach
<1>3. o \in Course(w, o)  BY ReachOn DEF Course
<1>4. ASSUME NEW A \in Course(w, o), Halts(w, A) = "on" PROVE Goal(w, A) \in Course(w, o)
  <2>1. A \in Going(w)  BY <1>2, <1>4 DEF Going
  <2>2. A \in DOMAIN next /\ next[A] = Goal(w, A) /\ next[A] \in S  BY <2>1, GoalTrail DEF Follow
  <2>3. A \in Reach(S, next, o) \cap DOMAIN next  BY <2>2 DEF Course
  <2>4. next[A] \in Reach(S, next, o)
    <3> HIDE DEF S, next
    <3> QED BY <2>2, <2>3, ReachOn DEF S
  <2> QED BY <2>2, <2>4 DEF Course
<1>5. ASSUME NEW A \in Course(w, o), NEW B \in Course(w, o), Halts(w, A) # "on", Halts(w, B) # "on"
      PROVE  A = B
  <2>1. A \notin DOMAIN next /\ B \notin DOMAIN next  BY <1>5 DEF Follow, Going
  <2>2. A \in Reach(S, next, o) /\ B \in Reach(S, next, o)  BY DEF Course
  <2>3. o \in S  OBVIOUS
  <2> HIDE DEF S, next
  <2> QED BY <1>1, <2>1, <2>2, <2>3, OneEnd
<1> QED BY <1>2, <1>3, <1>4, <1>5

\* Lane l is at one of the trails that a walk from o comes to.
Walks(w, o, l, s) == \E A \in Course(w, o) : Fits(w, l, s, A)

LEMMA LandsWalks ==
  ASSUME NEW w, IsChart(w), NEW o \in Trails(w), NEW A \in Course(w, o), NEW l, NEW s, Lands(w, l, s, A)
  PROVE  Walks(w, o, l, s)
<1>1. CASE Fits(w, l, s, A)  BY <1>1 DEF Walks
<1>2. CASE AtTiles(w, A) /\ Fits(w, l, s, Passed(A))
  <2>1. Halts(w, A) = "on" /\ Goal(w, A) = Passed(A)  BY <1>2 DEF Halts, Goal
  <2>2. Passed(A) \in Course(w, o)  BY <2>1, FollowOn
  <2> QED BY <1>2, <2>2 DEF Walks
<1> QED BY <1>1, <1>2 DEF Lands

------------------------------------------------------------------------------
(* All lanes stopped at one trail *)

\* The control entry around lane l's list.
OwnerOf(w, l, s) == w.streams[l][Last(s).widx]
EntryOf(w, l, s) == w.streams[l][Last(s).pc]

LEMMA AnewWalks ==
  ASSUME NEW w, IsChart(w), NEW o \in Trails(w), NEW l, NEW s, Lands(w, l, s, o)
  PROVE  Walks(w, o, l, s)
BY FollowOn, LandsWalks

LEMMA BarrierPassed ==
  ASSUME NEW w, IsChart(w), NEW A \in Trails(w), Halts(w, A) = "barrier"
  PROVE  \E o \in Trails(w) : \A l \in LaneIds : \A s :
           Fits(w, l, s, A) => Walks(w, o, l, Step(s))
<1>1. A.past /\ ~AtClose(w, A)
  <2>1. ~AtTiles(w, A) /\ ~AtRegion(w, A)  BY DEF Halts
  <2>2. ~AtClose(w, A)  BY <2>1, RegionKinds DEF Halts, Shuts
  <2> QED BY <2>1, <2>2, TrailFacts DEF AtTiles, AtRegion
<1>2. ASSUME NEW l \in LaneIds, NEW s, Fits(w, l, s, A)
      PROVE  Onward(A) \in Trails(w) /\ Walks(w, Onward(A), l, Step(s))
  <2>1. Onward(A) \in Trails(w) /\ Lands(w, l, Step(s), Onward(A))  BY <1>1, <1>2, BarrierStepped
  <2> QED BY <2>1, AnewWalks
<1>3. CASE Onward(A) \in Trails(w)  BY <1>2, <1>3
<1>4. CASE Onward(A) \notin Trails(w)  BY <1>2, <1>4
<1> QED BY <1>3, <1>4

LEMMA ListClosed ==
  ASSUME NEW w, IsChart(w), NEW A \in Trails(w), Halts(w, A) \in {"for", "cond", "body"}
  PROVE  /\ AtClose(w, A) /\ Depth(A) # 1
         /\ Sub(w, Around(A), "x") \in Inside(w, Around(A)) /\ Sub(w, Around(A), "y") \in Inside(w, Around(A))
         /\ \A l \in LaneIds : \A s : Fits(w, l, s, A) =>
              /\ OwnerOf(w, l, s).x = Stretch(w, Sub(w, Around(A), "x"), l)
              /\ OwnerOf(w, l, s).y = Stretch(w, Sub(w, Around(A), "y"), l)
              /\ OwnerOf(w, l, s).flag = RegionOf(w, Around(A)).dst
<1>1. AtClose(w, A) /\ Depth(A) # 1  BY DEF Halts
<1>2. Around(A) \in Places(w) /\ Nests(w, Around(A), Inner(A).g)  BY <1>1, TrailFacts
<1>3. Sub(w, Around(A), "x") \in Inside(w, Around(A)) /\ Sub(w, Around(A), "y") \in Inside(w, Around(A))
  BY DEF Sub, Inside
<1>4. ASSUME NEW l \in LaneIds, NEW s, Fits(w, l, s, A)
      PROVE  /\ OwnerOf(w, l, s).x = Stretch(w, Sub(w, Around(A), "x"), l)
             /\ OwnerOf(w, l, s).y = Stretch(w, Sub(w, Around(A), "y"), l)
             /\ OwnerOf(w, l, s).flag = RegionOf(w, Around(A)).dst
  <2>1. Directs(w, l, Around(A), OwnerOf(w, l, s))  BY <1>1, <1>4, Sight DEF OwnerOf
  <2> QED BY <2>1 DEF Directs, Sub
<1> QED BY <1>1, <1>3, <1>4

\* Round a loop again, into sub-list side, or out of it.
LEMMA LoopTurned ==
  ASSUME NEW w, IsChart(w), NEW A \in Trails(w), Halts(w, A) \in {"for", "cond", "body"},
         NEW ph \in Int
  PROVE  /\ \E o \in Trails(w) : \A l \in LaneIds : \A s :
              Fits(w, l, s, A) => Walks(w, o, l, Rewound(s, OwnerOf(w, l, s).x, ph))
         /\ \E o \in Trails(w) : \A l \in LaneIds : \A s :
              Fits(w, l, s, A) => Walks(w, o, l, Rewound(s, OwnerOf(w, l, s).y, ph))
         /\ \E o \in Trails(w) : \A l \in LaneIds : \A s :
              Fits(w, l, s, A) => Walks(w, o, l, Popped(s))
<1> DEFINE q == Around(A)
<1>1. /\ Depth(A) # 1 /\ Sub(w, q, "x") \in Inside(w, q) /\ Sub(w, q, "y") \in Inside(w, q)
      /\ \A l \in LaneIds : \A s : Fits(w, l, s, A) =>
           /\ OwnerOf(w, l, s).x = Stretch(w, Sub(w, q, "x"), l)
           /\ OwnerOf(w, l, s).y = Stretch(w, Sub(w, q, "y"), l)
  BY ListClosed
<1>2. ASSUME NEW g \in Inside(w, q)
      PROVE  /\ Again(w, A, g, ph) \in Trails(w)
             /\ \A l \in LaneIds : \A s : Fits(w, l, s, A) =>
                  Walks(w, Again(w, A, g, ph), l, Rewound(s, Stretch(w, g, l), ph))
  <2>1. Again(w, A, g, ph) \in Trails(w)  BY <1>1, AgainTrail
  <2>2. ASSUME NEW l \in LaneIds, NEW s, Fits(w, l, s, A)
        PROVE  Walks(w, Again(w, A, g, ph), l, Rewound(s, Stretch(w, g, l), ph))
    <3>1. Lands(w, l, Rewound(s, Stretch(w, g, l), ph), Again(w, A, g, ph))  BY <1>1, <2>2, RewindFits
    <3> QED BY <2>1, <3>1, AnewWalks
  <2> QED BY <2>1, <2>2
<1>3. /\ Left(A) \in Trails(w)
      /\ \A l \in LaneIds : \A s : Fits(w, l, s, A) => Walks(w, Left(A), l, Popped(s))
  <2>1. Left(A) \in Trails(w)  BY <1>1, LeftTrail
  <2>2. ASSUME NEW l \in LaneIds, NEW s, Fits(w, l, s, A) PROVE Walks(w, Left(A), l, Popped(s))
    <3>1. Fits(w, l, Popped(s), Left(A))  BY <1>1, <2>2, PopFits
    <3> QED BY <2>1, <3>1, AnewWalks DEF Lands
  <2> QED BY <2>1, <2>2
<1>4. \E o \in Trails(w) : \A l \in LaneIds : \A s :
        Fits(w, l, s, A) => Walks(w, o, l, Rewound(s, OwnerOf(w, l, s).x, ph))
  <2> DEFINE o == Again(w, A, Sub(w, q, "x"), ph)
  <2>1. o \in Trails(w) /\ \A l \in LaneIds : \A s : Fits(w, l, s, A) =>
          Walks(w, o, l, Rewound(s, Stretch(w, Sub(w, q, "x"), l), ph))
    BY <1>1, <1>2
  <2> HIDE DEF o, q
  <2>2. \A l \in LaneIds : \A s : Fits(w, l, s, A) => Walks(w, o, l, Rewound(s, OwnerOf(w, l, s).x, ph))
    BY <1>1, <2>1
  <2> QED BY <2>1, <2>2
<1>5. \E o \in Trails(w) : \A l \in LaneIds : \A s :
        Fits(w, l, s, A) => Walks(w, o, l, Rewound(s, OwnerOf(w, l, s).y, ph))
  <2> DEFINE o == Again(w, A, Sub(w, q, "y"), ph)
  <2>1. o \in Trails(w) /\ \A l \in LaneIds : \A s : Fits(w, l, s, A) =>
          Walks(w, o, l, Rewound(s, Stretch(w, Sub(w, q, "y"), l), ph))
    BY <1>1, <1>2
  <2> HIDE DEF o, q
  <2>2. \A l \in LaneIds : \A s : Fits(w, l, s, A) => Walks(w, o, l, Rewound(s, OwnerOf(w, l, s).y, ph))
    BY <1>1, <2>1
  <2> QED BY <2>1, <2>2
<1> QED BY <1>3, <1>4, <1>5

\* A lane with nothing in a branch has been through it, wherever walks go on past
\* tiles and leave branches.
Leaves(w, C) ==
  \A B \in C : /\ AtTiles(w, B) => Passed(B) \in C
               /\ AtClose(w, B) /\ Depth(B) # 1 /\ RegionOf(w, Around(B)).op = "if" => Left(B) \in C

LEMMA BranchSkipped ==
  ASSUME NEW w, IsChart(w), NEW A \in Trails(w), AtRegion(w, A), RegionOf(w, Inner(A)).op = "if",
         NEW g \in Inside(w, Inner(A)), NEW ph \in Int, NEW l \in LaneIds, From(w, g, l) = To(w, g, l),
         NEW C, Onto(w, A.at, g, ph) \in C, Leaves(w, C)
  PROVE  Passed(A) \in C
<1> DEFINE o == Onto(w, A.at, g, ph)
<1>1. /\ g \in w.lists /\ o \in Trails(w) /\ Inner(o) = Begun(w, g, ph) /\ Around(o) = Inner(A)
      /\ Depth(o) = Depth(A) + 1 /\ o.past = (Count(w, g) = 0) /\ Front(o.at) = A.at
  BY EnterTrail
<1>2. Begun(w, g, ph).g = g /\ Begun(w, g, ph).m = (IF Count(w, g) = 0 THEN 0 ELSE 1)  BY DEF Begun
<1>3. /\ Count(w, g) \in Nat /\ From(w, g, l) \in Nat
      /\ \A m \in 1 .. Count(w, g) : LevelSpot(w, g, m, l)
  BY <1>1, ListSpots
<1>4. Depth(o) # 1  BY <1>1, TrailFacts
<1>5. o \in C  OBVIOUS
<1>6. ASSUME NEW B \in C, B.at = o.at, AtClose(w, B)
      PROVE  Passed(A) \in C
  <2>1. Around(B) = Inner(A) /\ Depth(B) # 1 /\ Left(B) = Passed(A)
    BY <1>1, <1>4, <1>6 DEF Around, Depth, Left, Passed
  <2> QED BY <1>6, <2>1 DEF Leaves
<1>7. CASE Count(w, g) = 0
  <2>1. AtClose(w, o)  BY <1>1, <1>2, <1>7 DEF AtClose
  <2> QED BY <1>5, <1>6, <2>1
<1>8. CASE Count(w, g) # 0
  <2>1. 1 \in 1 .. Count(w, g) /\ LevelSpot(w, g, 1, l)  BY <1>3, <1>8
  <2>2. PICK a \in Nat, c \in Nat, d \in Nat :
          a = From(w, g, l) /\ c = Pos(w, g, 1, l) /\ d = Beyond(w, g, 1, l) /\ a <= c /\ c <= d /\ d <= a
    BY <1>3, <2>1 DEF LevelSpot
  <2>3. Count(w, g) = 1  BY <2>1, <2>2, <1>3 DEF LevelSpot
  <2>4. ~Steering(w, g, 1)
    <3>1. CASE Steering(w, g, 1)
      <4>1. Beyond(w, g, 1, l) = Pos(w, g, 1, l) + 1  BY <1>1, <2>1, <3>1, LevelEntries DEF RegionLevel
      <4> QED BY <2>2, <4>1
    <3> QED BY <3>1
  <2>5. AtTiles(w, o)  BY <1>1, <1>2, <1>8, <2>4 DEF AtTiles
  <2>6. Passed(o) \in C  BY <1>5, <2>5 DEF Leaves
  <2>7. Passed(o).past /\ Passed(o).at = o.at /\ Inner(Passed(o)) = Inner(o)  BY DEF Passed, Inner
  <2>8. AtClose(w, Passed(o))  BY <1>1, <1>2, <2>3, <2>7 DEF AtClose
  <2> QED BY <1>6, <2>6, <2>7, <2>8
<1> QED BY <1>7, <1>8

LEMMA CourseLeaves ==
  ASSUME NEW w, IsChart(w), NEW o \in Trails(w) PROVE Leaves(w, Course(w, o))
<1> SUFFICES ASSUME NEW B \in Course(w, o)
             PROVE  /\ AtTiles(w, B) => Passed(B) \in Course(w, o)
                    /\ AtClose(w, B) /\ Depth(B) # 1 /\ RegionOf(w, Around(B)).op = "if" => Left(B) \in Course(w, o)
  BY DEF Leaves
<1>1. Halts(w, B) = "on" => Goal(w, B) \in Course(w, o)  BY FollowOn
<1>2. AtTiles(w, B) => Halts(w, B) = "on" /\ Goal(w, B) = Passed(B)  BY DEF Halts, Goal
<1>3. AtClose(w, B) /\ Depth(B) # 1 /\ RegionOf(w, Around(B)).op = "if" => Halts(w, B) = "on" /\ Goal(w, B) = Left(B)
  BY DEF AtClose, AtTiles, AtRegion, Halts, Shuts, Goal
<1> QED BY <1>1, <1>2, <1>3

LEMMA BranchStart ==
  ASSUME NEW w, IsChart(w), NEW A \in Trails(w), Halts(w, A) = "if"
  PROVE  /\ AtRegion(w, A) /\ RegionOf(w, Inner(A)).op = "if"
         /\ Sub(w, Inner(A), "x") \in Inside(w, Inner(A)) /\ Sub(w, Inner(A), "y") \in Inside(w, Inner(A))
         /\ \A l \in LaneIds : \A s : Fits(w, l, s, A) =>
              /\ EntryOf(w, l, s).x = Stretch(w, Sub(w, Inner(A), "x"), l)
              /\ EntryOf(w, l, s).y = Stretch(w, Sub(w, Inner(A), "y"), l)
              /\ EntryOf(w, l, s).flag = RegionOf(w, Inner(A)).dst
<1>1. AtRegion(w, A) /\ RegionOf(w, Inner(A)).op = "if"  BY DEF Halts, Shuts
<1>2. Sub(w, Inner(A), "x") \in Inside(w, Inner(A)) /\ Sub(w, Inner(A), "y") \in Inside(w, Inner(A))
  BY DEF Sub, Inside
<1>3. ASSUME NEW l \in LaneIds, NEW s, Fits(w, l, s, A)
      PROVE  /\ EntryOf(w, l, s).x = Stretch(w, Sub(w, Inner(A), "x"), l)
             /\ EntryOf(w, l, s).y = Stretch(w, Sub(w, Inner(A), "y"), l)
             /\ EntryOf(w, l, s).flag = RegionOf(w, Inner(A)).dst
  <2>1. Directs(w, l, Inner(A), EntryOf(w, l, s))  BY <1>1, <1>3, Sight DEF EntryOf, Finds
  <2> QED BY <2>1 DEF Directs, Sub
<1> QED BY <1>1, <1>2, <1>3

\* Into one side of a branch.
InBranch(s, r) == IF r.len = 0 THEN Step(s) ELSE Pushed(s, r, 2)

LEMMA BranchTaken ==
  ASSUME NEW w, IsChart(w), NEW A \in Trails(w), Halts(w, A) = "if", NEW taken \in BOOLEAN
  PROVE  \E o \in Trails(w) : \A l \in LaneIds : \A s : Fits(w, l, s, A) =>
           Walks(w, o, l, InBranch(s, IF taken THEN EntryOf(w, l, s).x ELSE EntryOf(w, l, s).y))
<1> DEFINE q == Inner(A)
           g == IF taken THEN Sub(w, q, "x") ELSE Sub(w, q, "y")
           o == Onto(w, A.at, g, 2)
<1>1. /\ AtRegion(w, A) /\ RegionOf(w, q).op = "if" /\ g \in Inside(w, q)
      /\ \A l \in LaneIds : \A s : Fits(w, l, s, A) =>
           (IF taken THEN EntryOf(w, l, s).x ELSE EntryOf(w, l, s).y) = Stretch(w, g, l)
  BY BranchStart
<1>2. g \in w.lists /\ o \in Trails(w)  BY <1>1, EnterTrail
<1>3. ASSUME NEW l \in LaneIds, NEW s, Fits(w, l, s, A) PROVE Walks(w, o, l, InBranch(s, Stretch(w, g, l)))
  <2>1. Stretch(w, g, l).len = 0 => From(w, g, l) = To(w, g, l)  BY <1>2, StretchIs
  <2>2. CASE Stretch(w, g, l).len = 0
    <3>1. Fits(w, l, Step(s), Passed(A))  BY <1>1, <1>3, StepOver
    <3>2. Passed(A) \in Course(w, o)  BY <1>1, <1>2, <2>1, <2>2, BranchSkipped, CourseLeaves, FollowOn
    <3> QED BY <2>2, <3>1, <3>2 DEF Walks, InBranch
  <2>3. CASE Stretch(w, g, l).len # 0
    <3>1. Lands(w, l, Pushed(s, Stretch(w, g, l), 2), o)  BY <1>1, <1>3, PushFits
    <3>2. Walks(w, o, l, Pushed(s, Stretch(w, g, l), 2))  BY <1>2, <3>1, AnewWalks
    <3> QED BY <2>3, <3>2 DEF InBranch
  <2> QED BY <2>2, <2>3
<1> HIDE DEF g, o
<1>4. \A l \in LaneIds : \A s : Fits(w, l, s, A) =>
        Walks(w, o, l, InBranch(s, IF taken THEN EntryOf(w, l, s).x ELSE EntryOf(w, l, s).y))
  BY <1>1, <1>3
<1> QED BY <1>2, <1>4
------------------------------------------------------------------------------
(* The beginning of a walk, and how deep it goes *)

LEMMA BranchFits ==
  ASSUME NEW w, IsChart(w), BranchesFit(w.prog, w.main), NEW A \in Trails(w), AtRegion(w, A),
         RegionOf(w, Inner(A)).op = "if"
  PROVE  Depth(A) < MaxDepth
<1>1. PICK d \in [AllLists(w.prog) -> Nat] :
        /\ d[RootList] >= 1
        /\ \A g \in AllLists(w.prog) : \A i \in Regions(w.prog) \cap Listed(w.prog, w.main, g) :
             /\ d[<<i, "x">>] > d[g] /\ d[<<i, "y">>] > d[g]
             /\ w.prog[i].op = "if" => d[g] < MaxDepth
  BY DEF BranchesFit, NestsTo
<1>2. w.lists \subseteq AllLists(w.prog)  BY DEF IsChart, StreamsOf, KnownLists
<1>3. PICK a \in Seq(Places(w)) : a = A.at /\ Chain(w, a)  BY DEF Trails, IsTrail
<1>4. /\ Inner(A) = a[Len(a)] /\ Len(a) \in Nat \ {0} /\ Inner(A) \in Places(w) /\ Depth(A) = Len(a)
      /\ Inner(A).m \in 1 .. Count(w, Inner(A).g) /\ Steering(w, Inner(A).g, Inner(A).m)
  BY <1>3, TrailFacts DEF AtRegion, Depth
<1>5. PICK n \in Nat : Len(a) = n + 1
  <2>1. Len(a) - 1 \in Nat /\ Len(a) = (Len(a) - 1) + 1  BY <1>4
  <2> QED BY <2>1
<1>6. \A k \in 0 .. n : a[k + 1] \in Places(w)
  <2>1. \A k \in 0 .. n : k + 1 \in 1 .. Len(a)  BY <1>5
  <2> QED BY <2>1, ElementOfSeq
<1>7. \A k \in 0 .. n : d[a[k + 1].g] >= k + 1
  <2> DEFINE T == {k \in 0 .. n : d[a[k + 1].g] >= k + 1}
  <2>1. 0 \in T
    <3>1. a[0 + 1].g = RootList  BY <1>3 DEF Chain
    <3>2. 0 \in 0 .. n /\ d[a[0 + 1].g] >= 0 + 1  BY <1>1, <3>1
    <3> QED BY <3>2
  <2>2. ASSUME NEW k \in 1 .. n, k - 1 \in T PROVE k \in T
    <3> DEFINE q == a[k]  h == a[k + 1].g
    <3>1. Nests(w, q, h)
      <4>1. k \in 1 .. Len(a) /\ k # Len(a)  BY <1>5
      <4> QED BY <1>3, <4>1 DEF Chain
    <3>2. q \in Places(w)
      <4>1. k - 1 \in 0 .. n /\ (k - 1) + 1 = k  OBVIOUS
      <4> QED BY <1>6, <4>1
    <3>3. q.g \in w.lists /\ q.m \in 1 .. Count(w, q.g) /\ Steering(w, q.g, q.m) /\ h \in Inside(w, q)
      BY <3>1, <3>2 DEF Nests, Places
    <3>4. Target(w, q.g, q.m) \in Regions(w.prog) \cap Listed(w.prog, w.main, q.g)
      BY <3>2, <3>3, InsideLists
    <3>5. d[h] > d[q.g] /\ h \in AllLists(w.prog)
      <4>1. h \in w.lists  BY <3>2, <3>3, InsideLists
      <4>2. q.g \in AllLists(w.prog) /\ h \in AllLists(w.prog)  BY <1>2, <3>3, <4>1
      <4> HIDE DEF q, h
      <4> QED BY <1>1, <3>3, <3>4, <4>2 DEF Inside
    <3>6. d[q.g] >= k
      <4>1. (k - 1) + 1 = k  OBVIOUS
      <4> QED BY <2>2, <4>1
    <3>7. d[h] \in Nat /\ d[q.g] \in Nat  BY <1>1, <1>2, <3>3, <3>5
    <3>8. d[h] >= k + 1
      <4>1. PICK u \in Nat, v \in Nat : u = d[h] /\ v = d[q.g]  BY <3>7
      <4>2. u > v /\ v >= k  BY <3>5, <3>6, <4>1
      <4> QED BY <4>1, <4>2
    <3> QED BY <3>8
  <2>3. \A k \in 0 .. n : k \in T
    <3> HIDE DEF T
    <3> QED BY <2>1, <2>2, Upto
  <2> QED BY <2>3
<1>8. d[Inner(A).g] >= Len(a) /\ d[Inner(A).g] < MaxDepth /\ d[Inner(A).g] \in Nat
  <2>1. n \in 0 .. n /\ Inner(A) = a[n + 1]  BY <1>4, <1>5
  <2>2. Target(w, Inner(A).g, Inner(A).m) \in Regions(w.prog) \cap Listed(w.prog, w.main, Inner(A).g)
    BY <1>4, InsideLists
  <2>3. Inner(A).g \in AllLists(w.prog)  BY <1>2, <1>4 DEF Places
  <2>4. d[Inner(A).g] < MaxDepth  BY <1>1, <2>2, <2>3 DEF RegionOf
  <2> QED BY <1>1, <1>5, <1>7, <2>1, <2>3, <2>4
<1> QED
  <2>1. PICK u \in Nat, v \in Nat : u = d[Inner(A).g] /\ v = Len(a) /\ u >= v /\ u < MaxDepth  BY <1>4, <1>8
  <2> QED BY <1>4, <2>1, MaxDepthNat

\* The beginning of the root.
RootTrail(w) == [at |-> <<Begun(w, RootList, 0)>>, past |-> Count(w, RootList) = 0]

LEMMA RootLands ==
  ASSUME NEW w, IsChart(w)
  PROVE  /\ RootTrail(w) \in Trails(w)
         /\ \A l \in LaneIds : Lands(w, l, RootWalk(w.rootLens[l]), RootTrail(w))
<1> DEFINE o == RootTrail(w)  b == Begun(w, RootList, 0)
<1>1. RootList \in w.lists  BY DEF IsChart, StreamsOf, KnownLists
<1>2. b \in Places(w) /\ b.g = RootList /\ b.ph = 0 /\ b.m = (IF Count(w, RootList) = 0 THEN 0 ELSE 1)
      /\ b.m \in 0 .. Count(w, RootList)
  BY <1>1, BegunPlace
<1> HIDE DEF b
<1>3. <<b>> \in Seq(Places(w)) /\ <<b>> # <<>> /\ Len(<<b>>) = 1 /\ <<b>>[1] = b /\ Last(<<b>>) = b
  BY <1>2 DEF Last
<1>4. o.at = <<b>> /\ o.past = (Count(w, RootList) = 0) /\ o.past \in BOOLEAN /\ Inner(o) = b
      /\ o = [at |-> <<b>>, past |-> Count(w, RootList) = 0]
  BY <1>3 DEF RootTrail, b, Inner
<1>5. o \in Trails(w)
  <2>1. Chain(w, <<b>>)  BY <1>2, <1>3 DEF Chain
  <2>2. IsTrail(w, o)
    <3>1. Last(o.at) = b /\ Chain(w, o.at)  BY <1>3, <1>4, <2>1
    <3>2. b.m = 0 => o.past /\ Count(w, b.g) = 0
      <4>1. b.m = 0 => Count(w, RootList) = 0  BY <1>2
      <4> QED BY <1>2, <1>4, <4>1
    <3> HIDE DEF o
    <3> QED BY <1>2, <3>1, <3>2 DEF IsTrail
  <2>3. o \in [at : Seq(Places(w)), past : BOOLEAN]  BY <1>3, <1>4
  <2> QED BY <2>2, <2>3 DEF Trails
<1>6. ASSUME NEW l \in LaneIds PROVE Lands(w, l, RootWalk(w.rootLens[l]), o)
  <2> DEFINE s == RootWalk(w.rootLens[l])  f == Frame(1, w.rootLens[l] + 1, RootIdx, 0)
  <2>1. From(w, RootList, l) = 1 /\ To(w, RootList, l) = w.rootLens[l] + 1 /\ To(w, RootList, l) \in Nat
    BY <1>1, ListSpots DEF IsChart, StreamsOf, RootAt, From, To
  <2>2. f \in Frames /\ f.pc = 1 /\ f.end = w.rootLens[l] + 1 /\ f.widx = RootIdx /\ f.phase = 0
    BY <2>1 DEF Frame, Frames, RootIdx
  <2> HIDE DEF f
  <2>3. s = <<f>> /\ <<f>> \in Seq(Frames) /\ Len(<<f>>) = 1 /\ <<f>>[1] = f /\ Last(<<f>>) = f
    BY <2>2 DEF RootWalk, f, Last
  <2> HIDE DEF s
  <2>4. Framing(w, l, b, f, RootIdx)  BY <1>2, <2>1, <2>2 DEF Framing
  <2>5. Stacked(w, l, s, <<b>>)
    <3>1. OwnerSpot(w, l, <<b>>, 1) = RootIdx  BY DEF OwnerSpot
    <3>2. \A k \in 1 .. Len(<<b>>) : k = 1  BY <1>3
    <3> QED BY <1>3, <2>3, <2>4, <3>1, <3>2 DEF Stacked
  <2>6. Last(s).pc = From(w, RootList, l)  BY <2>1, <2>2, <2>3
  <2>7. Lands(w, l, s, o)
    <3>1. Inner(o) = Begun(w, RootList, 0)  BY <1>4 DEF b
    <3>2. Stacked(w, l, s, o.at)  BY <1>4, <2>5
    <3> HIDE DEF o
    <3> QED BY <1>1, <1>4, <1>5, <2>6, <3>1, <3>2, ListStart
  <2> QED BY <2>7 DEF s
<1> QED BY <1>5, <1>6

LEMMA RootStart ==
  ASSUME NEW w, IsChart(w)
  PROVE  /\ RootTrail(w) \in Trails(w)
         /\ \A l \in LaneIds : Walks(w, RootTrail(w), l, RootWalk(w.rootLens[l]))
BY RootLands, AnewWalks
------------------------------------------------------------------------------
(* Places in the arena *)

\* Numbers in a list have a bound.
LEMMA ListBounded ==
  ASSUME NEW n \in Nat, NEW f \in [1 .. n -> Nat]
  PROVE  \E N \in Nat : \A k \in 1 .. n : f[k] <= N
<1> DEFINE T == {k \in 0 .. n : \E N \in Nat : \A i \in 1 .. k : f[i] <= N}
<1>1. 0 \in T
  <2>1. \A i \in 1 .. 0 : f[i] <= 0  OBVIOUS
  <2> QED BY <2>1
<1>2. ASSUME NEW k \in 1 .. n, k - 1 \in T PROVE k \in T
  <2>1. PICK N \in Nat : \A i \in 1 .. k - 1 : f[i] <= N  BY <1>2
  <2>2. PICK M \in Nat : M = f[k]  OBVIOUS
  <2>3. \A i \in 1 .. k : i = k \/ i \in 1 .. k - 1  OBVIOUS
  <2>4. \A i \in 1 .. k : f[i] <= N + M
    <3>1. ASSUME NEW i \in 1 .. k PROVE f[i] <= N + M
      <4>1. f[i] \in Nat /\ (f[i] <= N \/ f[i] = M)  BY <2>1, <2>2, <2>3
      <4> QED BY <4>1
    <3> QED BY <3>1
  <2>5. N + M \in Nat  OBVIOUS
  <2> QED BY <2>4, <2>5
<1>3. \A k \in 0 .. n : k \in T
  <2> HIDE DEF T
  <2> QED BY <1>1, <1>2, Upto
<1>4. n \in 0 .. n  OBVIOUS
<1> QED BY <1>3, <1>4

\* Buffers b and c have no address in common.
Apart(at, size, b, c) == at[b] + size[b] <= at[c] \/ at[c] + size[c] <= at[b]

\* What first fit finds is clear of the others.
LEMMA FitIsClear ==
  ASSUME NEW B, NEW size \in [B -> Nat], NEW at \in [B -> Nat], NEW others \in SUBSET B,
         NEW N \in Nat, \A c \in others : at[c] + size[c] <= N, NEW n \in Nat
  PROVE  /\ FirstFit(at, size, others, n) \in Nat
         /\ \A c \in others : \/ FirstFit(at, size, others, n) + n <= at[c]
                              \/ at[c] + size[c] <= FirstFit(at, size, others, n)
<1> DEFINE E == {0} \cup {at[c] + size[c] : c \in others}
           F == {off \in E : \A c \in others : off + n <= at[c] \/ at[c] + size[c] <= off}
<1>1. \A c \in others : at[c] + size[c] \in 0 .. N
  <2>1. \A c \in others : at[c] \in Nat /\ size[c] \in Nat /\ at[c] + size[c] \in Nat  OBVIOUS
  <2> QED BY <2>1
<1>2. E \in SUBSET (0 .. N) /\ E # {} /\ 0 \in E
  <2>1. 0 \in 0 .. N  OBVIOUS
  <2> QED BY <1>1, <2>1
<1>3. Max(E) \in E /\ \A x \in E : x <= Max(E)
  <2> HIDE DEF E
  <2> QED BY <1>2, GreatestIs
<1>4. \A c \in others : at[c] + size[c] <= Max(E)
  <2>1. \A c \in others : at[c] + size[c] \in E  OBVIOUS
  <2> HIDE DEF E
  <2> QED BY <1>3, <2>1
<1>5. Max(E) \in F
  <2> HIDE DEF E
  <2> QED BY <1>3, <1>4
<1>6. F \in SUBSET Nat /\ F # {}
  <2>1. \A x \in 0 .. N : x \in Nat  OBVIOUS
  <2>2. F \subseteq E  OBVIOUS
  <2> HIDE DEF E, F
  <2> QED BY <1>2, <1>5, <2>1, <2>2
<1>7. Min(F) \in F
  <2> HIDE DEF F
  <2> QED BY <1>6, SmallestIs
<1>8. FirstFit(at, size, others, n) = Min(F)  BY DEF FirstFit
<1> QED
  <2>1. Min(F) \in Nat
    <3> HIDE DEF F
    <3> QED BY <1>6, <1>7
  <2>2. \A c \in others : Min(F) + n <= at[c] \/ at[c] + size[c] <= Min(F)
    <3>1. \A off \in F : \A c \in others : off + n <= at[c] \/ at[c] + size[c] <= off  OBVIOUS
    <3> HIDE DEF F
    <3> QED BY <1>7, <3>1
  <2> QED BY <1>8, <2>1, <2>2

\* Sizes of buffers, and the times they live.
Lives(size, live, N) ==
  /\ DOMAIN size \subseteq Nat /\ IsFiniteSet(DOMAIN size)
  /\ size \in [DOMAIN size -> Nat] /\ live \in [DOMAIN size -> SUBSET (0 .. N)]

Alive(size, live) == {b \in DOMAIN size : live[b] # {}}

Placing(size, live) == {e \in Alive(size, live) \X Alive(size, live) : Sooner(size, live, e[1], e[2])}

LEMMA AliveRanked ==
  ASSUME NEW N \in Nat, NEW size, NEW live, Lives(size, live, N)
  PROVE  LET S == Alive(size, live)
         IN Lists(Ranked(S, LAMBDA b, c : Sooner(size, live, b, c)), Cardinality(S), S, Placing(size, live))
<1> DEFINE S == Alive(size, live)
           R == Placing(size, live)
           Width(b) == Max(live[b]) - Min(live[b])
           Less1(b, c) == \/ size[b] > size[c]
                          \/ size[b] = size[c] /\ Width(b) > Width(c)
                          \/ size[b] = size[c] /\ Width(b) = Width(c) /\ b < c
<1>1. \A b, c \in S : <<b, c>> \in R <=> Sooner(size, live, b, c)  BY DEF Placing
<1>2. \A b, c \in S : Sooner(size, live, b, c) <=> Less1(b, c)  BY DEF Sooner
<1>3. \A b \in S : size[b] \in Nat /\ b \in Nat /\ live[b] \in SUBSET (0 .. N) /\ live[b] # {}
  BY DEF Alive, Lives
<1>4. \A b \in S : Width(b) \in Int
  <2> SUFFICES ASSUME NEW b \in S PROVE Width(b) \in Int  OBVIOUS
  <2>1. live[b] \in SUBSET (0 .. N) /\ live[b] # {}  BY <1>3
  <2>2. Max(live[b]) \in live[b]  BY <2>1, GreatestIs
  <2>3. \A x \in 0 .. N : x \in Nat /\ x \in Int  OBVIOUS
  <2>4. live[b] \in SUBSET Nat  BY <2>1, <2>3
  <2>5. Min(live[b]) \in live[b]  BY <2>1, <2>4, SmallestIs
  <2>6. Max(live[b]) \in Int /\ Min(live[b]) \in Int  BY <2>1, <2>2, <2>3, <2>5
  <2> QED BY <2>6
<1> HIDE DEF Width
<1>5. \A b \in S : ~Less1(b, b)  BY <1>3, <1>4
<1>6. \A b, c \in S : b = c \/ Less1(b, c) \/ Less1(c, b)
  <2> SUFFICES ASSUME NEW b \in S, NEW c \in S PROVE b = c \/ Less1(b, c) \/ Less1(c, b)  OBVIOUS
  <2>1. size[b] \in Nat /\ size[c] \in Nat /\ b \in Nat /\ c \in Nat /\ Width(b) \in Int /\ Width(c) \in Int
    BY <1>3, <1>4
  <2> HIDE DEF S
  <2> QED BY <2>1
<1>7. \A b, c, d \in S : Less1(b, c) /\ Less1(c, d) => Less1(b, d)
  <2> SUFFICES ASSUME NEW b \in S, NEW c \in S, NEW d \in S, Less1(b, c), Less1(c, d) PROVE Less1(b, d)
    OBVIOUS
  <2>1. /\ size[b] \in Nat /\ size[c] \in Nat /\ b \in Nat /\ c \in Nat /\ Width(b) \in Int /\ Width(c) \in Int
        /\ size[d] \in Nat /\ d \in Nat /\ Width(d) \in Int
    BY <1>3, <1>4
  <2> HIDE DEF S
  <2> QED BY <2>1
<1> HIDE DEF Less1
<1>8. Orders(R, S)
  <2> HIDE DEF R, S
  <2> QED BY <1>1, <1>2, <1>5, <1>6, <1>7 DEF Orders
<1>9. IsFiniteSet(S)
  <2>1. S \in SUBSET (DOMAIN size)  BY DEF Alive
  <2>2. IsFiniteSet(DOMAIN size)  BY DEF Lives
  <2> HIDE DEF S
  <2> QED BY <2>1, <2>2, FS_Subset
<1>10. Ranked(S, LAMBDA b, c : Sooner(size, live, b, c)) = Sorted(S, R)
  <2> DEFINE low(k)  == CHOOSE x \in S : Cardinality({y \in S : Sooner(size, live, y, x)}) = k - 1
             rank(k) == CHOOSE x \in S : Cardinality({y \in S : <<y, x>> \in R}) = k - 1
  <2>1. \A x \in S : {y \in S : Sooner(size, live, y, x)} = {y \in S : <<y, x>> \in R}
    <3> HIDE DEF S, R
    <3> QED BY <1>1
  <2>2. ASSUME NEW k PROVE low(k) = rank(k)
    <3> HIDE DEF S, R
    <3> QED BY <2>1
  <2>3. Ranked(S, LAMBDA b, c : Sooner(size, live, b, c)) = [k \in 1 .. Cardinality(S) |-> low(k)]
    BY DEF Ranked
  <2>4. Sorted(S, R) = [k \in 1 .. Cardinality(S) |-> rank(k)]  BY DEF Sorted
  <2> HIDE DEF low, rank
  <2> QED BY <2>2, <2>3, <2>4
<1> HIDE DEF S, R
<1> QED BY <1>8, <1>9, <1>10, Sorting DEF S, R

\* Those placed so far are apart from those alive with them.
ApartTo(size, live, order, at, k) ==
  \A g, h \in 1 .. k : g # h /\ Overlap(live[order[g]], live[order[h]]) => Apart(at, size, order[g], order[h])

LEMMA OneMorePlaced ==
  ASSUME NEW N \in Nat, NEW size, NEW live, Lives(size, live, N),
         NEW K \in Nat, NEW order \in [1 .. K -> DOMAIN size], \A g, h \in 1 .. K : g # h => order[g] # order[h],
         NEW k \in 1 .. K, NEW at \in [DOMAIN size -> Nat], ApartTo(size, live, order, at, k - 1),
         NEW others, others = {c \in {order[j] : j \in 1 .. k - 1} : Overlap(live[order[k]], live[c])},
         NEW to, to = [at EXCEPT ![order[k]] = FirstFit(at, size, others, size[order[k]])]
  PROVE  to \in [DOMAIN size -> Nat] /\ ApartTo(size, live, order, to, k)
<1> DEFINE B == DOMAIN size
           b == order[k]
           fit == FirstFit(at, size, others, size[b])
<1>1. size \in [B -> Nat]  BY DEF Lives
<1>2. b \in B /\ size[b] \in Nat /\ k \in 1 .. K  BY <1>1
<1>3. \A j \in 1 .. k - 1 : j \in 1 .. K /\ j # k /\ order[j] \in B /\ order[j] # b
  <2>1. \A j \in 1 .. k - 1 : j \in 1 .. K /\ j # k  OBVIOUS
  <2> QED BY <2>1
<1>4. others \subseteq B  BY <1>3
<1>5. PICK M \in Nat : \A c \in others : at[c] + size[c] <= M
  <2> DEFINE f == [j \in 1 .. k - 1 |-> at[order[j]] + size[order[j]]]
  <2>1. \A j \in 1 .. k - 1 : at[order[j]] + size[order[j]] \in Nat
    <3>1. \A c \in B : at[c] + size[c] \in Nat
      <4>1. \A c \in B : at[c] \in Nat /\ size[c] \in Nat  BY <1>1
      <4> QED BY <4>1
    <3> QED BY <1>3, <3>1
  <2>2. f \in [1 .. k - 1 -> Nat] /\ k - 1 \in Nat  BY <2>1
  <2>3. PICK M \in Nat : \A j \in 1 .. k - 1 : f[j] <= M
    <3> HIDE DEF f
    <3> QED BY <2>2, ListBounded
  <2>4. \A j \in 1 .. k - 1 : at[order[j]] + size[order[j]] <= M  BY <2>3
  <2> HIDE DEF f
  <2> QED BY <2>4
<1>6. /\ fit \in Nat
      /\ \A c \in others : fit + size[b] <= at[c] \/ at[c] + size[c] <= fit
  <2> HIDE DEF B, b
  <2>1. /\ FirstFit(at, size, others, size[b]) \in Nat
        /\ \A c \in others : \/ FirstFit(at, size, others, size[b]) + size[b] <= at[c]
                             \/ at[c] + size[c] <= FirstFit(at, size, others, size[b])
    <3>1. at \in [B -> Nat] /\ others \in SUBSET B  BY <1>4 DEF B
    <3> HIDE DEF fit
    <3> QED BY <1>1, <1>2, <1>5, <3>1, FitIsClear
  <2> QED BY <2>1
<1> HIDE DEF fit
<1>7. to \in [B -> Nat] /\ to[b] = fit /\ \A c \in B : c # b => to[c] = at[c]
  <2>1. to = [at EXCEPT ![b] = fit]  BY DEF fit
  <2> QED BY <1>2, <1>6, <2>1
<1>8. ASSUME NEW j \in 1 .. k - 1, Overlap(live[b], live[order[j]])
      PROVE  Apart(to, size, b, order[j]) /\ Apart(to, size, order[j], b)
  <2>1. order[j] \in others  BY <1>8
  <2>2. to[order[j]] = at[order[j]] /\ to[b] = fit  BY <1>3, <1>7
  <2> HIDE DEF b
  <2> QED BY <1>6, <2>1, <2>2 DEF Apart
<1>9. ASSUME NEW g \in 1 .. k, NEW h \in 1 .. k, g # h, Overlap(live[order[g]], live[order[h]])
      PROVE  Apart(to, size, order[g], order[h])
  <2>1. \A j \in 1 .. k : j = k \/ j \in 1 .. k - 1  OBVIOUS
  <2>2. CASE g = k
    <3>1. h \in 1 .. k - 1  BY <1>9, <2>1, <2>2
    <3> QED BY <1>8, <1>9, <2>2, <3>1
  <2>3. CASE h = k
    <3>1. g \in 1 .. k - 1  BY <1>9, <2>1, <2>3
    <3>2. Overlap(live[b], live[order[g]])  BY <1>9, <2>3 DEF Overlap
    <3> QED BY <1>8, <2>3, <3>1, <3>2
  <2>4. CASE g # k /\ h # k
    <3>1. g \in 1 .. k - 1 /\ h \in 1 .. k - 1  BY <2>1, <2>4
    <3>2. Apart(at, size, order[g], order[h])  BY <1>9, <3>1 DEF ApartTo
    <3>3. to[order[g]] = at[order[g]] /\ to[order[h]] = at[order[h]]  BY <1>3, <1>7, <3>1
    <3> QED BY <3>2, <3>3 DEF Apart
  <2> QED BY <2>2, <2>3, <2>4
<1>10. ApartTo(size, live, order, to, k)  BY <1>9 DEF ApartTo
<1> QED BY <1>7, <1>10

LEMMA PlacedApart ==
  ASSUME NEW N \in Nat, NEW size, NEW live, Lives(size, live, N)
  PROVE  /\ Placed(size, live) \in [DOMAIN size -> Nat]
         /\ \A b, c \in Alive(size, live) :
              b # c /\ Overlap(live[b], live[c]) => Apart(Placed(size, live), size, b, c)
<1> DEFINE S == Alive(size, live)
           order == Ranked(S, LAMBDA b, c : Sooner(size, live, b, c))
           K == Cardinality(S)
           Earlier0(k) == {order[j] : j \in 1 .. k - 1}
           Place(at, k) ==
             LET b == order[k]
             IN [at EXCEPT ![b] = FirstFit(at, size, {c \in Earlier0(k) : Overlap(live[b], live[c])},
                                           size[b])]
           first == [b \in DOMAIN size |-> 0]
           Is(f) == f = [k \in 0 .. Len(order) |-> IF k = 0 THEN first ELSE Place(f[k - 1], k)]
           h == CHOOSE f : Is(f)
           T == [DOMAIN size -> Nat]
           G == [k \in 0 .. K |-> {at \in T : ApartTo(size, live, order, at, k)}]
           step == [k \in 1 .. K |-> [at \in T |-> Place(at, k)]]
<1>1. Placed(size, live) = h[Len(order)]  BY DEF Placed, Alive
<1>2. Lists(order, K, S, Placing(size, live))  BY AliveRanked
<1> HIDE DEF order, K
<1>3. K \in Nat /\ order \in [1 .. K -> S] /\ Len(order) = K /\ \A b \in S : \E k \in 1 .. K : order[k] = b
  <2> HIDE DEF S
  <2> QED BY <1>2, ListsSeq DEF Lists
<1>4. \A b \in S : ~Sooner(size, live, b, b)
  <2> SUFFICES ASSUME NEW b \in S PROVE ~Sooner(size, live, b, b)  OBVIOUS
  <2>1. b \in Nat /\ size[b] \in Nat /\ live[b] \in SUBSET (0 .. N) /\ live[b] # {}  BY DEF Alive, Lives
  <2>2. Max(live[b]) \in live[b]  BY <2>1, GreatestIs
  <2>3. \A x \in 0 .. N : x \in Nat /\ x \in Int  OBVIOUS
  <2>4. live[b] \in SUBSET Nat  BY <2>1, <2>3
  <2>5. Min(live[b]) \in live[b]  BY <2>1, <2>4, SmallestIs
  <2>6. Max(live[b]) - Min(live[b]) \in Int  BY <2>1, <2>2, <2>3, <2>5
  <2> QED BY <2>1, <2>6 DEF Sooner
<1>5. \A g, i \in 1 .. K : g # i => order[g] # order[i]
  <2> SUFFICES ASSUME NEW g \in 1 .. K, NEW i \in 1 .. K, g # i, order[g] = order[i] PROVE FALSE
    OBVIOUS
  <2>1. g < i \/ i < g  OBVIOUS
  <2>2. <<order[g], order[i]>> \in Placing(size, live) \/ <<order[i], order[g]>> \in Placing(size, live)
    BY <1>2, <2>1 DEF Lists
  <2>3. order[g] \in S /\ Sooner(size, live, order[g], order[g])  BY <1>3, <2>2 DEF Placing
  <2> QED BY <1>4, <2>3
<1>6. order \in [1 .. K -> DOMAIN size]  BY <1>3 DEF Alive
<1>7. ASSUME NEW k \in 1 .. K, NEW at \in G[k - 1]
      PROVE  Place(at, k) \in G[k]
  <2>1. k \in 0 .. K /\ k - 1 \in 0 .. K  BY <1>3
  <2>2. at \in T /\ ApartTo(size, live, order, at, k - 1)  BY <2>1
  <2> DEFINE others == {c \in {order[j] : j \in 1 .. k - 1} : Overlap(live[order[k]], live[c])}
  <2>3. Place(at, k) = [at EXCEPT ![order[k]] = FirstFit(at, size, others, size[order[k]])]  OBVIOUS
  <2>4. Place(at, k) \in T /\ ApartTo(size, live, order, Place(at, k), k)
    <3> HIDE DEF Place, others
    <3>1. others = {c \in {order[j] : j \in 1 .. k - 1} : Overlap(live[order[k]], live[c])}  BY DEF others
    <3> QED BY <1>3, <1>5, <1>6, <2>2, <2>3, <3>1, OneMorePlaced
  <2> HIDE DEF Place
  <2> QED BY <2>1, <2>4
<1>8. first \in T /\ ApartTo(size, live, order, first, 0) /\ 0 \in 0 .. K
  BY <1>3 DEF ApartTo
<1>9. Leads(K, T, G, first, step)
  <2>1. \A k \in 0 .. K : G[k] \subseteq T  OBVIOUS
  <2>2. first \in G[0]
    <3> HIDE DEF first, T
    <3> QED BY <1>8
  <2>3. \A k \in 1 .. K : \A at \in G[k - 1] : step[k][at] \in G[k]
    <3>1. \A k \in 1 .. K : k - 1 \in 0 .. K  BY <1>3
    <3>2. \A k \in 1 .. K : \A at \in G[k - 1] : at \in T  BY <2>1, <3>1
    <3>3. \A k \in 1 .. K : \A at \in T : step[k][at] = Place(at, k)  OBVIOUS
    <3> HIDE DEF G, step, T, Place
    <3> QED BY <1>7, <3>2, <3>3
  <2> HIDE DEF G, step, T, first
  <2> QED BY <2>1, <2>2, <2>3 DEF Leads
<1>10. PICK f \in [0 .. K -> T] : f[0] = first /\ \A k \in 1 .. K : f[k] = step[k][f[k - 1]]
  <2> HIDE DEF G, step, T, first
  <2> QED BY <1>3, <1>9, Reached
<1>11. Is(f)
  <2>1. \A k \in 1 .. K : k - 1 \in 0 .. K /\ f[k - 1] \in T
    <3>1. \A k \in 1 .. K : k - 1 \in 0 .. K  BY <1>3
    <3> HIDE DEF T
    <3> QED BY <1>10, <3>1
  <2>2. \A k \in 1 .. K : f[k] = Place(f[k - 1], k)
    <3>1. \A k \in 1 .. K : \A at \in T : step[k][at] = Place(at, k)  OBVIOUS
    <3> HIDE DEF T, step, Place
    <3> QED BY <1>10, <2>1, <3>1
  <2>3. \A k \in 0 .. K : f[k] = IF k = 0 THEN first ELSE Place(f[k - 1], k)
    <3>1. \A k \in 0 .. K : k = 0 \/ k \in 1 .. K  BY <1>3
    <3> HIDE DEF T, step, Place, first
    <3> QED BY <1>10, <2>2, <3>1
  <2> HIDE DEF Place, first, step, T
  <2> QED BY <1>3, <1>10, <2>3
<1>12. Is(h)  BY <1>11
<1>13. Heeds(h, K, G, first, step)
  <2>1. h[0] = first
    <3>1. 0 \in 0 .. Len(order)  BY <1>3
    <3> HIDE DEF h, Place, first
    <3> QED BY <1>12, <3>1
  <2>2. ASSUME NEW k \in 1 .. K, h[k - 1] \in G[k - 1] PROVE h[k] = step[k][h[k - 1]]
    <3>1. k \in 0 .. Len(order) /\ k # 0 /\ k - 1 \in 0 .. K  BY <1>3
    <3>2. h[k - 1] \in T
      <4> HIDE DEF h, T
      <4> QED BY <2>2, <3>1
    <3>3. h[k] = Place(h[k - 1], k)
      <4> HIDE DEF h, Place, first
      <4> QED BY <1>12, <3>1
    <3> HIDE DEF h, Place, T
    <3> QED BY <3>2, <3>3
  <2> HIDE DEF G, step, first, h
  <2> QED BY <2>1, <2>2 DEF Heeds
<1>14. h[K] \in G[K]
  <2>1. K \in 0 .. K  BY <1>3
  <2> HIDE DEF G, step, T, first, h
  <2> QED BY <1>3, <1>9, <1>13, <2>1, Kept
<1>15. Placed(size, live) \in T /\ ApartTo(size, live, order, Placed(size, live), K)
  <2>1. h[K] \in T /\ ApartTo(size, live, order, h[K], K)
    <3>1. K \in 0 .. K  BY <1>3
    <3> HIDE DEF h, T
    <3> QED BY <1>14, <3>1
  <2> HIDE DEF h, T
  <2> QED BY <1>1, <1>3, <2>1
<1>16. ASSUME NEW b \in S, NEW c \in S, b # c, Overlap(live[b], live[c])
       PROVE  Apart(Placed(size, live), size, b, c)
  <2>1. PICK g \in 1 .. K, i \in 1 .. K : order[g] = b /\ order[i] = c  BY <1>3
  <2> QED BY <1>15, <1>16, <2>1 DEF ApartTo
<1> QED BY <1>15, <1>16
------------------------------------------------------------------------------
(* When the instructions run *)

RootLevels(p, mainLen) == BuildLevels(p, Indices(SubList(1, mainLen)))

\* The instructions the list of i is in.
EnclosedIn(p, i, r) == IsRegion(p[r]) /\ i \in ToSet(Indices(p[r].x)) \cup ToSet(Indices(p[r].y))

LEMMA EnclosingIs ==
  ASSUME NEW p, NEW mainLen, Listing(p, mainLen), NEW g \in SubLists(p), NEW i \in Listed(p, mainLen, g)
  PROVE  Enclosing(p, i) = g[1]
<1>1. /\ g[1] \in Regions(p) /\ g[1] \in 1 .. Len(p) /\ g[2] \in {"x", "y"} /\ g = <<g[1], g[2]>>
      /\ Len(p) \in Nat
  BY ListFacts
<1>2. ASSUME NEW h \in SubLists(p)
      PROVE  Listed(p, mainLen, h) = ToSet(Indices(IF h[2] = "x" THEN p[h[1]].x ELSE p[h[1]].y))
  <2>1. h # RootList /\ h \in AllLists(p)  BY ListFacts DEF AllLists
  <2>2. PICK r \in Ranges : r = RangeOf(p, mainLen, h)  BY <2>1, ListFacts
  <2>3. r = IF h[2] = "x" THEN p[h[1]].x ELSE p[h[1]].y  BY <2>1, <2>2 DEF RangeOf
  <2>4. Listed(p, mainLen, h) = r.start .. r.start + r.len - 1  BY <2>2 DEF Listed
  <2>5. ToSet(Indices(r)) = r.start .. r.start + r.len - 1
    <3>1. PICK a \in Nat, n \in Nat : a = r.start /\ n = r.len  BY DEF Ranges
    <3>2. Len(Indices(r)) = n /\ \A k \in 1 .. n : Indices(r)[k] = a + k - 1
      BY <3>1, IndicesOf DEF Ranges
    <3>3. ToSet(Indices(r)) = {Indices(r)[k] : k \in 1 .. n}  BY <3>2 DEF ToSet
    <3>4. \A x \in a .. a + n - 1 : \E k \in 1 .. n : x = a + k - 1
      <4> SUFFICES ASSUME NEW x \in a .. a + n - 1 PROVE \E k \in 1 .. n : x = a + k - 1  OBVIOUS
      <4>1. x - a + 1 \in 1 .. n /\ x = a + (x - a + 1) - 1  OBVIOUS
      <4> QED BY <4>1
    <3>5. \A k \in 1 .. n : a + k - 1 \in a .. a + n - 1  OBVIOUS
    <3>6. {a + k - 1 : k \in 1 .. n} = a .. a + n - 1  BY <3>4, <3>5
    <3>7. {Indices(r)[k] : k \in 1 .. n} = {a + k - 1 : k \in 1 .. n}  BY <3>2
    <3> QED BY <3>1, <3>3, <3>6, <3>7
  <2> QED BY <2>3, <2>4, <2>5
<1>3. EnclosedIn(p, i, g[1])
  <2>1. IsRegion(p[g[1]])  BY <1>1 DEF Regions
  <2> QED BY <1>1, <1>2, <2>1 DEF EnclosedIn
<1>4. ASSUME NEW r \in 1 .. Len(p), EnclosedIn(p, i, r) PROVE r = g[1]
  <2>1. r \in Regions(p)  BY <1>4 DEF EnclosedIn, Regions
  <2>2. <<r, "x">> \in SubLists(p) /\ <<r, "y">> \in SubLists(p)  BY <2>1 DEF SubLists
  <2>3. i \in Listed(p, mainLen, <<r, "x">>) \/ i \in Listed(p, mainLen, <<r, "y">>)
    BY <1>2, <1>4, <2>2 DEF EnclosedIn
  <2>4. g = <<r, "x">> \/ g = <<r, "y">>  BY <2>2, <2>3, ListFacts DEF AllLists
  <2> QED BY <2>4
<1>5. \A r \in 1 .. Len(p) : EnclosedIn(p, i, r) <=> r = g[1]  BY <1>3, <1>4
<1>6. Enclosing(p, i) = CHOOSE r \in 1 .. Len(p) : EnclosedIn(p, i, r)  BY DEF Enclosing, EnclosedIn
<1> QED BY <1>1, <1>5, <1>6

\* What a sub-list has runs when its region does.
LEMMA SameTime ==
  ASSUME NEW p, NEW mainLen, Listing(p, mainLen), NEW levels
  PROVE  LET time == PhaseTime(p, mainLen, levels)
         IN /\ \A g \in SubLists(p) : \A i \in Listed(p, mainLen, g) : time[i] = time[g[1]]
            /\ \A i \in 1 .. mainLen :
                 time[i] = CHOOSE k \in 1 .. Len(levels) : i \in ToSet(levels[k].members)
<1> DEFINE L == Len(p)
           Own(i) == CHOOSE k \in 1 .. Len(levels) : i \in ToSet(levels[k].members)
           D == {i \in 1 .. L : i > mainLen}
           base == [i \in 1 .. L |-> Own(i)]
           V == {base[i] : i \in 1 .. L}
           up == [i \in D |-> Enclosing(p, i)]
           Is(f) == f = [i \in 1 .. L |-> IF i > mainLen THEN f[Enclosing(p, i)] ELSE Own(i)]
           h == CHOOSE f : Is(f)
<1>1. PhaseTime(p, mainLen, levels) = h  BY DEF PhaseTime
<1>2. L \in Nat /\ mainLen \in 0 .. L  BY ListFacts
<1> HIDE DEF Own
<1>3. \A i \in 1 .. L : \E g \in AllLists(p) : i \in Listed(p, mainLen, g)
  BY DEF Listing, ListForm, AllLists
<1>4. ASSUME NEW i \in D PROVE Enclosing(p, i) \in 1 .. i - 1
  <2>1. PICK g \in AllLists(p) : i \in Listed(p, mainLen, g)  BY <1>3
  <2>2. g # RootList  BY <1>2, <2>1, ListFacts
  <2>3. g \in SubLists(p)  BY <2>1, <2>2 DEF AllLists
  <2>4. Enclosing(p, i) = g[1] /\ g[1] < i /\ g[1] \in 1 .. L  BY <2>1, <2>3, EnclosingIs, ListFacts
  <2>5. i \in Nat  BY <1>2
  <2> QED BY <1>2, <2>4, <2>5
<1>5. PICK f \in [1 .. L -> V] : \A i \in 1 .. L : f[i] = IF i \in D THEN f[up[i]] ELSE base[i]
  <2>1. base \in [1 .. L -> V] /\ D \in SUBSET (1 .. L)  OBVIOUS
  <2>2. \A i \in D : up[i] \in 1 .. i - 1  BY <1>4
  <2>3. Descends(D, up)
    <3> HIDE DEF D, up
    <3> QED BY <2>2 DEF Descends
  <2> HIDE DEF base, V, D, up, L
  <2>4. \E f \in [1 .. L -> V] : Solves(f, L, D, up, base)  BY <1>2, <2>1, <2>3, Descending
  <2> QED BY <2>4 DEF Solves
<1>6. Is(f)
  <2>1. \A i \in 1 .. L : f[i] = IF i > mainLen THEN f[Enclosing(p, i)] ELSE Own(i)  BY <1>5
  <2> HIDE DEF V
  <2> QED BY <2>1
<1>7. \A i \in 1 .. L : h[i] = IF i > mainLen THEN h[Enclosing(p, i)] ELSE Own(i)
  <2>1. Is(h)  BY <1>6
  <2> HIDE DEF h
  <2> QED BY <2>1
<1> HIDE DEF h
<1>8. ASSUME NEW g \in SubLists(p), NEW i \in Listed(p, mainLen, g) PROVE h[i] = h[g[1]]
  <2>1. Enclosing(p, i) = g[1]  BY EnclosingIs
  <2>2. g \in AllLists(p) /\ RootList \in AllLists(p) /\ g # RootList  BY ListFacts DEF AllLists
  <2>3. i \in 1 .. L /\ i \notin 1 .. mainLen  BY <2>2, ListFacts
  <2>4. i > mainLen  BY <1>2, <2>3
  <2> QED BY <1>7, <2>1, <2>3, <2>4
<1>9. \A i \in 1 .. mainLen : h[i] = Own(i)
  <2>1. \A i \in 1 .. mainLen : i \in 1 .. L /\ ~(i > mainLen)  BY <1>2
  <2> QED BY <1>7, <2>1
<1> QED BY <1>1, <1>8, <1>9 DEF Own

\* An instruction of the root runs in its level.
LEMMA RootTime ==
  ASSUME NEW p, NEW mainLen, Listing(p, mainLen),
         NEW m \in 1 .. Len(RootLevels(p, mainLen)), NEW i \in Members(RootLevels(p, mainLen), m)
  PROVE  /\ PhaseTime(p, mainLen, RootLevels(p, mainLen))[i] = m
         /\ i \in Busy(p, 1 .. mainLen)
<1> DEFINE levels == RootLevels(p, mainLen)
<1>1. Layered(p, Busy(p, 1 .. mainLen), levels)
  <2>1. RootList \in AllLists(p) /\ Listed(p, mainLen, RootList) = 1 .. mainLen  BY ListFacts DEF AllLists
  <2>2. levels = ListLevels(p, mainLen, RootList)  BY DEF RootLevels, ListLevels, RangeOf
  <2> QED BY <2>1, <2>2, ListLayered
<1> HIDE DEF levels
<1>2. i \in Busy(p, 1 .. mainLen) /\ m \in 1 .. Len(levels)  BY <1>1 DEF Layered, levels
<1>3. \A k \in 1 .. Len(levels) : i \in ToSet(levels[k].members) <=> k = m
  <2> SUFFICES ASSUME NEW k \in 1 .. Len(levels), i \in ToSet(levels[k].members) PROVE k = m
    BY DEF Members, levels
  <2>1. i \in Members(levels, k) /\ i \in Members(levels, m)  BY DEF Members, levels
  <2>2. i \in Nat  BY <1>2 DEF Busy
  <2>3. ~(k < m) /\ ~(m < k)  BY <1>1, <1>2, <2>1, <2>2 DEF Layered
  <2>4. Len(levels) \in Nat
    <3>1. levels \in Seq(Levels)  BY <1>1 DEF Layered
    <3> QED BY <3>1, LenProperties
  <2> QED BY <1>2, <2>3, <2>4
<1>4. i \in 1 .. mainLen  BY <1>2 DEF Busy
<1>5. PhaseTime(p, mainLen, levels)[i] = CHOOSE k \in 1 .. Len(levels) : i \in ToSet(levels[k].members)
  BY <1>4, SameTime
<1>6. PhaseTime(p, mainLen, levels)[i] = m  BY <1>2, <1>3, <1>5
<1> QED BY <1>2, <1>6 DEF levels

Times(j) == PhaseTime(j.prog, j.main, RootLevels(j.prog, j.main))

JobLives(j) == LiveTimes(j, RootLevels(j.prog, j.main), Times(j))

\* Every instruction runs at a level of the root.
LEMMA TimesBounded ==
  ASSUME NEW j, Listing(j.prog, j.main)
  PROVE  /\ Len(RootLevels(j.prog, j.main)) \in Nat
         /\ \A i \in Busy(j.prog, 1 .. Len(j.prog)) : Times(j)[i] \in 1 .. Len(RootLevels(j.prog, j.main))
<1> DEFINE p == j.prog
           mainLen == j.main
           levels == RootLevels(p, mainLen)
           time == Times(j)
           T == {i \in Busy(p, 1 .. Len(p)) : time[i] \notin 1 .. Len(levels)}
<1>1. Layered(p, Busy(p, 1 .. mainLen), levels)
  <2>1. RootList \in AllLists(p) /\ Listed(p, mainLen, RootList) = 1 .. mainLen  BY ListFacts DEF AllLists
  <2>2. levels = ListLevels(p, mainLen, RootList)  BY DEF RootLevels, ListLevels, RangeOf
  <2> QED BY <2>1, <2>2, ListLayered
<1>2. Len(levels) \in Nat
  <2>1. levels \in Seq(Levels)  BY <1>1 DEF Layered
  <2> QED BY <2>1, LenProperties
<1>3. Len(p) \in Nat /\ mainLen \in 0 .. Len(p)  BY ListFacts
<1> HIDE DEF levels
<1>4. \A g \in SubLists(p) : \A i \in Listed(p, mainLen, g) : time[i] = time[g[1]]
  BY SameTime DEF Times, levels
<1>5. T = {}
  <2> SUFFICES ASSUME T # {} PROVE FALSE  OBVIOUS
  <2>1. T \in SUBSET Nat  BY <1>3 DEF Busy
  <2>2. PICK n \in T : \A m \in T : n <= m
    <3> HIDE DEF T
    <3> QED BY <2>1, LeastElement
  <2>3. n \in 1 .. Len(p) /\ n \in Busy(p, 1 .. Len(p)) /\ time[n] \notin 1 .. Len(levels)  BY DEF Busy
  <2>4. PICK g \in AllLists(p) : n \in Listed(p, mainLen, g)
    BY <2>3 DEF Listing, ListForm, AllLists
  <2>5. CASE g = RootList
    <3>1. n \in Busy(p, 1 .. mainLen)  BY <2>3, <2>4, <2>5, ListFacts DEF Busy
    <3>2. PICK m \in 1 .. Len(levels) : n \in Members(levels, m)  BY <1>1, <3>1 DEF Layered
    <3>3. time[n] = m  BY <3>2, RootTime DEF levels, Times
    <3> QED BY <2>3, <3>3
  <2>6. CASE g \in SubLists(p)
    <3>1. time[n] = time[g[1]]  BY <1>4, <2>4, <2>6
    <3>2. g[1] \in Regions(p) /\ g[1] \in 1 .. Len(p) /\ g[1] < n  BY <2>4, <2>6, ListFacts
    <3>3. g[1] \in Busy(p, 1 .. Len(p))  BY <3>2 DEF Busy, Regions, IsRegion
    <3>4. g[1] \in T  BY <2>3, <3>1, <3>3
    <3>5. n \in Nat /\ g[1] \in Nat  BY <2>1, <3>4
    <3> HIDE DEF T
    <3> QED BY <2>2, <3>2, <3>4, <3>5
  <2> QED BY <2>4, <2>5, <2>6 DEF AllLists
<1> QED BY <1>2, <1>5 DEF levels

LEMMA JobLivesAre ==
  ASSUME NEW j, WellFormed(j)
  PROVE  Lives(j.size, JobLives(j), Len(RootLevels(j.prog, j.main)) + 1)
<1> DEFINE levels == RootLevels(j.prog, j.main)
           time == Times(j)
           live == JobLives(j)
           N == Len(levels) + 1
           At(b) == {time[i] : i \in {i \in DOMAIN j.prog : j.prog[i].op # "nop" /\ Uses(j.prog[i], b)}}
<1>1. Listing(j.prog, j.main)  BY WellFormedListing
<1>2. Len(levels) \in Nat /\ \A i \in Busy(j.prog, 1 .. Len(j.prog)) : time[i] \in 1 .. Len(levels)
  BY <1>1, TimesBounded
<1> HIDE DEF levels, time
<1>3. /\ DOMAIN j.size \subseteq Nat /\ IsFiniteSet(DOMAIN j.size)
      /\ j.size \in [DOMAIN j.size -> Nat]
  BY DEF WellFormed, BufferForm
<1>4. \E S : j.prog \in Seq(S)  BY DEF WellFormed
<1>5. DOMAIN j.prog = 1 .. Len(j.prog)  BY <1>4, LenProperties
<1>6. ASSUME NEW b PROVE At(b) \in SUBSET (0 .. N)
  <2>1. \A i \in DOMAIN j.prog : j.prog[i].op # "nop" => time[i] \in 1 .. Len(levels)
    BY <1>2, <1>5 DEF Busy
  <2>2. \A t \in 1 .. Len(levels) : t \in 0 .. N  BY <1>2
  <2> QED BY <2>1, <2>2
<1>7. ASSUME NEW b PROVE Pinned(j, levels, b) \in SUBSET (0 .. N)
  <2>1. 1 \in 0 .. N /\ N \in 0 .. N  BY <1>2
  <2>2. Pinned(j, levels, b) \subseteq {1, N}  BY DEF Pinned, EndOfRun
  <2> QED BY <2>1, <2>2
<1>8. live = [b \in DOMAIN j.size |-> Pinned(j, levels, b) \cup At(b)]
  BY DEF JobLives, LiveTimes, levels, time
<1>9. live \in [DOMAIN j.size -> SUBSET (0 .. N)]
  <2> HIDE DEF At, N, live
  <2>1. \A b \in DOMAIN j.size : Pinned(j, levels, b) \cup At(b) \in SUBSET (0 .. N)  BY <1>6, <1>7
  <2> QED BY <1>8, <2>1
<1> HIDE DEF live, N
<1>10. Lives(j.size, live, N)  BY <1>3, <1>9, <1>10 DEF Lives
<1> QED BY <1>10 DEF live, N, levels

\* The reused arena is sound (_reuse_arena): buffers whose lives overlap, from the
\* first to the last phase that has to do with them, have no address in common,
\* in every program the lowering hands on.
THEOREM ArenaSound ==
  ASSUME NEW j, WellFormed(j)
  PROVE  /\ ReuseArena(j) \in [DOMAIN j.size -> Nat]
         /\ \A b, c \in Alive(j.size, JobLives(j)) :
              b # c /\ Overlap(JobLives(j)[b], JobLives(j)[c]) => Apart(ReuseArena(j), j.size, b, c)
<1>1. ReuseArena(j) = Placed(j.size, JobLives(j))
  BY DEF ReuseArena, AtLevels, JobLives, Times, RootLevels
<1>2. Lives(j.size, JobLives(j), Len(RootLevels(j.prog, j.main)) + 1)  BY JobLivesAre
<1>3. Len(RootLevels(j.prog, j.main)) + 1 \in Nat
  <2>1. Len(RootLevels(j.prog, j.main)) \in Nat  BY WellFormedListing, TimesBounded
  <2> QED BY <2>1
<1> QED BY <1>1, <1>2, <1>3, PlacedApart

\* In particular, what two instructions of one time use.
LEMMA SharedTime ==
  ASSUME NEW j, WellFormed(j),
         NEW i \in Busy(j.prog, 1 .. Len(j.prog)), NEW k \in Busy(j.prog, 1 .. Len(j.prog)),
         Times(j)[i] = Times(j)[k],
         NEW b \in DOMAIN j.size, NEW c \in DOMAIN j.size, b # c, Uses(j.prog[i], b), Uses(j.prog[k], c)
  PROVE  Apart(ReuseArena(j), j.size, b, c)
<1> DEFINE live == JobLives(j)
           N == Len(RootLevels(j.prog, j.main)) + 1
           t == Times(j)[i]
<1>1. \A d \in DOMAIN j.size : \A n \in DOMAIN j.prog :
        j.prog[n].op # "nop" /\ Uses(j.prog[n], d) => Times(j)[n] \in live[d]
  BY DEF JobLives, LiveTimes
<1>2. DOMAIN j.prog = 1 .. Len(j.prog)
  <2>1. \E S : j.prog \in Seq(S)  BY DEF WellFormed
  <2> QED BY <2>1, LenProperties
<1>3. t \in live[b] /\ t \in live[c]  BY <1>1, <1>2 DEF Busy
<1>4. N \in Nat
  <2>1. Len(RootLevels(j.prog, j.main)) \in Nat  BY WellFormedListing, TimesBounded
  <2> QED BY <2>1
<1>5. Lives(j.size, live, N)  BY JobLivesAre
<1> HIDE DEF live, N, t
<1>6. live[b] \in SUBSET (0 .. N) /\ live[c] \in SUBSET (0 .. N)  BY <1>5 DEF Lives
<1>7. \A S \in SUBSET (0 .. N) : t \in S => /\ t \in Nat /\ Max(S) \in Nat /\ Min(S) \in Nat
                                            /\ t <= Max(S) /\ Min(S) <= t
  <2> SUFFICES ASSUME NEW S \in SUBSET (0 .. N), t \in S
               PROVE  /\ t \in Nat /\ Max(S) \in Nat /\ Min(S) \in Nat /\ t <= Max(S) /\ Min(S) <= t
    OBVIOUS
  <2>1. \A x \in 0 .. N : x \in Nat  OBVIOUS
  <2>2. S \in SUBSET Nat /\ S # {}  BY <2>1
  <2>3. Max(S) \in S /\ t <= Max(S)  BY <1>4, <2>2, GreatestIs
  <2>4. Min(S) \in S /\ Min(S) <= t  BY <2>2, SmallestIs
  <2> QED BY <2>2, <2>3, <2>4
<1>8. Overlap(live[b], live[c])
  <2>1. PICK x \in Nat, y \in Nat, u \in Nat, v \in Nat :
          /\ x = Max(live[b]) /\ y = Min(live[b]) /\ u = Max(live[c]) /\ v = Min(live[c])
          /\ t \in Nat /\ t <= x /\ y <= t /\ t <= u /\ v <= t
    BY <1>3, <1>6, <1>7
  <2>2. ~(x < v) /\ ~(u < y)  BY <2>1
  <2> QED BY <2>1, <2>2 DEF Overlap
<1>9. b \in Alive(j.size, live) /\ c \in Alive(j.size, live)  BY <1>3 DEF Alive
<1> QED BY <1>8, <1>9, ArenaSound DEF live
=============================================================================
