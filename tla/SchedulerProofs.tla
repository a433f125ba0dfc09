-------------------------- MODULE SchedulerProofs --------------------------
(***************************************************************************)
(* What schedule_program's parts guarantee for every program, whatever its *)
(* length, the number of lanes and the costs: the phases a run is cut      *)
(* into, and the packing of one phase, from map chains through units and   *)
(* chunks to the lanes.                                                    *)
(***************************************************************************)
EXTENDS Scheduler, Recursion
------------------------------------------------------------------------------
(* The direct definition *)

\* PhaseStart is the function it is defined to be: the definition has a solution.
LEMMA PhaseStartIs ==
  ASSUME NEW p, Len(p) \in Nat
  PROVE  /\ DOMAIN PhaseStart(p) = 1 .. Len(p)
         /\ \A k \in 1 .. Len(p) :
              PhaseStart(p)[k] =
                IF k = 1 THEN 1
                ELSE IF \E i \in PhaseStart(p)[k - 1] .. k - 1 : Boundary(p[i], p[k])
                     THEN k ELSE PhaseStart(p)[k - 1]
<1> DEFINE N == Len(p)
           From(k, s) == IF k = 1 THEN 1
                         ELSE IF \E i \in s .. k - 1 : Boundary(p[i], p[k]) THEN k ELSE s
           first == 1
           step == [k \in 1 .. N |-> [s \in Nat |-> From(k, s)]]
           Is(f) == f = [k \in 1 .. N |-> From(k, f[k - 1])]
<1>1. step \in StepFuns(Nat, N) /\ first \in Nat
  BY DEF StepFuns
<1>2. \A k \in 1 .. N, s \in Nat : step[k][s] = From(k, s)
  OBVIOUS
<1> HIDE DEF N, first, step, From
<1>3. N \in Nat
  BY DEF N
<1>4. PICK f : IsRun(f, Nat, first, N, step)
  BY <1>1, <1>3, Iterated
<1>5. ASSUME NEW k \in 1 .. N PROVE f[k] = From(k, f[k - 1])
  <2>1. f[k - 1] \in Nat
    BY <1>3, <1>4 DEF IsRun
  <2>2. QED
    BY <2>1, <1>2, <1>4 DEF IsRun
<1> DEFINE g == [k \in 1 .. N |-> f[k]]
           h == CHOOSE h : Is(h)
<1>6. Is(g)
  <2>1. ASSUME NEW k \in 1 .. N PROVE f[k] = From(k, g[k - 1])
    <3>1. CASE k = 1
      BY <3>1, <1>5 DEF From
    <3>2. CASE k # 1
      BY <3>2, <1>3, <1>5
    <3>3. QED
      BY <3>1, <3>2
  <2>2. QED
    BY <2>1
<1>7. Is(h)
  BY <1>6
<1>8. PhaseStart(p) = h
  BY DEF PhaseStart, N, From
<1> HIDE DEF h
<1>9. DOMAIN h = 1 .. N /\ \A k \in 1 .. N : h[k] = From(k, h[k - 1])
  BY <1>7
<1>10. QED
  BY <1>8, <1>9 DEF From, N

------------------------------------------------------------------------------
(* Lists in ascending order *)

Less(S) == {e \in S \X S : e[1] < e[2]}

\* Ascending lists a finite set of numbers from the least to the greatest.
LEMMA AscendingLists ==
  ASSUME NEW S \in SUBSET Nat, IsFiniteSet(S)
  PROVE  Lists(Ascending(S), Cardinality(S), S, Less(S))
<1>1. Orders(Less(S), S)  BY DEF Orders, Less
<1>2. Ascending(S) = Sorted(S, Less(S))
  <2> DEFINE low(k)  == CHOOSE x \in S : Cardinality({y \in S : y < x}) = k - 1
             rank(k) == CHOOSE x \in S : Cardinality({y \in S : <<y, x>> \in Less(S)}) = k - 1
  <2>1. \A x \in S : {y \in S : y < x} = {y \in S : <<y, x>> \in Less(S)}  BY DEF Less
  <2>2. ASSUME NEW k PROVE low(k) = rank(k)
    <3> HIDE DEF Less
    <3> QED BY <2>1
  <2>3. Ascending(S) = [k \in 1 .. Cardinality(S) |-> low(k)]  BY DEF Ascending, Ranked
  <2>4. Sorted(S, Less(S)) = [k \in 1 .. Cardinality(S) |-> rank(k)]  BY DEF Sorted
  <2> HIDE DEF low, rank
  <2> QED BY <2>2, <2>3, <2>4
<1> QED BY <1>1, <1>2, Sorting
------------------------------------------------------------------------------
(* Where phases start *)

\* A phase starts at or before its members, and a start is its own phase's.
LEMMA StartsBefore ==
  ASSUME NEW p, Len(p) \in Nat
  PROVE  \A k \in 1 .. Len(p) :
           /\ PhaseStart(p)[k] \in 1 .. k
           /\ PhaseStart(p)[PhaseStart(p)[k]] = PhaseStart(p)[k]
           /\ k > 1 => PhaseStart(p)[k - 1] <= PhaseStart(p)[k]
<1> DEFINE f == PhaseStart(p)
           n == Len(p)
           Good(k) == /\ f[k] \in 1 .. k /\ f[f[k]] = f[k]
                      /\ k > 1 => f[k - 1] <= f[k]
           T == {k \in 0 .. n : k = 0 \/ Good(k)}
<1>1. \A k \in 1 .. n : (f[k] = 1 /\ k = 1) \/ (k > 1 /\ f[k] \in {k, f[k - 1]})
  <2>1. \A k \in 1 .. n : k = 1 \/ k > 1  OBVIOUS
  <2> QED BY <2>1, PhaseStartIs
<1> HIDE DEF f, n
<1>2. ASSUME NEW k \in 1 .. n, k - 1 \in T PROVE Good(k)
  <2>1. CASE k = 1  BY <1>1, <2>1
  <2>2. CASE k > 1
    <3>1. k - 1 # 0 /\ Good(k - 1)  BY <1>2, <2>2
    <3>2. CASE f[k] = k  BY <2>2, <3>1, <3>2
    <3>3. CASE f[k] = f[k - 1]  BY <2>2, <3>1, <3>3
    <3> QED BY <1>1, <2>2, <3>2, <3>3
  <2> QED BY <2>1, <2>2
<1>3. 0 \in T /\ n \in Nat  BY DEF n
<1>4. \A k \in 0 .. n : k \in T
  <2>1. \A k \in 1 .. n : k - 1 \in T => k \in T
    <3> HIDE DEF Good
    <3> QED BY <1>2
  <2> HIDE DEF T
  <2> QED BY <1>3, <2>1, Upto
<1>5. \A k \in 1 .. n : Good(k)  BY <1>4
<1> QED BY <1>5 DEF f, n

\* Later members belong to no earlier phase.
LEMMA StartsMonotonic ==
  ASSUME NEW p, Len(p) \in Nat, NEW d \in 1 .. Len(p), NEW k \in 1 .. Len(p), d <= k
  PROVE  PhaseStart(p)[d] <= PhaseStart(p)[k]
<1> DEFINE f == PhaseStart(p)
           n == Len(p)
           T == {m \in 0 .. n : m >= d => f[d] <= f[m]}
<1>1. \A m \in 1 .. n : f[m] \in Nat /\ (m > 1 => f[m - 1] <= f[m])  BY StartsBefore
<1>2. d \in 1 .. n /\ k \in 1 .. n /\ d <= k /\ n \in Nat  OBVIOUS
<1> HIDE DEF f, n
<1>3. 0 \in T  BY <1>2
<1>4. ASSUME NEW m \in 1 .. n, m - 1 \in T PROVE m \in T
  <2>1. CASE m <= d  BY <1>1, <1>2, <2>1
  <2>2. CASE m > d
    <3>1. m - 1 >= d /\ m > 1 /\ m - 1 \in 1 .. n  BY <1>2, <2>2
    <3>2. f[d] <= f[m - 1] /\ f[m - 1] <= f[m]  BY <1>1, <1>4, <3>1
    <3>3. f[d] \in Nat /\ f[m - 1] \in Nat /\ f[m] \in Nat  BY <1>1, <1>2, <3>1
    <3>4. f[d] <= f[m]  BY <3>2, <3>3
    <3> QED BY <3>4
  <2> QED BY <1>2, <2>1, <2>2
<1>5. \A m \in 0 .. n : m \in T
  <2> HIDE DEF T
  <2> QED BY <1>2, <1>3, <1>4, Upto
<1>6. k \in T  BY <1>2, <1>5
<1> QED BY <1>2, <1>6 DEF f

\* Nothing in a phase waits for anything in it.
LEMMA PhaseIsFree ==
  ASSUME NEW p, Len(p) \in Nat, NEW k \in 1 .. Len(p), NEW i \in PhaseStart(p)[k] .. k - 1
  PROVE  ~Boundary(p[i], p[k])
<1>1. PhaseStart(p)[k] \in 1 .. k  BY StartsBefore
<1>2. k > 1 /\ PhaseStart(p)[k] # k  BY <1>1
<1>3. PhaseStart(p)[k] =
        IF \E h \in PhaseStart(p)[k - 1] .. k - 1 : Boundary(p[h], p[k]) THEN k ELSE PhaseStart(p)[k - 1]
  BY <1>2, PhaseStartIs
<1>4. PhaseStart(p)[k] = PhaseStart(p)[k - 1]  BY <1>2, <1>3
<1>5. ~\E h \in PhaseStart(p)[k - 1] .. k - 1 : Boundary(p[h], p[k])  BY <1>2, <1>3
<1> QED BY <1>4, <1>5

\* The start of a phase is the last start up to each of its members.
LEMMA LastStart ==
  ASSUME NEW p, Len(p) \in Nat, NEW c \in ToSet(PhaseStart(p)), NEW k \in 1 .. Len(p), c <= k
  PROVE  c <= PhaseStart(p)[k]
<1>1. PICK h \in 1 .. Len(p) : c = PhaseStart(p)[h]  BY PhaseStartIs DEF ToSet
<1>2. c \in 1 .. Len(p) /\ PhaseStart(p)[c] = c  BY <1>1, StartsBefore
<1> QED BY <1>2, StartsMonotonic
------------------------------------------------------------------------------
(* Levels *)

\* Members(levels, m): the instructions of level m.
Members(levels, m) == ToSet(levels[m].members)

\* A list of indices in the order of the program.
Rising(s) == \A i, k \in 1 .. Len(s) : i < k => s[i] < s[k]

\* The M levels split the indices in S, in the program's order, into phases of
\* instructions of which none needs a barrier after another.
Phased(p, S, levels, M) ==
  /\ \A m \in 1 .. M :
       ~levels[m].region /\ levels[m].members \in Seq(S) /\ Members(levels, m) # {}
  /\ \A i \in S : \E m \in 1 .. M : i \in Members(levels, m)
  /\ \A g, h \in 1 .. M : g < h => \A i \in Members(levels, g), k \in Members(levels, h) : i < k
  /\ \A m \in 1 .. M : \A i, k \in Members(levels, m) : i < k => ~Boundary(p[i], p[k])

\* Where the phases of a run lie in it: from lo[m] to hi[m].
Cuts(p, n, M, lo, hi) ==
  /\ M \in Nat /\ lo \in [1 .. M -> 1 .. n] /\ hi \in [1 .. M -> 1 .. n]
  /\ \A m \in 1 .. M : lo[m] <= hi[m]
  /\ \A k \in 1 .. n : \E m \in 1 .. M : lo[m] <= k /\ k <= hi[m]
  /\ \A g, h \in 1 .. M : g < h => hi[g] < lo[h]
  /\ \A m \in 1 .. M : \A i, k \in lo[m] .. hi[m] : i < k => ~Boundary(p[i], p[k])

\* Sorted, the starts cut the run into phases.
LEMMA CutsOf ==
  ASSUME NEW p, NEW n \in Nat, Len(p) = n,
         NEW starts, NEW M, Lists(starts, M, ToSet(PhaseStart(p)), Less(ToSet(PhaseStart(p)))),
         NEW lo, lo = [m \in 1 .. M |-> starts[m]],
         NEW hi, hi = [m \in 1 .. M |-> IF m = M THEN n ELSE starts[m + 1] - 1]
  PROVE  Cuts(p, n, M, lo, hi)
<1> DEFINE f == PhaseStart(p)
           C == ToSet(f)
<1>1. \A k \in 1 .. n : f[k] \in 1 .. k /\ f[k] \in C  BY StartsBefore, PhaseStartIs DEF ToSet
<1>2. C \subseteq 1 .. n
  <2>1. \A c \in C : \E k \in 1 .. n : c = f[k]  BY PhaseStartIs DEF ToSet
  <2>2. \A k \in 1 .. n : 1 .. k \subseteq 1 .. n  OBVIOUS
  <2> HIDE DEF f, C
  <2> QED BY <1>1, <2>1, <2>2
<1>3. \A c \in C, k \in 1 .. n : c <= k => c <= f[k]  BY LastStart
<1>4. \A k \in 1 .. n : \A i \in f[k] .. k - 1 : ~Boundary(p[i], p[k])  BY PhaseIsFree
<1>5. /\ M \in Nat /\ starts \in [1 .. M -> C]
      /\ \A c \in C : \E m \in 1 .. M : starts[m] = c
      /\ \A i, k \in 1 .. M : i < k => starts[i] < starts[k]
  BY DEF Lists, Less
<1> HIDE DEF f, C
<1>6. \A m \in 1 .. M : starts[m] \in C /\ starts[m] \in 1 .. n  BY <1>2, <1>5
<1>7. lo \in [1 .. M -> 1 .. n]  BY <1>6
<1>8. ASSUME NEW m \in 1 .. M
      PROVE  /\ hi[m] \in 1 .. n /\ starts[m] <= hi[m]
             /\ \A k \in 1 .. M : m < k => hi[m] < starts[k]
             /\ \A k \in 1 .. n : k > hi[m] => m < M /\ starts[m + 1] <= k
  <2>1. CASE m = M
    <3>1. hi[m] = n  BY <2>1
    <3>2. starts[m] \in 1 .. n  BY <1>6
    <3> QED BY <2>1, <3>1, <3>2
  <2>2. CASE m # M
    <3>0. m + 1 \in 1 .. M /\ m < m + 1  BY <1>5, <2>2
    <3>1. PICK c \in 1 .. n : c = starts[m + 1]  BY <1>6, <3>0
    <3>2. hi[m] = c - 1  BY <2>2, <3>1
    <3>3. PICK b \in 1 .. n : b = starts[m]  BY <1>6
    <3>4. b < c  BY <1>5, <3>0, <3>1, <3>3
    <3>5. ASSUME NEW k \in 1 .. M, m < k PROVE c <= starts[k]
      <4>1. CASE k = m + 1  BY <3>1, <4>1
      <4>2. CASE k # m + 1
        <5>1. m + 1 < k  BY <3>5, <4>2
        <5>2. c < starts[k]  BY <1>5, <3>0, <3>1, <5>1
        <5>3. PICK d \in 1 .. n : d = starts[k]  BY <1>6
        <5> QED BY <5>2, <5>3
      <4> QED BY <4>1, <4>2
    <3>6. ASSUME NEW k \in 1 .. M, m < k PROVE c - 1 < starts[k]
      <4>1. PICK d \in 1 .. n : d = starts[k]  BY <1>6
      <4>2. c <= d  BY <3>5, <3>6, <4>1
      <4>3. c - 1 < d  BY <4>2
      <4> QED BY <4>1, <4>3
    <3>7. c - 1 \in 1 .. n /\ b <= c - 1  BY <3>4
    <3>8. \A k \in 1 .. n : k > c - 1 => c <= k  OBVIOUS
    <3>9. m < M  BY <1>5, <2>2
    <3> QED BY <3>1, <3>2, <3>3, <3>6, <3>7, <3>8, <3>9
  <2> QED BY <2>1, <2>2
<1>9. hi \in [1 .. M -> 1 .. n]
  <2>1. \A m \in 1 .. M : (IF m = M THEN n ELSE starts[m + 1] - 1) \in 1 .. n
    <3>1. \A m \in 1 .. M : hi[m] \in 1 .. n  BY <1>8
    <3> QED BY <3>1
  <2> QED BY <2>1
\* The member k belongs to the phase that starts at f[k].
<1>10. ASSUME NEW k \in 1 .. n, NEW m \in 1 .. M, starts[m] = f[k] PROVE starts[m] <= k /\ k <= hi[m]
  <2>1. PICK a \in 1 .. n : a = f[k] /\ a <= k  BY <1>1
  <2>2. ASSUME k > hi[m] PROVE FALSE
    <3>0. m < M /\ starts[m + 1] <= k  BY <1>8, <2>2
    <3>1. m + 1 \in 1 .. M /\ m < m + 1 /\ starts[m + 1] <= k  BY <1>5, <3>0
    <3>2. PICK c \in 1 .. n : c = starts[m + 1] /\ c \in C  BY <1>6, <3>1
    <3>3. c <= a  BY <1>3, <2>1, <3>1, <3>2
    <3>4. a < c  BY <1>5, <1>10, <2>1, <3>1, <3>2
    <3> QED BY <3>3, <3>4
  <2>3. PICK h \in 1 .. n : h = hi[m]  BY <1>8
  <2> QED BY <1>10, <2>1, <2>2, <2>3
<1>11. ASSUME NEW k \in 1 .. n PROVE \E m \in 1 .. M : lo[m] <= k /\ k <= hi[m]
  <2>1. PICK m \in 1 .. M : starts[m] = f[k]  BY <1>1, <1>5
  <2> QED BY <2>1, <1>10
<1>12. ASSUME NEW m \in 1 .. M, NEW i \in lo[m] .. hi[m], NEW k \in lo[m] .. hi[m], i < k
       PROVE  ~Boundary(p[i], p[k])
  <2>1. PICK a \in 1 .. n : a = starts[m] /\ a \in C  BY <1>6
  <2>2. PICK b \in 1 .. n : b = hi[m]  BY <1>8
  <2>3. lo[m] = a  BY <2>1
  <2>4. k \in 1 .. n /\ a <= k /\ a <= i /\ i \in 1 .. n /\ k <= b  BY <2>2, <2>3
  <2>5. PICK d \in 1 .. n : d = f[k] /\ d \in C /\ d <= k  BY <1>1, <2>4
  <2>6. a <= d  BY <1>3, <2>1, <2>4, <2>5
  <2>7. PICK h \in 1 .. M : starts[h] = d  BY <1>5, <2>5
  <2>8. ~(m < h)
    <3>1. m < h => b < d  BY <1>8, <2>2, <2>7
    <3> QED BY <2>4, <2>5, <3>1
  <2>9. h < m => d < a  BY <1>5, <2>1, <2>7
  <2>10. h = m  BY <1>5, <2>6, <2>8, <2>9
  <2>11. d = a  BY <2>1, <2>7, <2>10
  <2>12. i \in d .. k - 1  BY <1>12, <2>4, <2>11
  <2> QED BY <1>4, <2>4, <2>5, <2>12
<1>13. ASSUME NEW m \in 1 .. M PROVE lo[m] <= hi[m]  BY <1>8
<1>14. ASSUME NEW g \in 1 .. M, NEW h \in 1 .. M, g < h PROVE hi[g] < lo[h]  BY <1>8, <1>14
<1> QED BY <1>5, <1>7, <1>9, <1>11, <1>12, <1>13, <1>14 DEF Cuts

\* A subsequence has the elements of its stretch.
LEMMA RunOf ==
  ASSUME NEW S, NEW s \in Seq(S), NEW a \in 1 .. Len(s), NEW b \in 1 .. Len(s), a <= b
  PROVE  /\ SubSeq(s, a, b) \in Seq({s[k] : k \in a .. b})
         /\ ToSet(SubSeq(s, a, b)) = {s[k] : k \in a .. b}
<1> DEFINE E == {s[k] : k \in a .. b}
           t == SubSeq(s, a, b)
<1>1. t \in Seq(E) /\ Len(t) = b - a + 1 /\ \A i \in 1 .. b - a + 1 : t[i] = s[a + i - 1]
  <2>1. a \in Int /\ b \in Int /\ \A i \in a .. b : s[i] \in E  OBVIOUS
  <2>2. t \in Seq(E) /\ Len(t) = (IF a <= b THEN b - a + 1 ELSE 0)
        /\ \A i \in 1 .. b - a + 1 : t[i] = s[a + i - 1]
    <3> HIDE DEF E
    <3> QED BY <2>1, SubSeqProperties
  <2> QED BY <2>2
<1>2. DOMAIN t = 1 .. b - a + 1  BY <1>1, LenProperties
<1>3. \A k \in a .. b : k - a + 1 \in 1 .. b - a + 1 /\ a + (k - a + 1) - 1 = k  OBVIOUS
<1>4. \A i \in 1 .. b - a + 1 : a + i - 1 \in a .. b  OBVIOUS
<1> HIDE DEF t
<1>5. ASSUME NEW k \in a .. b PROVE \E i \in DOMAIN t : t[i] = s[k]
  <2>1. PICK i \in 1 .. b - a + 1 : i = k - a + 1 /\ a + i - 1 = k  BY <1>3
  <2>2. t[i] = s[a + i - 1]  BY <1>1
  <2> QED BY <1>2, <2>1, <2>2
<1>6. ASSUME NEW i \in DOMAIN t PROVE \E k \in a .. b : t[i] = s[k]
  BY <1>1, <1>2, <1>4
<1>7. ToSet(t) = E  BY <1>5, <1>6 DEF ToSet
<1> QED BY <1>1, <1>7 DEF t

\* _phases cuts a straight run as Phased says.
LEMMA PhasesPhased ==
  ASSUME NEW p, NEW S, NEW s \in Seq(S), S \subseteq Nat, Rising(s)
  PROVE  \E M \in Nat : /\ Phased(p, ToSet(s), Phases(p, s), M)
                        /\ Phases(p, s) \in Seq({Phases(p, s)[m] : m \in 1 .. M})
                        /\ Len(Phases(p, s)) = M
<1> DEFINE n == Len(s)
           q == [k \in 1 .. n |-> p[s[k]]]
           C == ToSet(PhaseStart(q))
           starts == Ascending(C)
           M == Cardinality(C)
           lo == [m \in 1 .. M |-> starts[m]]
           hi == [m \in 1 .. M |-> IF m = M THEN n ELSE starts[m + 1] - 1]
           levels == Phases(p, s)
<1>1. n \in Nat /\ DOMAIN s = 1 .. n /\ \A k \in 1 .. n : s[k] \in ToSet(s) /\ s[k] \in Nat
  <2>1. n \in Nat /\ DOMAIN s = 1 .. n /\ s \in [1 .. n -> S]  BY LenProperties
  <2> HIDE DEF n
  <2> QED BY <2>1 DEF ToSet
<1>2. Len(q) = n
  <2>1. q \in Seq({q[k] : k \in 1 .. n})  BY <1>1
  <2>2. DOMAIN q = 1 .. n /\ Len(q) \in Nat /\ DOMAIN q = 1 .. Len(q)  BY <2>1, LenProperties
  <2> HIDE DEF q, n
  <2> QED BY <1>1, <2>2
<1> HIDE DEF q, n
<1>3. C \subseteq 1 .. n
  <2>1. Len(q) \in Nat  BY <1>1, <1>2
  <2>2. DOMAIN PhaseStart(q) = 1 .. n  BY <1>2, <2>1, PhaseStartIs
  <2>3. \A k \in 1 .. n : PhaseStart(q)[k] \in 1 .. k  BY <1>2, <2>1, StartsBefore
  <2>4. \A k \in 1 .. n : 1 .. k \subseteq 1 .. n  BY <1>1
  <2> QED BY <2>2, <2>3, <2>4 DEF ToSet
<1>4. IsFiniteSet(C) /\ C \in SUBSET Nat  BY <1>1, <1>3, FS_Interval, FS_Subset
<1>5. Lists(starts, M, C, Less(C))  BY <1>4, AscendingLists
<1>6. Cuts(q, n, M, lo, hi)
  <2> HIDE DEF starts, M
  <2> QED BY <1>1, <1>2, <1>5, CutsOf
<1>7. Len(starts) = M /\ M \in Nat
  <2>1. M \in Nat /\ starts \in [1 .. M -> C]  BY <1>5 DEF Lists
  <2>2. starts \in Seq(C)  BY <2>1, SeqDef
  <2>3. DOMAIN starts = 1 .. M /\ Len(starts) \in Nat /\ DOMAIN starts = 1 .. Len(starts)
    BY <2>1, <2>2, LenProperties
  <2> HIDE DEF starts, M
  <2> QED BY <2>1, <2>3
<1>8. levels = [m \in 1 .. M |-> [region |-> FALSE, members |-> SubSeq(s, lo[m], hi[m])]]
  <2>1. levels = CutAt(s, starts)  BY DEF Phases, n, q
  <2> HIDE DEF starts, M, levels
  <2> QED BY <2>1, <1>7 DEF CutAt, n
<1> HIDE DEF starts, M, C, lo, hi, levels
<1>9. ASSUME NEW m \in 1 .. M
      PROVE  /\ ~levels[m].region /\ levels[m].members \in Seq({s[k] : k \in lo[m] .. hi[m]})
             /\ Members(levels, m) = {s[k] : k \in lo[m] .. hi[m]}
             /\ \A k \in lo[m] .. hi[m] : k \in 1 .. n
  <2>0. PICK a \in 1 .. n, b \in 1 .. n : a = lo[m] /\ b = hi[m]  BY <1>6 DEF Cuts
  <2>3. \A k \in lo[m] .. hi[m] : k \in 1 .. n
    <3>1. \A k \in a .. b : k \in 1 .. n  BY <1>1
    <3> QED BY <2>0, <3>1
  <2>1. lo[m] \in 1 .. n /\ hi[m] \in 1 .. n /\ lo[m] <= hi[m]  BY <1>6 DEF Cuts
  <2>2. levels[m].members = SubSeq(s, lo[m], hi[m]) /\ levels[m].region = FALSE  BY <1>8
  <2> QED BY <2>1, <2>2, <2>3, RunOf DEF Members, n
<1>10. ASSUME NEW m \in 1 .. M
       PROVE  /\ ~levels[m].region /\ levels[m].members \in Seq(ToSet(s))
              /\ Members(levels, m) # {}
  <2>1. {s[k] : k \in lo[m] .. hi[m]} \subseteq ToSet(s)  BY <1>1, <1>9
  <2>2. PICK a \in 1 .. n, b \in 1 .. n : a = lo[m] /\ b = hi[m] /\ a <= b  BY <1>6 DEF Cuts
  <2>3. lo[m] \in lo[m] .. hi[m]  BY <2>2
  <2>4. s[lo[m]] \in Members(levels, m)  BY <2>3, <1>9
  <2> QED BY <1>9, <2>1, <2>4, SeqMonotonic
<1>11. ASSUME NEW i \in ToSet(s) PROVE \E m \in 1 .. M : i \in Members(levels, m)
  <2>1. PICK k \in 1 .. n : i = s[k]  BY <1>1 DEF ToSet
  <2>2. PICK m \in 1 .. M : lo[m] <= k /\ k <= hi[m]  BY <1>6 DEF Cuts
  <2>3. k \in lo[m] .. hi[m]
    <3>1. PICK a \in 1 .. n, b \in 1 .. n : a = lo[m] /\ b = hi[m]  BY <1>6 DEF Cuts
    <3> QED BY <2>2, <3>1
  <2> QED BY <1>9, <2>1, <2>3
<1>12. ASSUME NEW g \in 1 .. M, NEW h \in 1 .. M, g < h,
              NEW i \in Members(levels, g), NEW k \in Members(levels, h)
       PROVE  i < k
  <2>1. PICK a \in lo[g] .. hi[g] : i = s[a]  BY <1>9
  <2>2. PICK b \in lo[h] .. hi[h] : k = s[b]  BY <1>9
  <2>3. hi[g] < lo[h]  BY <1>6, <1>12 DEF Cuts
  <2>4. a \in 1 .. n /\ b \in 1 .. n  BY <1>9
  <2>5. PICK c \in 1 .. n, d \in 1 .. n : c = hi[g] /\ d = lo[h]  BY <1>6 DEF Cuts
  <2>6. a <= c /\ d <= b /\ c < d
    <3>1. PICK c1 \in 1 .. n, d1 \in 1 .. n : c1 = lo[g] /\ d1 = hi[h]  BY <1>6 DEF Cuts
    <3> QED BY <2>3, <2>5, <3>1
  <2>7. a < b  BY <2>4, <2>6
  <2> QED BY <2>1, <2>2, <2>4, <2>7 DEF Rising, n
<1>13. ASSUME NEW m \in 1 .. M, NEW i \in Members(levels, m), NEW k \in Members(levels, m), i < k
       PROVE  ~Boundary(p[i], p[k])
  <2>1. PICK a \in lo[m] .. hi[m] : i = s[a]  BY <1>9
  <2>2. PICK b \in lo[m] .. hi[m] : k = s[b]  BY <1>9
  <2>3. a \in 1 .. n /\ b \in 1 .. n  BY <1>9
  <2>4. s[a] \in Nat /\ s[b] \in Nat /\ (b < a => s[b] < s[a])  BY <1>1, <2>3 DEF Rising, n
  <2>5. a < b
    <3>1. a # b  BY <1>13, <2>1, <2>2, <2>4
    <3>2. ~(b < a)  BY <1>13, <2>1, <2>2, <2>4
    <3> QED BY <2>3, <3>1, <3>2
  <2>6. ~Boundary(q[a], q[b])  BY <1>6, <2>5 DEF Cuts
  <2> QED BY <2>1, <2>2, <2>3, <2>6 DEF q
<1>14. Phased(p, ToSet(s), levels, M)  BY <1>10, <1>11, <1>12, <1>13 DEF Phased
<1>15. levels \in Seq({levels[m] : m \in 1 .. M}) /\ Len(levels) = M
  <2> DEFINE E == {levels[m] : m \in 1 .. M}
  <2>1. DOMAIN levels = 1 .. M  BY <1>8
  <2>2. levels \in [1 .. M -> E]  BY <1>8
  <2>3. levels \in Seq(E)  BY <1>7, <2>2, SeqDef
  <2>4. Len(levels) \in Nat /\ DOMAIN levels = 1 .. Len(levels)  BY <2>3, LenProperties
  <2> HIDE DEF E
  <2>5. Len(levels) = M  BY <1>7, <2>1, <2>4
  <2> QED BY <2>3, <2>5 DEF E
<1> QED BY <1>7, <1>14, <1>15 DEF levels

------------------------------------------------------------------------------
(* The levels of a list *)

\* What is scheduled of the instructions in D.
Busy(p, D) == {i \in D : p[i].op # "nop"}

Levels == [region : BOOLEAN, members : Seq(Nat)]

\* Level m is one control instruction, or has none.
OneKind(p, levels, m) ==
  IF levels[m].region THEN \E i \in Nat : IsRegion(p[i]) /\ levels[m].members = <<i>>
  ELSE \A i \in Members(levels, m) : ~IsRegion(p[i])

\* The levels split S, in the program's order, into control instructions and
\* phases of instructions of which none needs a barrier after another.
Layered(p, S, levels) ==
  /\ levels \in Seq(Levels)
  /\ \A m \in 1 .. Len(levels) :
       /\ levels[m].members \in Seq(S) /\ Members(levels, m) \subseteq S /\ OneKind(p, levels, m)
       /\ Members(levels, m) # {}
       /\ \A i, k \in Members(levels, m) : i < k => ~Boundary(p[i], p[k])
  /\ \A i \in S : \E m \in 1 .. Len(levels) : i \in Members(levels, m)
  /\ \A g, h \in 1 .. Len(levels) : g < h =>
       \A i \in Members(levels, g), k \in Members(levels, h) : i < k

LEMMA LayersJoined ==
  ASSUME NEW p, NEW S \in SUBSET Nat, NEW T \in SUBSET Nat, \A i \in S, k \in T : i < k,
         NEW a, NEW b, Layered(p, S, a), Layered(p, T, b)
  PROVE  Layered(p, S \cup T, a \o b)
<1>1. PICK m \in Nat, n \in Nat : m = Len(a) /\ n = Len(b)
  <2>1. a \in Seq(Levels) /\ b \in Seq(Levels)  BY DEF Layered
  <2> QED BY <2>1, LenProperties
<1>2. /\ a \o b \in Seq(Levels) /\ Len(a \o b) = m + n
      /\ \A i \in 1 .. m + n : (a \o b)[i] = IF i <= m THEN a[i] ELSE b[i - m]
  BY <1>1, ConcatProperties DEF Layered
<1> DEFINE c == a \o b
           U == S \cup T
<1>3. \A g \in 1 .. m : g \in 1 .. m + n /\ c[g] = a[g]  BY <1>2
<1>4. \A g \in 1 .. n : m + g \in 1 .. m + n /\ c[m + g] = b[g]
  <2>1. \A g \in 1 .. n : m + g \in 1 .. m + n /\ ~(m + g <= m) /\ (m + g) - m = g  OBVIOUS
  <2> QED BY <2>1, <1>2
<1>5. \A g \in 1 .. m + n : g \in 1 .. m \/ \E h \in 1 .. n : g = m + h
  <2>1. \A g \in 1 .. m + n : g \in 1 .. m \/ (g - m \in 1 .. n /\ g = m + (g - m))  OBVIOUS
  <2> QED BY <2>1
<1> HIDE DEF c
<1>6. ASSUME NEW g \in 1 .. m PROVE Members(c, g) = Members(a, g) /\ (OneKind(p, c, g) <=> OneKind(p, a, g))
  BY <1>3 DEF Members, OneKind
<1>7. ASSUME NEW g \in 1 .. n PROVE Members(c, m + g) = Members(b, g) /\ (OneKind(p, c, m + g) <=> OneKind(p, b, g))
  BY <1>4 DEF Members, OneKind
<1>8. ASSUME NEW g \in 1 .. m + n
      PROVE  /\ c[g].members \in Seq(U) /\ Members(c, g) \subseteq U /\ OneKind(p, c, g)
             /\ Members(c, g) # {}
             /\ \A i, k \in Members(c, g) : i < k => ~Boundary(p[i], p[k])
  <2>1. CASE g \in 1 .. m
    <3>1. a[g].members \in Seq(S) /\ Members(a, g) \subseteq S  BY <1>1, <2>1 DEF Layered
    <3>2. c[g].members \in Seq(U)  BY <3>1, <1>3, <2>1, SeqMonotonic
    <3> QED BY <1>1, <1>6, <2>1, <3>1, <3>2 DEF Layered
  <2>2. CASE g \notin 1 .. m
    <3>1. PICK h \in 1 .. n : g = m + h  BY <1>5, <2>2
    <3>2. b[h].members \in Seq(T) /\ Members(b, h) \subseteq T  BY <1>1 DEF Layered
    <3>3. c[g].members \in Seq(U)  BY <3>1, <3>2, <1>4, SeqMonotonic
    <3> QED BY <1>1, <1>7, <3>1, <3>2, <3>3 DEF Layered
  <2> QED BY <2>1, <2>2
<1>9. ASSUME NEW i \in U PROVE \E g \in 1 .. m + n : i \in Members(c, g)
  <2>1. CASE i \in S
    <3>1. PICK g \in 1 .. m : i \in Members(a, g)  BY <1>1, <2>1 DEF Layered
    <3> QED BY <3>1, <1>3, <1>6
  <2>2. CASE i \in T
    <3>1. PICK g \in 1 .. n : i \in Members(b, g)  BY <1>1, <2>2 DEF Layered
    <3> QED BY <3>1, <1>4, <1>7
  <2> QED BY <2>1, <2>2
<1>10. ASSUME NEW g \in 1 .. m + n, NEW h \in 1 .. m + n, g < h,
              NEW i \in Members(c, g), NEW k \in Members(c, h)
       PROVE  i < k
  <2>1. CASE g \in 1 .. m /\ h \in 1 .. m
    <3>1. i \in Members(a, g) /\ k \in Members(a, h)  BY <1>6, <2>1
    <3> QED BY <1>1, <1>10, <2>1, <3>1 DEF Layered
  <2>2. CASE g \in 1 .. m /\ h \notin 1 .. m
    <3>1. PICK y \in 1 .. n : h = m + y  BY <1>5, <2>2
    <3>2. i \in Members(a, g) /\ k \in Members(b, y)  BY <1>6, <1>7, <2>2, <3>1
    <3>3. i \in S /\ k \in T  BY <1>1, <2>2, <3>2 DEF Layered
    <3> QED BY <3>3
  <2>3. CASE g \notin 1 .. m
    <3>1. PICK x \in 1 .. n : g = m + x  BY <1>5, <2>3
    <3>2. h \notin 1 .. m  BY <3>1, <1>10
    <3>3. PICK y \in 1 .. n : h = m + y  BY <1>5, <3>2
    <3>4. x < y  BY <3>1, <3>3, <1>10
    <3>5. i \in Members(b, x) /\ k \in Members(b, y)  BY <1>7, <3>1, <3>3
    <3> QED BY <1>1, <3>4, <3>5 DEF Layered
  <2> QED BY <2>1, <2>2, <2>3
<1> QED BY <1>2, <1>8, <1>9, <1>10 DEF Layered, c

\* A control instruction is a level of its own.
LEMMA RegionLayer ==
  ASSUME NEW p, NEW i \in Nat, IsRegion(p[i])
  PROVE  Layered(p, {i}, <<[region |-> TRUE, members |-> <<i>>]>>)
<1> DEFINE v == [region |-> TRUE, members |-> <<i>>]
           a == <<v>>
<1>1. v \in Levels  BY DEF Levels
<1>2. a \in Seq(Levels) /\ Len(a) = 1 /\ a[1] = v
  <2> HIDE DEF v
  <2> QED BY <1>1
<1>3. Members(a, 1) = {i}  BY <1>2 DEF Members, ToSet
<1>4. OneKind(p, a, 1)  BY <1>2 DEF OneKind
<1>5. a[1].members \in Seq({i})
  <2>1. <<i>> \in Seq({i}) /\ v.members = <<i>>  OBVIOUS
  <2> HIDE DEF a, v
  <2> QED BY <1>2, <2>1
<1>6. \A m \in 1 .. 1 : m = 1 /\ ~(m < m)  OBVIOUS
<1>7. \A j \in {i} : j = i /\ ~(j < j)  OBVIOUS
<1> HIDE DEF a
<1>8. \A m \in 1 .. 1 : /\ a[m].members \in Seq({i}) /\ Members(a, m) \subseteq {i} /\ OneKind(p, a, m)
                        /\ Members(a, m) # {}
                        /\ \A j, k \in Members(a, m) : j < k => ~Boundary(p[j], p[k])
  <2> SUFFICES ASSUME NEW m \in 1 .. 1
               PROVE  /\ a[m].members \in Seq({i}) /\ Members(a, m) \subseteq {i} /\ OneKind(p, a, m)
                      /\ Members(a, m) # {}
                      /\ \A j, k \in Members(a, m) : j < k => ~Boundary(p[j], p[k])
    OBVIOUS
  <2>1. m = 1  BY <1>6
  <2> QED BY <2>1, <1>3, <1>4, <1>5, <1>7
<1>9. \A j \in {i} : \E m \in 1 .. 1 : j \in Members(a, m)
  <2>1. 1 \in 1 .. 1  OBVIOUS
  <2> QED BY <2>1, <1>3
<1>10. \A g, h \in 1 .. 1 : ~(g < h)  OBVIOUS
<1> DEFINE n == Len(a)
<1>11. n = 1  BY <1>2
<1> HIDE DEF n
<1>12. \A m \in 1 .. n : /\ a[m].members \in Seq({i}) /\ Members(a, m) \subseteq {i} /\ OneKind(p, a, m)
                        /\ Members(a, m) # {}
                        /\ \A j, k \in Members(a, m) : j < k => ~Boundary(p[j], p[k])
  BY <1>8, <1>11
<1>13. \A j \in {i} : \E m \in 1 .. n : j \in Members(a, m)  BY <1>9, <1>11
<1>14. \A g, h \in 1 .. n : g < h => \A x \in Members(a, g), y \in Members(a, h) : x < y
  BY <1>10, <1>11
<1>15. a \in Seq(Levels)  BY <1>2
<1>16. Layered(p, {i}, a)  BY ONLY <1>12, <1>13, <1>14, <1>15 DEF Layered, n
<1> QED BY <1>16 DEF a

\* The phases of a run.
LEMMA PhaseLayers ==
  ASSUME NEW p, NEW s \in Seq(Nat), Rising(s), \A i \in ToSet(s) : ~IsRegion(p[i])
  PROVE  Layered(p, ToSet(s), Phases(p, s))
<1>1. PICK M \in Nat : /\ Phased(p, ToSet(s), Phases(p, s), M)
                       /\ Phases(p, s) \in Seq({Phases(p, s)[m] : m \in 1 .. M})
                       /\ Len(Phases(p, s)) = M
  BY PhasesPhased
<1> DEFINE a == Phases(p, s)
           S == ToSet(s)
<1>2. S \subseteq Nat
  <2>1. DOMAIN s = 1 .. Len(s) /\ \A k \in 1 .. Len(s) : s[k] \in Nat  BY ElementOfSeq, LenProperties
  <2> QED BY <2>1 DEF ToSet
<1>3. ASSUME NEW m \in 1 .. M
      PROVE  /\ a[m] \in Levels /\ ~a[m].region /\ a[m].members \in Seq(S) /\ Members(a, m) \subseteq S
  <2>1. ~a[m].region /\ a[m].members \in Seq(S)  BY <1>1 DEF Phased
  <2>2. a[m].members \in Seq(Nat)  BY <1>2, <2>1, SeqMonotonic
  <2>3. \E f, e : a[m] = [region |-> f, members |-> e]
    <3>1. PICK st : a = CutAt(s, st)  BY DEF Phases
    <3>2. DOMAIN a = 1 .. Len(st)  BY <3>1 DEF CutAt
    <3>3. m \in DOMAIN a  BY <1>1, LenProperties
    <3> QED BY <3>1, <3>2, <3>3 DEF CutAt
  <2>4. a[m].region = FALSE
    <3>1. PICK st : a = CutAt(s, st)  BY DEF Phases
    <3>2. DOMAIN a = 1 .. Len(st)  BY <3>1 DEF CutAt
    <3>3. m \in DOMAIN a  BY <1>1, LenProperties
    <3> QED BY <3>1, <3>2, <3>3 DEF CutAt
  <2>5. a[m] \in Levels
    <3>1. PICK f, e : a[m] = [region |-> f, members |-> e]  BY <2>3
    <3>2. a[m].region = f /\ a[m].members = e  BY <3>1
    <3> QED BY <3>1, <3>2, <2>2, <2>4 DEF Levels
  <2>6. Members(a, m) \subseteq S
    <3>1. PICK t \in Seq(S) : t = a[m].members  BY <2>1
    <3>2. DOMAIN t = 1 .. Len(t) /\ \A k \in 1 .. Len(t) : t[k] \in S  BY ElementOfSeq, LenProperties
    <3> QED BY <3>1, <3>2 DEF Members, ToSet
  <2> QED BY <2>1, <2>5, <2>6
<1>4. a \in Seq(Levels)
  <2>1. {a[m] : m \in 1 .. M} \subseteq Levels  BY <1>3
  <2> QED BY <1>1, <2>1, SeqMonotonic
<1>5. \A m \in 1 .. M : OneKind(p, a, m)  BY <1>3 DEF OneKind
<1>6. /\ \A m \in 1 .. M : Members(a, m) # {}
      /\ \A m \in 1 .. M : \A i, k \in Members(a, m) : i < k => ~Boundary(p[i], p[k])
      /\ \A i \in S : \E m \in 1 .. M : i \in Members(a, m)
      /\ \A g, h \in 1 .. M : g < h => \A i \in Members(a, g), k \in Members(a, h) : i < k
  BY <1>1 DEF Phased
<1> HIDE DEF a, S
<1>7. Len(a) = M  BY <1>1 DEF a
<1>8. Layered(p, S, a)  BY <1>3, <1>4, <1>5, <1>6, <1>7 DEF Layered
<1> QED BY <1>8 DEF a, S

\* The index list of a range.
LEMMA IndicesOf ==
  ASSUME NEW r, r \in [start : Nat, len : Nat]
  PROVE  Len(Indices(r)) = r.len /\ \A k \in 1 .. r.len : Indices(r)[k] = r.start + k - 1
<1>1. PICK n \in Nat, a \in Nat : n = r.len /\ a = r.start  OBVIOUS
<1>2. Indices(r) = [k \in 1 .. n |-> a + k - 1]  BY <1>1 DEF Indices
<1>3. [k \in 1 .. n |-> a + k - 1] \in [1 .. n -> Nat]  OBVIOUS
<1>4. Indices(r) \in Seq(Nat)  BY <1>2, <1>3, SeqDef
<1> DEFINE m == Len(Indices(r))
<1>5. m \in Nat /\ DOMAIN Indices(r) = 1 .. m  BY <1>4, LenProperties
<1>6. DOMAIN Indices(r) = 1 .. n  BY <1>2
<1> HIDE DEF m
<1>7. m = n  BY <1>5, <1>6
<1> QED BY <1>1, <1>2, <1>7 DEF m

\* What a step of _build_levels has made of the instructions from a to b - 1:
\* levels of the first of them and a run of the others.
Gathered(p, a, b, acc) ==
  /\ DOMAIN acc = {"levels", "seg"} /\ acc = [levels |-> acc.levels, seg |-> acc.seg]
  /\ acc.seg \in Seq(Nat) /\ Rising(acc.seg)
  /\ \E e \in a .. b :
       /\ Layered(p, Busy(p, a .. e - 1), acc.levels)
       /\ ToSet(acc.seg) = Busy(p, e .. b - 1)
       /\ \A i \in Busy(p, e .. b - 1) : ~IsRegion(p[i])

LevelStates == [levels : Seq(Levels), seg : Seq(Nat)]

\* A flush makes levels of all of them.
LEMMA Flushed ==
  ASSUME NEW p, NEW a \in Nat, NEW b \in Nat, NEW acc, Gathered(p, a, b, acc)
  PROVE  Layered(p, Busy(p, a .. b - 1), acc.levels \o Phases(p, acc.seg))
<1>1. PICK e \in a .. b : /\ Layered(p, Busy(p, a .. e - 1), acc.levels)
                          /\ ToSet(acc.seg) = Busy(p, e .. b - 1)
                          /\ \A i \in Busy(p, e .. b - 1) : ~IsRegion(p[i])
  BY DEF Gathered
<1>2. Layered(p, Busy(p, e .. b - 1), Phases(p, acc.seg))  BY <1>1, PhaseLayers DEF Gathered
<1>3. Busy(p, a .. e - 1) \in SUBSET Nat /\ Busy(p, e .. b - 1) \in SUBSET Nat
  <2>1. a .. e - 1 \subseteq Nat /\ e .. b - 1 \subseteq Nat  OBVIOUS
  <2> QED BY <2>1 DEF Busy
<1>4. \A i \in Busy(p, a .. e - 1), k \in Busy(p, e .. b - 1) : i < k
  <2>1. \A i \in a .. e - 1, k \in e .. b - 1 : i < k  OBVIOUS
  <2> QED BY <2>1 DEF Busy
<1>5. Busy(p, a .. b - 1) = Busy(p, a .. e - 1) \cup Busy(p, e .. b - 1)
  <2>1. a .. b - 1 = (a .. e - 1) \cup (e .. b - 1)  OBVIOUS
  <2> QED BY <2>1 DEF Busy
<1> QED BY <1>1, <1>2, <1>3, <1>4, <1>5, LayersJoined

\* _build_levels takes a nop, ...
LEMMA NopTaken ==
  ASSUME NEW p, NEW a \in Nat, NEW b \in Nat, a <= b, NEW acc, Gathered(p, a, b, acc),
         p[b].op = "nop"
  PROVE  Gathered(p, a, b + 1, acc)
<1>1. PICK e \in a .. b : /\ Layered(p, Busy(p, a .. e - 1), acc.levels)
                          /\ ToSet(acc.seg) = Busy(p, e .. b - 1)
                          /\ \A i \in Busy(p, e .. b - 1) : ~IsRegion(p[i])
  BY DEF Gathered
<1>2. e \in a .. b + 1 /\ (b + 1) - 1 = b  OBVIOUS
<1>3. Busy(p, e .. b) = Busy(p, e .. b - 1)
  <2>1. e .. b = (e .. b - 1) \cup {b}  OBVIOUS
  <2> QED BY <2>1 DEF Busy
<1> QED BY <1>1, <1>2, <1>3 DEF Gathered

\* ... a compute instruction, which joins the run, ...
LEMMA ComputeTaken ==
  ASSUME NEW p, NEW a \in Nat, NEW b \in Nat, a <= b, NEW acc, Gathered(p, a, b, acc),
         p[b].op # "nop", ~IsRegion(p[b])
  PROVE  Gathered(p, a, b + 1, [acc EXCEPT !.seg = Append(@, b)])
<1>1. PICK e \in a .. b : /\ Layered(p, Busy(p, a .. e - 1), acc.levels)
                          /\ ToSet(acc.seg) = Busy(p, e .. b - 1)
                          /\ \A i \in Busy(p, e .. b - 1) : ~IsRegion(p[i])
  BY DEF Gathered
<1>2. e \in a .. b + 1 /\ (b + 1) - 1 = b  OBVIOUS
<1>3. Busy(p, e .. b) = Busy(p, e .. b - 1) \cup {b}
  <2>1. e .. b = (e .. b - 1) \cup {b}  OBVIOUS
  <2> QED BY <2>1 DEF Busy
<1>4. PICK s \in Seq(Nat), n \in Nat : s = acc.seg /\ n = Len(s) /\ Rising(s)
  <2>1. acc.seg \in Seq(Nat) /\ Rising(acc.seg)  BY DEF Gathered
  <2>2. Len(acc.seg) \in Nat  BY <2>1, LenProperties
  <2> QED BY <2>1, <2>2
<1>5. PICK t : t = Append(s, b)  OBVIOUS
<1>6. /\ t \in Seq(Nat) /\ Len(t) = n + 1 /\ DOMAIN t = 1 .. n + 1 /\ t[n + 1] = b
      /\ \A i \in 1 .. n : t[i] = s[i] /\ i \in DOMAIN s
      /\ DOMAIN s = 1 .. n
  BY <1>4, <1>5, AppendProperties, LenProperties
<1>7. \A i \in 1 .. n : s[i] \in Nat /\ s[i] < b
  <2>1. \A i \in 1 .. n : s[i] \in Busy(p, e .. b - 1)  BY <1>1, <1>4, <1>6 DEF ToSet
  <2>2. \A k \in e .. b - 1 : k \in Nat /\ k < b  OBVIOUS
  <2> QED BY <2>1, <2>2 DEF Busy
<1>8. Rising(t)
  <2> SUFFICES ASSUME NEW x \in 1 .. n + 1, NEW y \in 1 .. n + 1, x < y PROVE t[x] < t[y]
    BY <1>6 DEF Rising
  <2>1. x \in 1 .. n  OBVIOUS
  <2>2. CASE y = n + 1  BY <1>6, <1>7, <2>1, <2>2
  <2>3. CASE y # n + 1
    <3>1. y \in 1 .. n  BY <2>3
    <3> QED BY <3>1, <2>1, <1>4, <1>6 DEF Rising
  <2> QED BY <2>2, <2>3
<1>9. ToSet(t) = Busy(p, e .. b)
  <2>1. \A i \in 1 .. n + 1 : i \in 1 .. n \/ i = n + 1  OBVIOUS
  <2>2. \A i \in 1 .. n : i \in 1 .. n + 1  OBVIOUS
  <2>3. n + 1 \in 1 .. n + 1  OBVIOUS
  <2>4. ToSet(t) = ToSet(s) \cup {b}  BY <1>6, <2>1, <2>2, <2>3 DEF ToSet
  <2> QED BY <2>4, <1>1, <1>3, <1>4
<1>10. PICK v : v = acc.levels  OBVIOUS
<1>11. [acc EXCEPT !.seg = Append(@, b)] = [levels |-> v, seg |-> t]
  <2>1. acc = [levels |-> v, seg |-> s]  BY <1>4, <1>10 DEF Gathered
  <2>2. [acc EXCEPT !.seg = Append(@, b)] = [acc EXCEPT !.seg = Append(acc.seg, b)]  BY DEF Gathered
  <2>3. [[levels |-> v, seg |-> s] EXCEPT !.seg = t] = [levels |-> v, seg |-> t]  OBVIOUS
  <2> QED BY ONLY <2>1, <2>2, <2>3, <1>4, <1>5
<1>12. PICK c : c = [levels |-> v, seg |-> t]  OBVIOUS
<1>13. DOMAIN c = {"levels", "seg"} /\ c.levels = v /\ c.seg = t /\ c = [levels |-> c.levels, seg |-> c.seg]
  BY <1>12
<1>14. \A i \in Busy(p, e .. b) : ~IsRegion(p[i])  BY <1>1, <1>3
<1>15. Gathered(p, a, b + 1, c)  BY <1>1, <1>2, <1>6, <1>8, <1>9, <1>10, <1>13, <1>14 DEF Gathered
<1> QED BY <1>11, <1>12, <1>15

\* ... and a control instruction, which ends it.
LEMMA RegionTaken ==
  ASSUME NEW p, NEW a \in Nat, NEW b \in Nat, a <= b, NEW acc, Gathered(p, a, b, acc), IsRegion(p[b])
  PROVE  Gathered(p, a, b + 1,
           [levels |-> Append(acc.levels \o Phases(p, acc.seg), [region |-> TRUE, members |-> <<b>>]),
            seg    |-> <<>>])
<1> DEFINE v == acc.levels \o Phases(p, acc.seg)
           q == <<[region |-> TRUE, members |-> <<b>>]>>
           c == [levels |-> v \o q, seg |-> <<>>]
<1>1. Layered(p, Busy(p, a .. b - 1), v)  BY Flushed
<1>2. Layered(p, {b}, q)  BY RegionLayer
<1> HIDE DEF v
<1>3. Append(v, [region |-> TRUE, members |-> <<b>>]) = v \o q
  <2>1. v \in Seq(Levels)  BY <1>1 DEF Layered
  <2>2. [region |-> TRUE, members |-> <<b>>] \in Levels  BY DEF Levels
  <2> QED BY <2>1, <2>2, AppendIsConcat
<1> HIDE DEF q
<1>4. Busy(p, a .. b - 1) \in SUBSET Nat /\ {b} \in SUBSET Nat
      /\ \A i \in Busy(p, a .. b - 1), k \in {b} : i < k
  <2>1. \A i \in a .. b - 1 : i \in Nat /\ i < b  OBVIOUS
  <2> QED BY <2>1 DEF Busy
<1>5. Layered(p, Busy(p, a .. b - 1) \cup {b}, v \o q)  BY <1>1, <1>2, <1>4, LayersJoined
<1>6. Busy(p, a .. b - 1) \cup {b} = Busy(p, a .. (b + 1) - 1)
  <2>1. a .. (b + 1) - 1 = (a .. b - 1) \cup {b}  OBVIOUS
  <2>2. p[b].op # "nop"  BY DEF IsRegion
  <2> QED BY <2>1, <2>2 DEF Busy
<1>7. Busy(p, b + 1 .. (b + 1) - 1) = {} /\ b + 1 \in a .. b + 1
  <2>1. b + 1 .. (b + 1) - 1 = {}  OBVIOUS
  <2> QED BY <2>1 DEF Busy
<1>8. ToSet(<<>>) = {} /\ Rising(<<>>) /\ <<>> \in Seq(Nat)  BY DEF ToSet, Rising
<1>9. DOMAIN c = {"levels", "seg"} /\ c.levels = v \o q /\ c.seg = <<>> /\ c = [levels |-> c.levels, seg |-> c.seg]
  OBVIOUS
<1>10. Layered(p, Busy(p, a .. (b + 1) - 1), v \o q)  BY <1>5, <1>6
<1> HIDE DEF c
<1>11. Gathered(p, a, b + 1, c)  BY <1>7, <1>8, <1>9, <1>10 DEF Gathered
<1> QED BY <1>3, <1>11 DEF c, v

\* _build_levels of a list.
LEMMA LevelsOf ==
  ASSUME NEW p, NEW r, r \in [start : Nat, len : Nat]
  PROVE  Layered(p, Busy(p, r.start .. r.start + r.len - 1), BuildLevels(p, Indices(r)))
<1> DEFINE N == r.len
           a == r.start
           idxs == Indices(r)
           Flush(acc) == acc.levels \o Phases(p, acc.seg)
           Take(acc, i) ==
             IF IsRegion(p[i])
             THEN [levels |-> Append(Flush(acc), [region |-> TRUE, members |-> <<i>>]),
                   seg    |-> <<>>]
             ELSE IF p[i].op = "nop" THEN acc
             ELSE [acc EXCEPT !.seg = Append(@, i)]
           first == [levels |-> <<>>, seg |-> <<>>]
           Is(f) == f = [k \in 0 .. Len(idxs) |->
                           IF k = 0 THEN first ELSE Take(f[k - 1], idxs[k])]
           h == CHOOSE f : Is(f)
           G == [k \in 0 .. N |-> {x \in LevelStates : Gathered(p, a, a + k, x)}]
           step == [k \in 1 .. N |-> [x \in LevelStates |-> Take(x, idxs[k])]]
<1>1. BuildLevels(p, idxs) = Flush(h[Len(idxs)])  BY DEF BuildLevels
<1>2. N \in Nat /\ a \in Nat /\ Len(idxs) = N /\ \A k \in 1 .. N : idxs[k] = a + k - 1  BY IndicesOf
<1>3. ASSUME NEW x, NEW b \in Nat, a <= b, Gathered(p, a, b, x)
      PROVE  Gathered(p, a, b + 1, Take(x, b))
  BY <1>2, <1>3, NopTaken, ComputeTaken, RegionTaken
<1>4. ASSUME NEW x, NEW b \in Nat, Gathered(p, a, b, x) PROVE x \in LevelStates
  <2>1. x = [levels |-> x.levels, seg |-> x.seg] /\ x.seg \in Seq(Nat) /\ x.levels \in Seq(Levels)
    BY <1>4 DEF Gathered, Layered
  <2> QED BY <2>1 DEF LevelStates
<1>5. Gathered(p, a, a, first)
  <2>1. Layered(p, {}, <<>>)
    <3>1. <<>> \in Seq(Levels) /\ Len(<<>>) = 0 /\ 1 .. 0 = {}  OBVIOUS
    <3> QED BY <3>1 DEF Layered
  <2>2. Busy(p, a .. a - 1) = {} /\ a \in a .. a
    <3>1. a .. a - 1 = {} /\ a \in a .. a  BY <1>2
    <3> QED BY <3>1 DEF Busy
  <2>3. ToSet(<<>>) = {} /\ Rising(<<>>) /\ <<>> \in Seq(Nat)  BY DEF ToSet, Rising
  <2> QED BY <2>1, <2>2, <2>3 DEF Gathered
<1> HIDE DEF N, a, idxs, first, Take
<1>6. Leads(N, LevelStates, G, first, step)
  <2>1. first \in G[0]
    <3>1. first \in LevelStates /\ a + 0 = a /\ 0 \in 0 .. N  BY <1>2, <1>4, <1>5
    <3> QED BY <3>1, <1>5
  <2>2. ASSUME NEW k \in 1 .. N, NEW x \in G[k - 1] PROVE step[k][x] \in G[k]
    <3>1. k - 1 \in 0 .. N /\ k \in 0 .. N /\ a + (k - 1) \in Nat /\ a <= a + (k - 1)
          /\ (a + (k - 1)) + 1 = a + k /\ a + k \in Nat /\ a + (k - 1) = a + k - 1
      BY <1>2
    <3>2. x \in LevelStates /\ Gathered(p, a, a + (k - 1), x)  BY <3>1
    <3>3. step[k][x] = Take(x, a + k - 1)  BY <3>2, <1>2
    <3>4. Gathered(p, a, a + k, Take(x, a + k - 1))
      <4>1. PICK b \in Nat : b = a + (k - 1) /\ b + 1 = a + k /\ a <= b /\ b = a + k - 1  BY <3>1
      <4> QED BY <4>1, <3>2, <1>3
    <3>5. Take(x, a + k - 1) \in LevelStates  BY <3>1, <3>4, <1>4
    <3> QED BY <3>1, <3>3, <3>4, <3>5
  <2>3. \A k \in 0 .. N : G[k] \subseteq LevelStates  OBVIOUS
  <2> HIDE DEF G, step
  <2> QED BY <2>1, <2>2, <2>3 DEF Leads
<1>7. PICK f \in [0 .. N -> LevelStates] : /\ f[0] = first
                                           /\ \A k \in 0 .. N : f[k] \in G[k]
                                           /\ \A k \in 1 .. N : f[k] = step[k][f[k - 1]]
  <2> HIDE DEF G, step
  <2> QED BY <1>2, <1>6, Reached
<1>8. Is(f)
  <2>1. \A k \in 1 .. N : k - 1 \in 0 .. N /\ f[k - 1] \in LevelStates  BY <1>2
  <2>2. \A k \in 1 .. N : f[k] = Take(f[k - 1], idxs[k])  BY <1>7, <2>1
  <2>3. f = [k \in 0 .. N |-> f[k]] /\ \A k \in 0 .. N : k = 0 \/ k \in 1 .. N  BY <1>2
  <2>4. \A k \in 0 .. N : f[k] = IF k = 0 THEN first ELSE Take(f[k - 1], idxs[k])  BY <1>7, <2>2, <2>3
  <2> QED BY <1>2, <2>3, <2>4
<1>9. Is(h)
  <2>1. \E g : Is(g)  BY <1>8
  <2> HIDE DEF Is
  <2> QED BY <2>1
<1> HIDE DEF h
<1>10. Heeds(h, N, G, first, step)
  <2>1. \A k \in 0 .. N : h[k] = IF k = 0 THEN first ELSE Take(h[k - 1], idxs[k])
    <3>1. h = [k \in 0 .. N |-> IF k = 0 THEN first ELSE Take(h[k - 1], idxs[k])]  BY <1>9, <1>2
    <3> QED BY <3>1
  <2>2. 0 \in 0 .. N /\ \A k \in 1 .. N : k \in 0 .. N /\ k # 0 /\ k - 1 \in 0 .. N  BY <1>2
  <2>3. h[0] = first  BY <2>1, <2>2
  <2>4. ASSUME NEW k \in 1 .. N, h[k - 1] \in G[k - 1] PROVE h[k] = step[k][h[k - 1]]
    <3>1. h[k - 1] \in LevelStates  BY <2>2, <2>4
    <3>2. h[k] = Take(h[k - 1], idxs[k])  BY <2>1, <2>2
    <3> QED BY <3>1, <3>2
  <2> HIDE DEF G, step
  <2> QED BY <2>3, <2>4 DEF Heeds
<1>11. h[N] \in G[N]
  <2>1. \A k \in 0 .. N : h[k] \in G[k]
    <3> HIDE DEF G, step
    <3> QED BY <1>2, <1>6, <1>10, Kept
  <2>2. N \in 0 .. N  BY <1>2
  <2> QED BY <2>1, <2>2
<1>12. Gathered(p, a, a + N, h[N]) /\ a + N \in Nat
  <2>1. N \in 0 .. N  BY <1>2
  <2> QED BY <1>2, <1>11, <2>1
<1>13. Layered(p, Busy(p, a .. a + N - 1), Flush(h[N]))  BY <1>2, <1>12, Flushed
<1> QED BY <1>1, <1>2, <1>13 DEF a, N, idxs
------------------------------------------------------------------------------
(* Chains *)

\* The least nonempty subsets of X that hold both ends of an edge or none.
Groups(X, E) == {c \in (SUBSET X) \ {{}} : \A e \in E : e[1] \in c <=> e[2] \in c}
Least(X, E)  == {c \in Groups(X, E) : \A d \in Groups(X, E) : d \subseteq c => d = c}

\* They are the parts of a partition, and as fine as a union-find leaves them.
LEMMA LeastPartition ==
  ASSUME NEW X, NEW E \in SUBSET (X \X X)
  PROVE  /\ \A x \in X : \E c \in Least(X, E) : x \in c
         /\ \A c, d \in Least(X, E) : \A x \in X : x \in c /\ x \in d => c = d
<1>1. ASSUME NEW x \in X PROVE \E c \in Least(X, E) : x \in c
  <2> DEFINE near == {y \in X : \A c \in Groups(X, E) : x \in c => y \in c}
  <2>1. x \in near  OBVIOUS
  <2>2. ASSUME NEW e \in E PROVE e[1] \in near <=> e[2] \in near
    <3>1. e[1] \in X /\ e[2] \in X  OBVIOUS
    <3> QED BY <3>1 DEF Groups
  <2>3. near \in Groups(X, E)  BY <2>1, <2>2 DEF Groups
  <2>4. ASSUME NEW d \in Groups(X, E), d \subseteq near PROVE d = near
    <3>1. CASE x \in d  BY <2>4, <3>1
    <3>2. CASE x \notin d
      <4>1. X \ d \in Groups(X, E)
        <5>1. x \in X \ d  BY <3>2
        <5>2. \A e \in E : e[1] \in X /\ e[2] \in X /\ (e[1] \in d <=> e[2] \in d)  BY DEF Groups
        <5> QED BY <5>1, <5>2 DEF Groups
      <4>2. near \subseteq X \ d  BY <3>2, <4>1
      <4>3. PICK y \in d : y \in X  BY DEF Groups
      <4> QED BY <2>4, <4>2, <4>3
    <3> QED BY <3>1, <3>2
  <2> HIDE DEF near
  <2>5. near \in Least(X, E)  BY <2>3, <2>4 DEF Least
  <2> QED BY <2>1, <2>5
<1>2. ASSUME NEW c \in Least(X, E), NEW d \in Least(X, E), NEW x \in X, x \in c, x \in d PROVE c = d
  <2>1. c \in Groups(X, E) /\ d \in Groups(X, E)  BY DEF Least
  <2>2. c \cap d \in Groups(X, E)
    <3>1. \A e \in E : e[1] \in X /\ e[2] \in X  OBVIOUS
    <3> QED BY <1>2, <2>1, <3>1 DEF Groups
  <2>3. c \cap d = c /\ c \cap d = d  BY <2>2 DEF Least
  <2> QED BY <2>3
<1> QED BY <1>1, <1>2

\* What edges keep is one thing throughout a group.
LEMMA LeastUniform ==
  ASSUME NEW X, NEW E \in SUBSET (X \X X), NEW f, \A e \in E : f[e[1]] = f[e[2]],
         NEW c \in Least(X, E), NEW x \in c, NEW y \in c
  PROVE  f[x] = f[y]
<1> DEFINE d == {z \in c : f[z] = f[x]}
<1>1. c \in Groups(X, E)  BY DEF Least
<1>2. d \in Groups(X, E)
  <2>1. x \in d  OBVIOUS
  <2>2. ASSUME NEW e \in E PROVE e[1] \in d <=> e[2] \in d
    <3>1. e[1] \in c <=> e[2] \in c  BY <1>1 DEF Groups
    <3> QED BY <3>1
  <2> HIDE DEF d
  <2>3. d \subseteq c  BY DEF d
  <2> QED BY <2>1, <2>2, <2>3, <1>1 DEF Groups
<1>3. d \subseteq c  OBVIOUS
<1>4. d = c
  <2> HIDE DEF d
  <2> QED BY <1>2, <1>3 DEF Least
<1> QED BY <1>4

\* The last instruction of a set that writes b, and the reads of what it wrote.
LastWriter(p, maps, b) == Max({i \in maps : b \in Writes(p[i])})

ChainEdges(p, maps) ==
  {e \in maps \X maps :
     \E b \in Reads(p[e[2]]) : {i \in maps : b \in Writes(p[i])} # {} /\ e[1] = LastWriter(p, maps, b)}

\* The chains of _map_chains are the least groups no edge leaves.
LEMMA ChainsAreLeast ==
  ASSUME NEW p, NEW maps PROVE MapChains(p, maps) = Least(maps, ChainEdges(p, maps))
  BY DEF MapChains, Least, Groups, ChainEdges, LastWriter

\* A listing is a sequence.
LEMMA ListsSeq ==
  ASSUME NEW f, NEW n, NEW S, NEW R, Lists(f, n, S, R)
  PROVE  f \in Seq(S) /\ Len(f) = n /\ n \in Nat
<1>1. n \in Nat /\ f \in [1 .. n -> S]  BY DEF Lists
<1>2. f \in Seq(S)  BY <1>1, SeqDef
<1>3. DOMAIN f = 1 .. n /\ Len(f) \in Nat /\ DOMAIN f = 1 .. Len(f)  BY <1>1, <1>2, LenProperties
<1>4. Len(f) = n  BY <1>1, <1>3
<1> QED BY <1>1, <1>2, <1>4

\* A set of numbers has its least one in it.
LEMMA SmallestIs ==
  ASSUME NEW S \in SUBSET Nat, S # {}
  PROVE  Min(S) \in S /\ \A x \in S : Min(S) <= x
<1>1. \E n \in S : \A m \in S : n <= m  BY LeastElement
<1> QED BY <1>1 DEF Min
------------------------------------------------------------------------------
(* Units *)

\* unit is a chain of the instructions in c, in the program's order.
UnitOK(p, unit, c) ==
  /\ Lists(unit.tids, Len(unit.tids), c, Less(c)) /\ c # {}
  /\ unit.tiles = NTiles(p[unit.tids[1]])
  /\ unit.cost = Len(unit.tids) * unit.tiles * UnitCost(p[unit.tids[1]])

MapsOf(p, D) == {i \in D : IsMap(p[i])}

\* The N units are chains of the sets of a partition of D, of one tile count each.
UnitsOK(p, D, U, N, set) ==
  /\ N \in Nat /\ Len(U) = N /\ set \in [1 .. N -> SUBSET D]
  /\ \A u \in 1 .. N : UnitOK(p, U[u], set[u])
  /\ \A i \in D : \E u \in 1 .. N : i \in set[u]
  /\ \A u, v \in 1 .. N : \A i \in D : i \in set[u] /\ i \in set[v] => u = v
  /\ \A u \in 1 .. N : \A i, k \in set[u] : p[i].n = p[k].n
  /\ \A e \in ChainEdges(p, MapsOf(p, D)) : \A u \in 1 .. N : e[1] \in set[u] <=> e[2] \in set[u]

\* A shaped instruction is a unit.
LEMMA OneUnit ==
  ASSUME NEW p, NEW x \in Nat PROVE UnitOK(p, Unit(p, <<x>>), {x})
<1>1. Len(<<x>>) = 1 /\ <<x>>[1] = x /\ <<x>> \in [1 .. 1 -> {x}]  OBVIOUS
<1>2. Lists(<<x>>, 1, {x}, Less({x}))
  <2>1. \A k \in 1 .. 1 : k = 1  OBVIOUS
  <2>2. 1 \in 1 .. 1  OBVIOUS
  <2> HIDE DEF Less
  <2>3. \A y \in {x} : \E k \in 1 .. 1 : <<x>>[k] = y  BY <1>1, <2>2
  <2>4. \A i, k \in 1 .. 1 : ~(i < k)  BY <2>1
  <2> QED BY <1>1, <2>3, <2>4 DEF Lists
<1>3. Unit(p, <<x>>).tids = <<x>>  BY DEF Unit
<1> QED BY <1>1, <1>2, <1>3 DEF UnitOK, Unit

\* So is a chain.
LEMMA ChainUnit ==
  ASSUME NEW p, NEW c \in SUBSET Nat, IsFiniteSet(c), c # {}
  PROVE  UnitOK(p, Unit(p, Ascending(c)), c)
<1> DEFINE a == Ascending(c)
<1>1. Lists(a, Cardinality(c), c, Less(c))  BY AscendingLists
<1>2. Len(a) = Cardinality(c)
  <2> HIDE DEF a
  <2> QED BY <1>1, ListsSeq
<1>3. Unit(p, a).tids = a  BY DEF Unit
<1> HIDE DEF a
<1> QED BY <1>1, <1>2, <1>3 DEF UnitOK, Unit, a

\* Units, as lists of the instructions in D.
ShapedOf(p, D) == Ascending({i \in D : ~IsMap(p[i])})
ChainsOf(p, D) == MapChains(p, MapsOf(p, D))
HeadsOf(p, D)  == Ascending({Min(c) : c \in ChainsOf(p, D)})
ChainAt(p, D, h) == CHOOSE c \in ChainsOf(p, D) : h \in c

ShapedUnits(p, D) == [k \in 1 .. Len(ShapedOf(p, D)) |-> Unit(p, <<ShapedOf(p, D)[k]>>)]
ChainUnits(p, D) ==
  [k \in 1 .. Len(HeadsOf(p, D)) |-> Unit(p, Ascending(ChainAt(p, D, HeadsOf(p, D)[k])))]

\* _pack_units takes the shaped instructions first, then the chains.
LEMMA UnitsAre ==
  ASSUME NEW p, NEW mem
  PROVE  Units(p, mem) = ShapedUnits(p, ToSet(mem)) \o ChainUnits(p, ToSet(mem))
  BY DEF Units, ShapedUnits, ChainUnits, ShapedOf, ChainsOf, HeadsOf, ChainAt, MapsOf

\* The units of a phase partition its instructions, if chains are of one count.
LEMMA UnitsOf ==
  ASSUME NEW p, NEW D \in SUBSET Nat, IsFiniteSet(D), NEW mem, ToSet(mem) = D,
         \A e \in ChainEdges(p, MapsOf(p, D)) : p[e[1]].n = p[e[2]].n
  PROVE  \E N, set : UnitsOK(p, D, Units(p, mem), N, set)
<1> DEFINE sh == {i \in D : ~IsMap(p[i])}
           mp == MapsOf(p, D)
           chains == ChainsOf(p, D)
           hs == {Min(c) : c \in chains}
           shaped == ShapedOf(p, D)
           heads == HeadsOf(p, D)
           Chain(h) == ChainAt(p, D, h)
           ns == Cardinality(sh)
           nh == Cardinality(hs)
           A == [k \in 1 .. ns |-> Unit(p, <<shaped[k]>>)]
           B == [k \in 1 .. nh |-> Unit(p, Ascending(Chain(heads[k])))]
           N == ns + nh
           set == [u \in 1 .. N |-> IF u <= ns THEN {shaped[u]} ELSE Chain(heads[u - ns])]
           E == ChainEdges(p, mp)
<1>1. chains = Least(mp, E) /\ E \in SUBSET (mp \X mp)  BY ChainsAreLeast DEF ChainEdges, ChainsOf
<1>2. mp \subseteq D /\ sh \subseteq D /\ mp \cap sh = {} /\ D = mp \cup sh  BY DEF MapsOf
<1>3. IsFiniteSet(sh) /\ IsFiniteSet(mp)  BY <1>2, FS_Subset
<1> HIDE DEF sh, mp, E, chains
<1>4. /\ \A x \in mp : \E c \in chains : x \in c
      /\ \A c, d \in chains : \A x \in mp : x \in c /\ x \in d => c = d
  BY <1>1, LeastPartition
<1>5. ASSUME NEW c \in chains PROVE c \subseteq mp /\ c # {} /\ c \in SUBSET Nat /\ IsFiniteSet(c)
                                    /\ \A e \in E : e[1] \in c <=> e[2] \in c
  <2>1. c \subseteq mp /\ c # {} /\ \A e \in E : e[1] \in c <=> e[2] \in c
    BY <1>1 DEF Least, Groups
  <2>2. c \in SUBSET Nat  BY <2>1, <1>2
  <2>3. IsFiniteSet(c)  BY <2>1, <1>3, FS_Subset
  <2> QED BY <2>1, <2>2, <2>3
<1>6. \A c \in chains : Min(c) \in c /\ Min(c) \in mp  BY <1>5, SmallestIs
<1>7. hs \subseteq mp /\ IsFiniteSet(hs) /\ hs \in SUBSET Nat
  <2>1. hs \subseteq mp  BY <1>6
  <2> HIDE DEF hs
  <2>2. IsFiniteSet(hs)  BY <2>1, <1>3, FS_Subset
  <2> QED BY <2>1, <2>2, <1>2
<1>8. ASSUME NEW h \in hs PROVE Chain(h) \in chains /\ h \in Chain(h)
  <2>1. \E c \in chains : h \in c  BY <1>4, <1>7
  <2>2. Chain(h) = CHOOSE c \in chains : h \in c  BY DEF ChainAt, chains
  <2> HIDE DEF hs, Chain
  <2> QED BY <2>1, <2>2
<1>9. ASSUME NEW c \in chains PROVE Min(c) \in hs /\ Chain(Min(c)) = c
  <2>1. Min(c) \in hs  OBVIOUS
  <2>2. Chain(Min(c)) \in chains /\ Min(c) \in Chain(Min(c))  BY <2>1, <1>8
  <2> HIDE DEF Chain
  <2> QED BY <2>1, <2>2, <1>4, <1>6
\* A chain is named by its head.
<1>10. ASSUME NEW g \in hs, NEW h \in hs, Chain(g) = Chain(h) PROVE g = h
  <2>1. PICK c \in chains : g = Min(c)  OBVIOUS
  <2>2. PICK d \in chains : h = Min(d)  OBVIOUS
  <2> HIDE DEF hs, Chain
  <2> QED BY <2>1, <2>2, <1>9, <1>10
<1>11. Lists(shaped, ns, sh, Less(sh)) /\ Lists(heads, nh, hs, Less(hs))
  <2>1. sh \in SUBSET Nat  BY <1>2
  <2>2. shaped = Ascending(sh) /\ heads = Ascending(hs)  BY DEF ShapedOf, HeadsOf, sh, chains
  <2> HIDE DEF hs, shaped, heads
  <2> QED BY <2>1, <2>2, <1>3, <1>7, AscendingLists
<1> HIDE DEF hs, shaped, heads, ns, nh, Chain
<1>12. Len(shaped) = ns /\ Len(heads) = nh /\ ns \in Nat /\ nh \in Nat  BY <1>11, ListsSeq
<1>13. Units(p, mem) = A \o B
  <2>1. Units(p, mem) = ShapedUnits(p, D) \o ChainUnits(p, D)  BY UnitsAre
  <2>2. ShapedUnits(p, D) = A  BY <1>12 DEF ShapedUnits, shaped
  <2>3. ChainUnits(p, D) = B  BY <1>12 DEF ChainUnits, heads, Chain
  <2> HIDE DEF A, B
  <2> QED BY <2>1, <2>2, <2>3
<1>14. /\ \A k \in 1 .. ns : shaped[k] \in sh
       /\ \A x \in sh : \E k \in 1 .. ns : shaped[k] = x
       /\ \A i, k \in 1 .. ns : shaped[i] = shaped[k] => i = k
  <2>1. \A i, k \in 1 .. ns : i < k => shaped[i] \in Nat /\ shaped[i] < shaped[k]
    BY <1>2, <1>11 DEF Lists, Less
  <2>2. \A i, k \in 1 .. ns : i = k \/ i < k \/ k < i  BY <1>12
  <2> QED BY <1>11, <2>1, <2>2 DEF Lists
<1>15. /\ \A k \in 1 .. nh : heads[k] \in hs
       /\ \A x \in hs : \E k \in 1 .. nh : heads[k] = x
       /\ \A i, k \in 1 .. nh : heads[i] = heads[k] => i = k
  <2>1. \A i, k \in 1 .. nh : i < k => heads[i] \in Nat /\ heads[i] < heads[k]
    BY <1>7, <1>11 DEF Lists, Less
  <2>2. \A i, k \in 1 .. nh : i = k \/ i < k \/ k < i  BY <1>12
  <2> QED BY <1>11, <2>1, <2>2 DEF Lists
<1>16. /\ Len(A \o B) = N
       /\ \A u \in 1 .. ns : (A \o B)[u] = Unit(p, <<shaped[u]>>)
       /\ \A k \in 1 .. nh : (A \o B)[ns + k] = Unit(p, Ascending(Chain(heads[k])))
  <2> DEFINE S == {A[k] : k \in 1 .. ns} \cup {B[k] : k \in 1 .. nh}
  <2>1. A \in [1 .. ns -> S] /\ B \in [1 .. nh -> S]  OBVIOUS
  <2>2. A \in Seq(S) /\ B \in Seq(S)
    <3> HIDE DEF A, B, S
    <3> QED BY <2>1, <1>12, SeqDef
  <2>3. Len(A) = ns /\ Len(B) = nh
    <3>1. DOMAIN A = 1 .. ns /\ DOMAIN B = 1 .. nh  OBVIOUS
    <3>2. /\ Len(A) \in Nat /\ DOMAIN A = 1 .. Len(A)
          /\ Len(B) \in Nat /\ DOMAIN B = 1 .. Len(B)
      <4> HIDE DEF A, B, S
      <4> QED BY <2>2, LenProperties
    <3> HIDE DEF A, B, S
    <3> QED BY <3>1, <3>2, <1>12
  <2>4. /\ \A u \in 1 .. ns : A[u] = Unit(p, <<shaped[u]>>)
        /\ \A k \in 1 .. nh : B[k] = Unit(p, Ascending(Chain(heads[k])))
    OBVIOUS
  <2> HIDE DEF A, B, S
  <2>5. /\ Len(A \o B) = ns + nh
        /\ \A u \in 1 .. ns + nh : (A \o B)[u] = IF u <= ns THEN A[u] ELSE B[u - ns]
    BY <2>2, <2>3, ConcatProperties
  <2>6. ASSUME NEW u \in 1 .. ns PROVE (A \o B)[u] = A[u]
    <3>1. u \in 1 .. ns + nh /\ u <= ns  BY <1>12
    <3> QED BY <3>1, <2>5
  <2>7. ASSUME NEW k \in 1 .. nh PROVE (A \o B)[ns + k] = B[k]
    <3>1. ns + k \in 1 .. ns + nh /\ ~(ns + k <= ns) /\ (ns + k) - ns = k  BY <1>12
    <3> QED BY <3>1, <2>5
  <2> QED BY <2>4, <2>5, <2>6, <2>7
<1>17. /\ \A u \in 1 .. ns : u \in 1 .. N /\ set[u] = {shaped[u]}
       /\ \A k \in 1 .. nh : ns + k \in 1 .. N /\ set[ns + k] = Chain(heads[k])
       /\ \A u \in 1 .. N : u \in 1 .. ns \/ \E k \in 1 .. nh : u = ns + k
  <2>1. ASSUME NEW k \in 1 .. nh PROVE ns + k \in 1 .. N /\ ~(ns + k <= ns) /\ (ns + k) - ns = k
    BY <1>12
  <2>2. ASSUME NEW u \in 1 .. N PROVE u \in 1 .. ns \/ (u - ns \in 1 .. nh /\ u = ns + (u - ns))
    BY <1>12
  <2>3. \A u \in 1 .. ns : u \in 1 .. N /\ u <= ns  BY <1>12
  <2> QED BY <2>1, <2>2, <2>3
<1>18. N \in Nat  BY <1>12
<1> HIDE DEF A, B, N, set
<1>19. \A u \in 1 .. ns : set[u] \subseteq D /\ UnitOK(p, Units(p, mem)[u], set[u])
  <2> SUFFICES ASSUME NEW u \in 1 .. ns PROVE set[u] \subseteq D /\ UnitOK(p, Units(p, mem)[u], set[u])
    OBVIOUS
  <2>1. PICK x \in D : x = shaped[u]  BY <1>2, <1>14
  <2>2. UnitOK(p, Unit(p, <<x>>), {x})  BY OneUnit
  <2>3. Units(p, mem)[u] = Unit(p, <<x>>)  BY <2>1, <1>13, <1>16
  <2>4. set[u] = {x}  BY <2>1, <1>17
  <2> QED BY <2>2, <2>3, <2>4
<1>20. \A k \in 1 .. nh : /\ set[ns + k] \in chains /\ set[ns + k] \subseteq D
                          /\ UnitOK(p, Units(p, mem)[ns + k], set[ns + k])
  <2>1. \A k \in 1 .. nh : Chain(heads[k]) \in chains  BY <1>8, <1>15
  <2> QED BY <2>1, <1>2, <1>5, <1>13, <1>16, <1>17, ChainUnit
<1>21. set \in [1 .. N -> SUBSET D]
  <2>1. set = [u \in 1 .. N |-> set[u]]  BY DEF set
  <2>2. \A u \in 1 .. N : set[u] \in SUBSET D  BY <1>17, <1>19, <1>20
  <2> QED BY <2>1, <2>2
<1>22. \A u \in 1 .. N : UnitOK(p, Units(p, mem)[u], set[u])  BY <1>17, <1>19, <1>20
<1>23. ASSUME NEW i \in D PROVE \E u \in 1 .. N : i \in set[u]
  <2>1. CASE i \in sh  BY <2>1, <1>14, <1>17
  <2>2. CASE i \in mp
    <3>1. PICK c \in chains : i \in c  BY <2>2, <1>4
    <3>2. PICK k \in 1 .. nh : heads[k] = Min(c)  BY <1>9, <1>15
    <3> QED BY <3>1, <3>2, <1>9, <1>17
  <2> QED BY <2>1, <2>2, <1>2
<1>24. ASSUME NEW u \in 1 .. N, NEW v \in 1 .. N, NEW i \in D, i \in set[u], i \in set[v] PROVE u = v
  <2>1. CASE u \in 1 .. ns /\ v \in 1 .. ns  BY <2>1, <1>14, <1>17, <1>24
  <2>2. ASSUME NEW k \in 1 .. nh, NEW w \in 1 .. ns, i \in set[ns + k], i \in set[w] PROVE FALSE
    <3>1. set[ns + k] \subseteq mp  BY <1>5, <1>20
    <3> QED BY <2>2, <3>1, <1>2, <1>14, <1>17
  <2>3. ASSUME NEW k \in 1 .. nh, NEW l \in 1 .. nh, u = ns + k, v = ns + l PROVE u = v
    <3>1. set[ns + k] \in chains /\ set[ns + l] \in chains /\ set[ns + k] \subseteq mp  BY <1>5, <1>20
    <3>2. set[ns + k] = set[ns + l]  BY <3>1, <2>3, <1>4, <1>24
    <3>3. heads[k] = heads[l]  BY <3>2, <1>10, <1>15, <1>17
    <3> QED BY <3>3, <2>3, <1>15
  <2> QED BY <2>1, <2>2, <2>3, <1>17, <1>24
<1>25. ASSUME NEW u \in 1 .. N, NEW i \in set[u], NEW k \in set[u] PROVE p[i].n = p[k].n
  <2>1. CASE u \in 1 .. ns  BY <2>1, <1>17
  <2>2. CASE set[u] \in chains
    <3> DEFINE f == [x \in mp |-> p[x].n]
    <3>1. set[u] \subseteq mp  BY <2>2, <1>5
    <3>2. \A e \in E : f[e[1]] = f[e[2]]  BY <1>1 DEF E, mp
    <3>3. f[i] = p[i].n /\ f[k] = p[k].n  BY <3>1
    <3> HIDE DEF f
    <3>4. f[i] = f[k]  BY <2>2, <3>2, <1>1, LeastUniform
    <3> QED BY <3>3, <3>4
  <2> QED BY <2>1, <2>2, <1>17, <1>20
<1>26. ASSUME NEW e \in E, NEW u \in 1 .. N PROVE e[1] \in set[u] <=> e[2] \in set[u]
  <2>1. CASE u \in 1 .. ns
    <3>1. e[1] \in mp /\ e[2] \in mp  BY <1>1
    <3>2. set[u] = {shaped[u]} /\ shaped[u] \in sh  BY <2>1, <1>14, <1>17
    <3>3. shaped[u] \notin mp  BY <3>2, <1>2
    <3> QED BY <3>1, <3>2, <3>3
  <2>2. CASE set[u] \in chains  BY <2>2, <1>5
  <2> QED BY <2>1, <2>2, <1>17, <1>20
<1>27. Len(Units(p, mem)) = N  BY <1>13, <1>16
<1>28. UnitsOK(p, D, Units(p, mem), N, set)
  BY <1>18, <1>21, <1>22, <1>23, <1>24, <1>25, <1>26, <1>27 DEF UnitsOK, E, mp
<1> QED BY <1>28
------------------------------------------------------------------------------
(* Sizes *)

\* Every unit has tiles and a cost.
Sized(U, N) ==
  /\ N \in Nat /\ Len(U) = N
  /\ \A u \in 1 .. N : U[u].tiles \in Nat \ {0} /\ U[u].cost \in Nat \ {0}

\* What integer division gives.
LEMMA Divided ==
  ASSUME NEW m \in Nat, NEW d \in Nat \ {0}
  PROVE  m \div d \in Nat /\ d * (m \div d) <= m /\ m < d * (m \div d) + d
OBVIOUS

\* So is an instruction with elements, and one with none.
LEMMA TilesCounted ==
  ASSUME NEW ins, ins.n \in Nat PROVE NTiles(ins) \in Nat \ {0}
<1> DEFINE n == ins.n
<1>1. TileSize \in Nat \ {0}  BY TileSizePositive
<1>2. n \in Nat  OBVIOUS
<1>3. NTiles(ins) = IF n <= TileSize THEN 1 ELSE (n + TileSize - 1) \div TileSize  BY DEF NTiles
<1> HIDE DEF n
<1>4. ASSUME ~(n <= TileSize) PROVE (n + TileSize - 1) \div TileSize \in Nat \ {0}
  <2>1. PICK d \in Nat \ {0} : d = TileSize  BY <1>1
  <2>2. PICK m \in Nat : m = n + d - 1  BY <1>2, <2>1
  <2>3. m >= d  BY <1>2, <1>4, <2>1, <2>2
  <2>4. m \div d \in Nat \ {0}
    <3>1. PICK r \in Nat : r = m \div d /\ m < d * r + d  BY Divided
    <3>2. r # 0
      <4>1. r = 0 => m < d  BY <3>1
      <4> QED BY <4>1, <2>3
    <3> QED BY <3>1, <3>2
  <2> QED BY <2>1, <2>2, <2>4
<1> QED BY <1>3, <1>4

\* Units of instructions that have elements are sized, and a unit's tile count
\* is that of all its instructions.
Counted(p, D) == \A i \in D : p[i].n \in Nat
OneCount(p, U, N, set) == \A u \in 1 .. N : \A i \in set[u] : NTiles(p[i]) = U[u].tiles

\* A unit's instructions have its number of tiles.
LEMMA UnitsSized ==
  ASSUME NEW p, NEW D, NEW U, NEW N, NEW set, UnitsOK(p, D, U, N, set), Counted(p, D)
  PROVE  Sized(U, N) /\ OneCount(p, U, N, set)
<1>1. ASSUME NEW u \in 1 .. N
      PROVE  /\ U[u].tiles \in Nat \ {0} /\ U[u].cost \in Nat \ {0}
             /\ \A i \in set[u] : NTiles(p[i]) = U[u].tiles
  <2>1. UnitOK(p, U[u], set[u]) /\ set[u] \subseteq D  BY DEF UnitsOK
  <2>2. PICK n \in Nat : n = Len(U[u].tids)  BY <2>1 DEF UnitOK, Lists
  <2>3. Lists(U[u].tids, n, set[u], Less(set[u])) /\ set[u] # {}  BY <2>1, <2>2 DEF UnitOK
  <2>4. n # 0
    <3>1. 1 .. 0 = {}  OBVIOUS
    <3> QED BY <2>3, <3>1 DEF Lists
  <2>5. 1 \in 1 .. n  BY <2>4
  <2>6. PICK i \in D : i = U[u].tids[1] /\ i \in set[u]  BY <2>1, <2>3, <2>5 DEF Lists
  <2>7. PICK t \in Nat \ {0} : t = NTiles(p[i])
    <3>1. p[i].n \in Nat  BY DEF Counted
    <3> QED BY <3>1, TilesCounted
  <2>8. U[u].tiles = t  BY <2>1, <2>6, <2>7 DEF UnitOK
  <2>9. PICK c \in Nat \ {0} : c = UnitCost(p[i])  BY CostsPositive DEF UnitCost
  <2>10. U[u].cost = n * t * c  BY <2>1, <2>2, <2>6, <2>8, <2>9 DEF UnitOK
  <2>11. n * t \in Nat \ {0}  BY <2>4
  <2>12. PICK m \in Nat \ {0} : m = n * t  BY <2>11
  <2>13. m * c \in Nat \ {0}  OBVIOUS
  <2>14. ASSUME NEW k \in set[u] PROVE NTiles(p[k]) = t
    <3>1. p[k].n = p[i].n  BY <2>6 DEF UnitsOK
    <3> QED BY <3>1, <2>7 DEF NTiles
  <2> QED BY <2>8, <2>10, <2>12, <2>13, <2>14
<1>2. N \in Nat /\ Len(U) = N  BY DEF UnitsOK
<1> QED BY <1>1, <1>2 DEF Sized, OneCount

\* No unit costs more than all of them.
LEMMA TotalAtLeast ==
  ASSUME NEW U, NEW N, Sized(U, N)
  PROVE  /\ TotalCost(U) \in Nat
         /\ \A u \in 1 .. N : U[u].cost <= TotalCost(U)
<1> DEFINE Is(f) == f = [k \in 0 .. N |-> IF k = 0 THEN 0 ELSE f[k - 1] + U[k].cost]
           h == CHOOSE f : Is(f)
           step == [k \in 1 .. N |-> [x \in Nat |-> x + U[k].cost]]
           cost == [k \in 1 .. N |-> U[k].cost]
<1>1. TotalCost(U) = h[N]  BY DEF TotalCost, Sized
<1>2. N \in Nat /\ cost \in [1 .. N -> Nat] /\ \A k \in 1 .. N : U[k].cost = cost[k]  BY DEF Sized
<1> HIDE DEF cost
<1>3. step \in StepFuns(Nat, N)
  <2>1. \A k \in 1 .. N : [x \in Nat |-> x + U[k].cost] \in [Nat -> Nat]  BY <1>2
  <2> QED BY <2>1 DEF StepFuns
<1>4. PICK f : IsRun(f, Nat, 0, N, step)
  <2> HIDE DEF step
  <2> QED BY <1>2, <1>3, Iterated
<1>5. Is(f)
  <2>1. f = [k \in 0 .. N |-> f[k]] /\ f[0] = 0  BY <1>4 DEF IsRun
  <2>2. \A k \in 1 .. N : k - 1 \in 0 .. N /\ f[k - 1] \in Nat  BY <1>2, <1>4 DEF IsRun
  <2>3. \A k \in 1 .. N : f[k] = f[k - 1] + U[k].cost  BY <1>4, <2>2 DEF IsRun
  <2>0. \A k \in 0 .. N : k = 0 \/ k \in 1 .. N  BY <1>2
  <2>4. \A k \in 0 .. N : f[k] = IF k = 0 THEN 0 ELSE f[k - 1] + U[k].cost  BY <2>0, <2>1, <2>3
  <2> QED BY <2>1, <2>4
<1>6. Is(h)
  <2>1. \E g : Is(g)  BY <1>5
  <2> QED BY <2>1
<1> HIDE DEF h, step
<1>7. h[0] = 0 /\ \A k \in 1 .. N : h[k] = h[k - 1] + cost[k]
  <2>1. \A k \in 0 .. N : h[k] = IF k = 0 THEN 0 ELSE h[k - 1] + U[k].cost  BY <1>6
  <2>2. \A k \in 1 .. N : k \in 0 .. N /\ k # 0  BY <1>2
  <2>3. 0 \in 0 .. N  BY <1>2
  <2>4. h[0] = 0  BY <2>1, <2>3
  <2>5. \A k \in 1 .. N : h[k] = h[k - 1] + U[k].cost  BY <2>1, <2>2
  <2> QED BY <1>2, <2>4, <2>5
<1> DEFINE T == {n \in 0 .. N : h[n] \in Nat /\ \A u \in 1 .. n : cost[u] <= h[n]}
<1>8. 0 \in T  BY <1>2, <1>7
<1>9. ASSUME NEW n \in 1 .. N, n - 1 \in T PROVE n \in T
  <2>1. PICK a \in Nat : a = h[n - 1] /\ \A u \in 1 .. n - 1 : cost[u] <= a  BY <1>9
  <2>2. PICK c \in Nat : c = cost[n]  BY <1>2
  <2>3. h[n] = a + c  BY <1>7, <2>1, <2>2
  <2>4. ASSUME NEW u \in 1 .. n PROVE cost[u] <= a + c
    <3>1. CASE u = n  BY <2>2, <3>1
    <3>2. CASE u # n
      <4>1. u \in 1 .. n - 1 /\ u \in 1 .. N  BY <3>2, <1>2
      <4>2. PICK d \in Nat : d = cost[u]  BY <1>2, <4>1
      <4>3. d <= a  BY <2>1, <4>1, <4>2
      <4> QED BY <4>2, <4>3
    <3> QED BY <3>1, <3>2
  <2> QED BY <2>3, <2>4
<1>10. \A n \in 0 .. N : n \in T
  <2> HIDE DEF T
  <2> QED BY <1>2, <1>8, <1>9, Upto
<1>11. h[N] \in Nat /\ \A u \in 1 .. N : cost[u] <= h[N]
  <2>1. N \in T  BY <1>2, <1>10
  <2> QED BY <2>1
<1> QED BY <1>1, <1>2, <1>11

\* A unit is split into at least one part and at most its tiles.
LEMMA PartsBounded ==
  ASSUME NEW U, NEW N, Sized(U, N), NEW u \in 1 .. N
  PROVE  Parts(U, u) \in 1 .. U[u].tiles
<1>1. PICK t \in Nat \ {0}, c \in Nat \ {0} : t = U[u].tiles /\ c = U[u].cost  BY DEF Sized
<1>2. PICK s \in Nat : s = TotalCost(U)  BY TotalAtLeast
<1>3. c <= s  BY <1>1, <1>2, TotalAtLeast
<1>4. PICK l \in Nat \ {0} : l = NLanes  BY NLanesPositive
<1>5. PICK m \in Nat \ {0} : m = l * c
  <2>1. l * c \in Nat \ {0}  OBVIOUS
  <2> QED BY <2>1
<1>6. CeilDiv(NLanes * U[u].cost, TotalCost(U)) = (m + s - 1) \div s
  BY <1>1, <1>2, <1>4, <1>5 DEF CeilDiv
<1>7. (m + s - 1) \div s \in Nat \ {0}
  <2>0. s \in Nat \ {0} /\ m + s - 1 \in Nat  BY <1>3
  <2>1. PICK k \in Nat : k = m + s - 1  BY <2>0
  <2>2. k >= s  BY <2>1
  <2>3. k \div s \in Nat /\ k < s * (k \div s) + s  BY <2>0
  <2>4. k \div s # 0  BY <2>0, <2>2
  <2> QED BY <2>1, <2>3, <2>4
<1>8. PICK w \in Nat \ {0} : w = (m + s - 1) \div s  BY <1>7
<1>9. Parts(U, u) = IF w < t THEN w ELSE t  BY <1>1, <1>6, <1>8 DEF Parts
<1> QED BY <1>1, <1>9
------------------------------------------------------------------------------
(* Chunks *)

\* A larger factor makes room for one more.
LEMMA Grown ==
  ASSUME NEW t \in Nat, NEW a \in Nat, NEW b \in Nat, a < b
  PROVE  t * a + t <= t * b
<1>1. PICK c \in Nat : b = a + 1 + c
  <2>1. b - a - 1 \in Nat /\ b = a + 1 + (b - a - 1)  OBVIOUS
  <2> QED BY <2>1
<1>2. t * b = t * a + t + t * c  BY <1>1
<1>3. t * c \in Nat /\ t * a \in Nat /\ t * b \in Nat  OBVIOUS
<1> QED BY <1>2, <1>3

\* A share of t things among n that are not more grows with every step.
LEMMA Shares ==
  ASSUME NEW t \in Nat, NEW n \in 1 .. t, NEW a \in Nat, NEW b \in Nat, a < b
  PROVE  (t * a) \div n \in Nat /\ (t * b) \div n \in Nat /\ (t * a) \div n < (t * b) \div n
<1>1. PICK x \in Nat, y \in Nat : x = t * a /\ y = t * b /\ x + n <= y
  <2>1. t * a + t <= t * b  BY Grown
  <2>2. t * a \in Nat /\ t * b \in Nat  OBVIOUS
  <2>3. PICK x \in Nat, y \in Nat : x = t * a /\ y = t * b  BY <2>2
  <2>4. x + n <= y  BY <2>1, <2>3
  <2> QED BY <2>3, <2>4
<1>2. PICK q \in Nat : q = x \div n /\ n * q <= x  BY Divided
<1>3. PICK r \in Nat : r = y \div n /\ y < n * r + n  BY Divided
<1>4. q < r
  <2>1. CASE r <= q
    <3>1. n * r <= n * q
      <4>1. r = q \/ r < q  BY <2>1
      <4>2. r < q => n * r + n <= n * q  BY Grown
      <4>3. n * r \in Nat /\ n * q \in Nat  OBVIOUS
      <4> QED BY <4>1, <4>2, <4>3
    <3>2. PICK v \in Nat, w \in Nat : v = n * r /\ w = n * q
      <4>1. n * r \in Nat /\ n * q \in Nat  OBVIOUS
      <4> QED BY <4>1
    <3> QED BY <3>1, <3>2, <1>1, <1>2, <1>3
  <2> QED BY <2>1
<1> QED BY <1>1, <1>2, <1>3, <1>4

\* The shares begin with nothing and end with everything.
LEMMA WholeShare ==
  ASSUME NEW t \in Nat, NEW n \in 1 .. t PROVE (t * 0) \div n = 0 /\ (t * n) \div n = t
<1>1. t * 0 = 0  OBVIOUS
<1>2. 0 \div n = 0
  <2>1. PICK q \in Nat : q = 0 \div n /\ n * q <= 0  BY Divided
  <2>2. q # 0 => n * 0 + n <= n * q  BY Grown
  <2>3. n * q \in Nat /\ n * 0 = 0  OBVIOUS
  <2> QED BY <2>1, <2>2, <2>3
<1>3. (t * n) \div n = t
  <2>1. PICK m \in Nat : m = t * n /\ m = n * t
    <3>1. t * n \in Nat /\ t * n = n * t  OBVIOUS
    <3> QED BY <3>1
  <2>2. PICK q \in Nat : q = m \div n /\ n * q <= m /\ m < n * q + n  BY Divided
  <2>3. q < t => n * q + n <= n * t  BY Grown
  <2>4. t < q => n * t + n <= n * q  BY Grown
  <2>5. PICK v \in Nat : v = n * q
    <3>1. n * q \in Nat  OBVIOUS
    <3> QED BY <3>1
  <2>6. ~(q < t) /\ ~(t < q)  BY <2>1, <2>2, <2>3, <2>4, <2>5
  <2>7. q = t  BY <2>6
  <2> QED BY <2>1, <2>2, <2>7
<1> QED BY <1>1, <1>2, <1>3

\* The n chunks of unit u are cut at b[0], .., b[n].
Bounds(U, u, n, t, b) ==
  /\ b \in [0 .. n -> 0 .. t] /\ b[0] = 0 /\ b[n] = t
  /\ \A x, y \in 0 .. n : x < y => b[x] < b[y]
  /\ \A q \in 1 .. n :
       /\ Chunk(U, u, q).uid = u
       /\ Chunk(U, u, q).lo = b[q - 1] /\ Chunk(U, u, q).hi = b[q]
       /\ Chunk(U, u, q).cost \in Nat

\* The ends of a unit's chunks rise from 0 to its tiles.
LEMMA ChunkBounds ==
  ASSUME NEW U, NEW N, Sized(U, N), NEW u \in 1 .. N
  PROVE  \E b : Bounds(U, u, Parts(U, u), U[u].tiles, b)
<1>1. PICK t \in Nat \ {0}, c \in Nat \ {0} : t = U[u].tiles /\ c = U[u].cost  BY DEF Sized
<1>2. PICK n \in 1 .. t : n = Parts(U, u)  BY <1>1, PartsBounded
<1> DEFINE b == [q \in 0 .. n |-> (t * q) \div n]
<1>3. b[0] = 0 /\ b[n] = t  BY WholeShare
<1>4. \A x, y \in 0 .. n : x < y => b[x] \in Nat /\ b[y] \in Nat /\ b[x] < b[y]  BY Shares
<1>5. ASSUME NEW q \in 0 .. n PROVE b[q] \in 0 .. t
  <2>1. CASE q = n  BY <1>3, <2>1
  <2>2. CASE q # n
    <3>1. q < n /\ n \in 0 .. n  BY <2>2
    <3> HIDE DEF b
    <3> QED BY <3>1, <1>3, <1>4
  <2> QED BY <2>1, <2>2
<1>6. b \in [0 .. n -> 0 .. t]
  <2>1. b = [q \in 0 .. n |-> b[q]]  OBVIOUS
  <2> HIDE DEF b
  <2> QED BY <2>1, <1>5
<1>7. ASSUME NEW q \in 1 .. n
      PROVE  /\ Chunk(U, u, q).uid = u
             /\ Chunk(U, u, q).lo = b[q - 1] /\ Chunk(U, u, q).hi = b[q]
             /\ Chunk(U, u, q).cost \in Nat
  <2>1. q \in 0 .. n /\ q - 1 \in 0 .. n /\ q - 1 < q  OBVIOUS
  <2>2. b[q] = (t * q) \div n /\ b[q - 1] = (t * (q - 1)) \div n  BY <2>1
  <2> HIDE DEF b
  <2>3. Chunk(U, u, q) = [uid |-> u, lo |-> b[q - 1], hi |-> b[q], cost |-> (c \div t) * (b[q] - b[q - 1])]
    BY <1>1, <1>2, <2>2 DEF Chunk
  <2>4. b[q - 1] < b[q] /\ b[q] \in Nat /\ b[q - 1] \in Nat  BY <1>4, <2>1
  <2>5. PICK d \in Nat : d = b[q] - b[q - 1]  BY <2>4
  <2>6. PICK e \in Nat : e = c \div t  BY Divided
  <2>7. e * d \in Nat  OBVIOUS
  <2> QED BY <2>3, <2>5, <2>6, <2>7
<1> HIDE DEF b
<1>8. Bounds(U, u, n, t, b)  BY <1>3, <1>4, <1>6, <1>7 DEF Bounds
<1> QED BY <1>1, <1>2, <1>8

\* The chunks split every unit's tiles.
ChunksOK(U, N, C) ==
  /\ IsFiniteSet(C)
  /\ \A c \in C : /\ c.uid \in 1 .. N /\ c.cost \in Nat
                  /\ c.lo \in Nat /\ c.hi \in Nat /\ c.lo < c.hi /\ c.hi <= U[c.uid].tiles
  /\ \A u \in 1 .. N : \A x \in 0 .. U[u].tiles - 1 : \E c \in C : c.uid = u /\ c.lo <= x /\ x < c.hi
  /\ \A c, d \in C : c.uid = d.uid => c = d \/ c.hi <= d.lo \/ d.hi <= c.lo

\* The chunks of a unit partition its tiles.
LEMMA ChunksSplit ==
  ASSUME NEW U, NEW N, Sized(U, N) PROVE ChunksOK(U, N, Chunks(U))
<1> DEFINE C == Chunks(U)
           Of(u) == {Chunk(U, u, q) : q \in 1 .. Parts(U, u)}
<1>1. N \in Nat /\ Len(U) = N  BY DEF Sized
<1>2. C = UNION {Of(u) : u \in 1 .. N}  BY <1>1 DEF Chunks
<1> HIDE DEF C
<1>3. ASSUME NEW u \in 1 .. N PROVE IsFiniteSet(Of(u))
  <2> DEFINE f == [q \in 1 .. Parts(U, u) |-> Chunk(U, u, q)]
  <2>1. f \in Surjection(1 .. Parts(U, u), Of(u))  BY DEF Surjection
  <2>2. IsFiniteSet(1 .. Parts(U, u))
    <3>1. Parts(U, u) \in Int  BY PartsBounded
    <3> QED BY <3>1, FS_Interval
  <2> HIDE DEF f, Of
  <2> QED BY <2>1, <2>2, FS_Surjection
<1>4. IsFiniteSet(C)
  <2> DEFINE S == {Of(u) : u \in 1 .. N}
             f == [u \in 1 .. N |-> Of(u)]
  <2>1. f \in Surjection(1 .. N, S)
    <3> HIDE DEF Of
    <3> QED BY DEF Surjection
  <2>2. IsFiniteSet(1 .. N)  BY <1>1, FS_Interval
  <2>3. IsFiniteSet(S)
    <3> HIDE DEF f, S
    <3> QED BY <2>1, <2>2, FS_Surjection
  <2>4. \A T \in S : IsFiniteSet(T)
    <3> HIDE DEF Of
    <3> QED BY <1>3
  <2> HIDE DEF Of, f
  <2> QED BY <1>2, <2>3, <2>4, FS_UNION
<1>5. \A c \in C : \E u \in 1 .. N : \E q \in 1 .. Parts(U, u) : c = Chunk(U, u, q)  BY <1>2
<1>6. \A u \in 1 .. N : \A q \in 1 .. Parts(U, u) : Chunk(U, u, q) \in C  BY <1>2
<1>7. ASSUME NEW c \in C
      PROVE  /\ c.uid \in 1 .. N /\ c.cost \in Nat
             /\ c.lo \in Nat /\ c.hi \in Nat /\ c.lo < c.hi /\ c.hi <= U[c.uid].tiles
  <2>1. PICK u \in 1 .. N : \E q \in 1 .. Parts(U, u) : c = Chunk(U, u, q)  BY <1>5
  <2>2. PICK q \in 1 .. Parts(U, u) : c = Chunk(U, u, q)  BY <2>1
  <2>3. PICK n \in Nat : n = Parts(U, u)  BY PartsBounded
  <2>4. q - 1 \in 0 .. n /\ q \in 0 .. n /\ q - 1 < q  BY <2>3
  <2>8. PICK t \in Nat : t = U[u].tiles  BY DEF Sized
  <2>5. PICK b : Bounds(U, u, n, t, b)  BY <2>3, <2>8, ChunkBounds
  <2>6. b[q - 1] \in Nat /\ b[q] \in Nat /\ b[q - 1] < b[q] /\ b[q] <= t
    <3>1. b[q - 1] \in 0 .. t /\ b[q] \in 0 .. t /\ b[q - 1] < b[q]  BY <2>4, <2>5 DEF Bounds
    <3> QED BY <2>8, <3>1
  <2>7. c.uid = u /\ c.lo = b[q - 1] /\ c.hi = b[q] /\ c.cost \in Nat  BY <2>2, <2>3, <2>5 DEF Bounds
  <2> QED BY <2>6, <2>7, <2>8
<1>8. ASSUME NEW u \in 1 .. N, NEW x \in 0 .. U[u].tiles - 1
      PROVE  \E c \in C : c.uid = u /\ c.lo <= x /\ x < c.hi
  <2>1. PICK n \in Nat : n = Parts(U, u)  BY PartsBounded
  <2>2. PICK t \in Nat : t = U[u].tiles  BY DEF Sized
  <2>0. PICK b : Bounds(U, u, n, t, b)  BY <2>1, <2>2, ChunkBounds
  <2>3. /\ b \in [0 .. n -> 0 .. t] /\ b[0] = 0 /\ b[n] = t
        /\ \A q \in 1 .. n : /\ Chunk(U, u, q).uid = u
                             /\ Chunk(U, u, q).lo = b[q - 1] /\ Chunk(U, u, q).hi = b[q]
    BY <2>0 DEF Bounds
  <2> DEFINE S == {q \in 0 .. n : x < b[q]}
  <2>4. n \in S /\ 0 \notin S  BY <2>1, <2>2, <2>3
  <2>5. PICK q \in S : \A m \in S : q <= m
    <3>1. S \in SUBSET Nat /\ S # {}  BY <2>4
    <3> HIDE DEF S
    <3> QED BY <3>1, LeastElement
  <2>6. q \in 1 .. n /\ x < b[q]  BY <2>4, <2>5
  <2>a. \A k \in 0 .. n : b[k] \in 0 .. t  BY <2>3
  <2>b. \A k \in 0 .. t : k \in Nat  OBVIOUS
  <2>7. b[q - 1] <= x
    <3>1. q - 1 \in 0 .. n /\ ~(q <= q - 1)  BY <2>6
    <3>2. ~(x < b[q - 1])  BY <2>5, <3>1
    <3>3. b[q - 1] \in Nat  BY <2>a, <2>b, <3>1
    <3> QED BY <3>2, <3>3
  <2> HIDE DEF S
  <2> QED BY <1>6, <2>1, <2>3, <2>6, <2>7
<1>9. ASSUME NEW c \in C, NEW d \in C, c.uid = d.uid PROVE c = d \/ c.hi <= d.lo \/ d.hi <= c.lo
  <2>1. PICK u \in 1 .. N : \E q \in 1 .. Parts(U, u) : c = Chunk(U, u, q)  BY <1>5
  <2>2. PICK v \in 1 .. N : \E q \in 1 .. Parts(U, v) : d = Chunk(U, v, q)  BY <1>5
  <2>3. c.uid = u /\ d.uid = v  BY <2>1, <2>2, ChunkBounds DEF Bounds
  <2>4. PICK n \in Nat : n = Parts(U, u)  BY PartsBounded
  <2>5. PICK q \in 1 .. n, r \in 1 .. n : c = Chunk(U, u, q) /\ d = Chunk(U, u, r)
    BY <1>9, <2>1, <2>2, <2>3, <2>4
  <2>0. PICK b : Bounds(U, u, n, U[u].tiles, b)  BY <2>4, ChunkBounds
  <2>6. /\ b \in [0 .. n -> 0 .. U[u].tiles]
        /\ \A a, k \in 0 .. n : a < k => b[a] < b[k]
        /\ c.lo = b[q - 1] /\ c.hi = b[q] /\ d.lo = b[r - 1] /\ d.hi = b[r]
    BY <2>0, <2>5 DEF Bounds
  <2>7. ASSUME NEW x \in 1 .. n, NEW y \in 1 .. n, x < y PROVE b[x] <= b[y - 1]
    <3>1. x \in 0 .. n /\ y - 1 \in 0 .. n /\ (x = y - 1 \/ x < y - 1)  BY <2>7
    <3>2. b[x] \in Nat /\ b[y - 1] \in Nat  BY <2>6, <3>1
    <3>3. x < y - 1 => b[x] < b[y - 1]  BY <2>6, <3>1
    <3> QED BY <3>1, <3>2, <3>3
  <2>8. q = r \/ q < r \/ r < q  OBVIOUS
  <2> QED BY <2>5, <2>6, <2>7, <2>8
<1> QED BY <1>4, <1>7, <1>8, <1>9 DEF ChunksOK, C

\* Longest processing time first puts the chunks in a total order.
Longest(C) == {e \in C \X C : Before(e[1], e[2])}

\* The chunks are packed each once, in one order.
LEMMA ChunksRanked ==
  ASSUME NEW U, NEW N, NEW C, ChunksOK(U, N, C)
  PROVE  Lists(Ranked(C, Before), Cardinality(C), C, Longest(C))
<1>1. \A x, y \in C : <<x, y>> \in Longest(C) <=> Before(x, y)  BY DEF Longest
<1>2. \A c \in C : /\ c.uid \in Nat /\ c.cost \in Nat
                   /\ c.lo \in Nat /\ c.hi \in Nat /\ c.lo < c.hi
  BY DEF ChunksOK
<1>3. \A x \in C : ~Before(x, x)  BY <1>2 DEF Before
<1>4. ASSUME NEW x \in C, NEW y \in C PROVE x = y \/ Before(x, y) \/ Before(y, x)
  <2>1. CASE x.cost # y.cost \/ x.uid # y.uid  BY <2>1, <1>2 DEF Before
  <2>2. CASE x.cost = y.cost /\ x.uid = y.uid
    <3>1. x = y \/ x.hi <= y.lo \/ y.hi <= x.lo  BY <2>2 DEF ChunksOK
    <3> QED BY <3>1, <2>2, <1>2 DEF Before
  <2> QED BY <2>1, <2>2
<1>5. ASSUME NEW x \in C, NEW y \in C, NEW z \in C, Before(x, y), Before(y, z) PROVE Before(x, z)
  <2>1. /\ x.uid \in Nat /\ x.cost \in Nat /\ x.lo \in Nat
        /\ y.uid \in Nat /\ y.cost \in Nat /\ y.lo \in Nat
        /\ z.uid \in Nat /\ z.cost \in Nat /\ z.lo \in Nat
    BY <1>2
  <2> QED BY <2>1, <1>5 DEF Before
<1>6. Orders(Longest(C), C)  BY <1>1, <1>3, <1>4, <1>5 DEF Orders
<1>7. Ranked(C, Before) = Sorted(C, Longest(C))
  <2> DEFINE low(k)  == CHOOSE x \in C : Cardinality({y \in C : Before(y, x)}) = k - 1
             rank(k) == CHOOSE x \in C : Cardinality({y \in C : <<y, x>> \in Longest(C)}) = k - 1
  <2>1. \A x \in C : {y \in C : Before(y, x)} = {y \in C : <<y, x>> \in Longest(C)}  BY <1>1
  <2>2. ASSUME NEW k PROVE low(k) = rank(k)  BY <2>1
  <2>3. Ranked(C, Before) = [k \in 1 .. Cardinality(C) |-> low(k)]  BY DEF Ranked
  <2>4. Sorted(C, Longest(C)) = [k \in 1 .. Cardinality(C) |-> rank(k)]  BY DEF Sorted
  <2> HIDE DEF low, rank
  <2> QED BY <2>2, <2>3, <2>4
<1> QED BY <1>6, <1>7, Sorting DEF ChunksOK
------------------------------------------------------------------------------
(* Packing *)

TileEntries(D) == {TileEntry(i, lo, hi) : i \in D, lo \in Nat, hi \in Nat}

\* Some lane has the least load.
LEMMA LeastLane ==
  ASSUME NEW load \in [LaneIds -> Nat] PROVE LeastLoaded(load) \in LaneIds
<1> DEFINE S == {load[l] : l \in LaneIds}
           OK(l) == \A m \in LaneIds : load[l] < load[m] \/ (load[l] = load[m] /\ l <= m)
<1>1. 1 \in LaneIds /\ LaneIds \in SUBSET Nat  BY NLanesPositive DEF LaneIds
<1>2. PICK x \in S : \A y \in S : x <= y
  <2>1. S \in SUBSET Nat /\ S # {}  BY <1>1
  <2> HIDE DEF S
  <2> QED BY <2>1, LeastElement
<1> DEFINE L == {l \in LaneIds : load[l] = x}
<1>3. PICK l \in L : \A m \in L : l <= m
  <2>1. L \in SUBSET Nat /\ L # {}  BY <1>1
  <2> HIDE DEF L
  <2> QED BY <2>1, LeastElement
<1>4. l \in LaneIds /\ OK(l)
  <2>1. ASSUME NEW m \in LaneIds PROVE load[l] < load[m] \/ (load[l] = load[m] /\ l <= m)
    <3>1. load[l] = x /\ x \in Nat /\ load[m] \in Nat /\ x <= load[m]  BY <1>2
    <3>2. load[m] = x => l <= m  BY <1>3
    <3> HIDE DEF L, S
    <3> QED BY <3>1, <3>2
  <2> HIDE DEF OK, S
  <2>2. OK(l)  BY <2>1 DEF OK
  <2> QED BY <2>2
<1>5. LeastLoaded(load) = CHOOSE k \in LaneIds : OK(k)  BY DEF LeastLoaded
<1> HIDE DEF OK
<1> QED BY <1>4, <1>5

\* The run of a chunk goes through its unit's instructions.
LEMMA RunIs ==
  ASSUME NEW p, NEW D, NEW U, NEW N, NEW set, UnitsOK(p, D, U, N, set),
         NEW C, ChunksOK(U, N, C), NEW c \in C
  PROVE  /\ ChunkRun(U, c) \in Seq(TileEntries(D))
         /\ Len(ChunkRun(U, c)) = Len(U[c.uid].tids)
         /\ \A a \in 1 .. Len(U[c.uid].tids) :
              ChunkRun(U, c)[a] = TileEntry(U[c.uid].tids[a], c.lo, c.hi)
<1>1. PICK u \in 1 .. N : u = c.uid  BY DEF ChunksOK
<1>2. c.lo \in Nat /\ c.hi \in Nat  BY DEF ChunksOK
<1>3. set[u] \subseteq D /\ UnitOK(p, U[u], set[u])  BY DEF UnitsOK
<1>4. PICK n \in Nat : n = Len(U[u].tids) /\ \A a \in 1 .. n : U[u].tids[a] \in D
  BY <1>3 DEF UnitOK, Lists
<1> DEFINE r == [a \in 1 .. n |-> TileEntry(U[u].tids[a], c.lo, c.hi)]
           E == TileEntries(D)
<1>5. ChunkRun(U, c) = r  BY <1>1, <1>4 DEF ChunkRun
<1>6. \A a \in 1 .. n : r[a] = TileEntry(U[u].tids[a], c.lo, c.hi) /\ r[a] \in E
  BY <1>2, <1>4 DEF TileEntries
<1>7. r \in [1 .. n -> E] /\ DOMAIN r = 1 .. n
  <2>1. r = [a \in 1 .. n |-> r[a]] /\ DOMAIN r = 1 .. n  OBVIOUS
  <2> HIDE DEF r
  <2> QED BY <2>1, <1>6
<1> HIDE DEF r, E
<1>8. r \in Seq(E)  BY <1>4, <1>7, SeqDef
<1>9. Len(r) = n
  <2>1. Len(r) \in Nat /\ DOMAIN r = 1 .. Len(r)  BY <1>8, LenProperties
  <2>2. PICK m \in Nat : m = Len(r) /\ 1 .. m = 1 .. n  BY <2>1, <1>7
  <2>3. m = n  BY <2>2, <1>4
  <2> QED BY <2>2, <2>3
<1> QED BY <1>1, <1>4, <1>5, <1>6, <1>8, <1>9 DEF E

\* Lane l's list o is what remains of its chunks' runs, in the chunks' order.
LaneList(U, E, K, ch, lane, l, o, part, at, len) ==
  /\ Grows(E, K, o, part, at, len)
  /\ \A k \in 1 .. K : part[k] = IF lane[k] = l THEN ChunkRun(U, ch[k]) ELSE <<>>

PackedAs(U, E, K, ch, lane, out) ==
  /\ lane \in [1 .. K -> LaneIds] /\ out \in [LaneIds -> Seq(E)]
  /\ \A l \in LaneIds : \E o, part, at, len :
       LaneList(U, E, K, ch, lane, l, o, part, at, len) /\ o[K] = out[l]

\* Packing appends each chunk's run to one lane.
LEMMA PackPlaces ==
  ASSUME NEW p, NEW D, NEW U, NEW N, NEW set, UnitsOK(p, D, U, N, set),
         NEW C, C = Chunks(U), ChunksOK(U, N, C), NEW K \in Nat, NEW ch \in [1 .. K -> C],
         ch = Ranked(C, Before), Len(ch) = K
  PROVE  \E lane : PackedAs(U, TileEntries(D), K, ch, lane, PackUnits(U))
<1> DEFINE E == TileEntries(D)
           Place(acc, c) ==
             LET least == LeastLoaded(acc.load)
             IN [out  |-> [acc.out  EXCEPT ![least] = @ \o ChunkRun(U, c)],
                 load |-> [acc.load EXCEPT ![least] = @ + c.cost]]
           first == [out |-> [l \in LaneIds |-> <<>>], load |-> [l \in LaneIds |-> 0]]
           Is(f) == f = [k \in 0 .. Len(ch) |-> IF k = 0 THEN first ELSE Place(f[k - 1], ch[k])]
           h == CHOOSE f : Is(f)
           Lanes == [LaneIds -> Seq(E)]
           Loads == [LaneIds -> Nat]
           States == [out : Lanes, load : Loads]
           step == [k \in 1 .. K |-> [x \in States |-> Place(x, ch[k])]]
<1>1. PackUnits(U) = h[Len(ch)].out  BY DEF PackUnits
<1>2. ASSUME NEW x \in States, NEW c \in C
      PROVE  Place(x, c) \in States
  <2>1. PICK y \in Lanes, w \in Loads : y = x.out /\ w = x.load  OBVIOUS
  <2>2. PICK l \in LaneIds : l = LeastLoaded(w)  BY LeastLane
  <2>3. Place(x, c) = [out |-> [y EXCEPT ![l] = @ \o ChunkRun(U, c)], load |-> [w EXCEPT ![l] = @ + c.cost]]
    BY <2>1, <2>2
  <2>4. ChunkRun(U, c) \in Seq(E)  BY RunIs
  <2>5. c.cost \in Nat  BY DEF ChunksOK
  <2> HIDE DEF Place, E
  <2>6. [y EXCEPT ![l] = @ \o ChunkRun(U, c)] \in Lanes
    <3>1. y[l] \o ChunkRun(U, c) \in Seq(E)  BY <2>4, ConcatProperties
    <3> QED BY <3>1
  <2>7. [w EXCEPT ![l] = @ + c.cost] \in Loads  BY <2>5
  <2> HIDE DEF Lanes, Loads
  <2> QED BY <2>3, <2>6, <2>7
<1>3. first \in States
  <2>1. <<>> \in Seq(E)  OBVIOUS
  <2> HIDE DEF E
  <2> QED BY <2>1
<1>4. step \in StepFuns(States, K)
  <2> HIDE DEF Place, States
  <2> QED BY <1>2 DEF StepFuns
<1>5. PICK f : IsRun(f, States, first, K, step)
  <2> HIDE DEF States, first, step
  <2> QED BY <1>3, <1>4, Iterated
<1> HIDE DEF first
<1>6. Is(f)
  <2> HIDE DEF Place, States
  <2>1. f = [k \in 0 .. K |-> f[k]] /\ f[0] = first  BY <1>5 DEF IsRun
  <2>2. \A k \in 1 .. K : k - 1 \in 0 .. K /\ f[k - 1] \in States  BY <1>5 DEF IsRun
  <2>3. \A k \in 1 .. K : f[k] = Place(f[k - 1], ch[k])  BY <1>5, <2>2 DEF IsRun
  <2>4. \A k \in 0 .. K : k = 0 \/ k \in 1 .. K  OBVIOUS
  <2>5. \A k \in 0 .. K : f[k] = IF k = 0 THEN first ELSE Place(f[k - 1], ch[k])  BY <2>1, <2>3, <2>4
  <2> QED BY <2>1, <2>5
<1>7. Is(h)
  <2>1. \E g : Is(g)  BY <1>6
  <2> HIDE DEF Is
  <2> QED BY <2>1
<1> HIDE DEF h, step
<1>8. h[0] = first /\ \A k \in 1 .. K : h[k] = Place(h[k - 1], ch[k])
  <2> HIDE DEF Place
  <2>1. \A k \in 0 .. K : h[k] = IF k = 0 THEN first ELSE Place(h[k - 1], ch[k])  BY <1>7
  <2>2. 0 \in 0 .. K /\ \A k \in 1 .. K : k \in 0 .. K /\ k # 0  OBVIOUS
  <2> QED BY <2>1, <2>2
<1>9. \A k \in 0 .. K : h[k] \in States
  <2> DEFINE T == {k \in 0 .. K : h[k] \in States}
  <2> HIDE DEF Place, States
  <2>1. 0 \in T  BY <1>3, <1>8
  <2>2. \A k \in 1 .. K : k - 1 \in T => k \in T  BY <1>2, <1>8
  <2>3. \A k \in 0 .. K : k \in T
    <3> HIDE DEF T
    <3> QED BY <2>1, <2>2, Upto
  <2> QED BY <2>3
<1> DEFINE lane == [k \in 1 .. K |-> LeastLoaded(h[k - 1].load)]
<1>10. \A k \in 1 .. K : k - 1 \in 0 .. K /\ h[k - 1] \in States /\ lane[k] \in LaneIds
  <2>1. \A k \in 1 .. K : k - 1 \in 0 .. K  OBVIOUS
  <2> QED BY <2>1, <1>9, LeastLane
<1>11. lane \in [1 .. K -> LaneIds]  BY <1>10
<1>12. ASSUME NEW l \in LaneIds
       PROVE  \E o, part, at, len :
                LaneList(U, E, K, ch, lane, l, o, part, at, len) /\ o[K] = PackUnits(U)[l]
  <2> DEFINE o == [k \in 0 .. K |-> h[k].out[l]]
             part == [k \in 1 .. K |-> IF lane[k] = l THEN ChunkRun(U, ch[k]) ELSE <<>>]
             at == [k \in 0 .. K |-> Len(o[k])]
             len == [k \in 1 .. K |-> Len(part[k])]
  <2>1. ASSUME NEW k \in 1 .. K
        PROVE  part[k] \in Seq(E) /\ o[k] = o[k - 1] \o part[k]
    <3>1. PICK x \in States : x = h[k - 1]  BY <1>10
    <3>2. PICK y \in Lanes : y = x.out  OBVIOUS
    <3>3. PICK m \in LaneIds : m = lane[k] /\ m = LeastLoaded(x.load)  BY <1>10, <3>1
    <3>4. h[k].out = [y EXCEPT ![m] = @ \o ChunkRun(U, ch[k])]
      <4>1. Place(x, ch[k]).out = [y EXCEPT ![m] = @ \o ChunkRun(U, ch[k])]  BY <3>2, <3>3
      <4>2. h[k] = Place(x, ch[k])
        <5> HIDE DEF Place
        <5> QED BY <1>8, <3>1
      <4> HIDE DEF Place
      <4> QED BY <4>1, <4>2
    <3>5. ChunkRun(U, ch[k]) \in Seq(E)  BY RunIs
    <3>6. k \in 0 .. K /\ k - 1 \in 0 .. K  OBVIOUS
    <3>7. o[k - 1] = y[l] /\ y[l] \in Seq(E) /\ o[k] = h[k].out[l]  BY <3>1, <3>2, <3>6
    <3> HIDE DEF E, o, lane, States
    <3>8. CASE m = l
      <4>1. part[k] = ChunkRun(U, ch[k])  BY <3>3, <3>8
      <4>2. l \in DOMAIN y  BY <3>2 DEF States
      <4>3. h[k].out[l] = y[l] \o ChunkRun(U, ch[k])  BY <3>4, <3>8, <4>2
      <4> QED BY <3>5, <3>7, <4>1, <4>3
    <3>9. CASE m # l
      <4>0. <<>> \in Seq(E)
        <5> HIDE DEF part, Lanes
        <5> QED OBVIOUS
      <4>1. part[k] = <<>> /\ <<>> \in Seq(E)  BY <3>3, <3>9, <4>0
      <4>2. h[k].out[l] = y[l]  BY <3>4, <3>9
      <4>3. y[l] \o <<>> = y[l]  BY <3>7, ConcatEmptySeq
      <4> QED BY <4>1, <4>2, <4>3, <3>7
    <3> QED BY <3>8, <3>9
  <2>2. o \in [0 .. K -> Seq(E)]  BY <1>9
  <2>3. part \in [1 .. K -> Seq(E)]
    <3>1. part = [k \in 1 .. K |-> part[k]]  OBVIOUS
    <3> HIDE DEF part, E
    <3> QED BY <2>1, <3>1
  <2>4. o[0] = <<>>
    <3>1. 0 \in 0 .. K  OBVIOUS
    <3> QED BY <1>8, <3>1 DEF first
  <2>5. o[K] = PackUnits(U)[l]  BY <1>1
  <2>6. LaneList(U, E, K, ch, lane, l, o, part, at, len)
    <3>1. \A k \in 1 .. K : part[k] = IF lane[k] = l THEN ChunkRun(U, ch[k]) ELSE <<>>  OBVIOUS
    <3> HIDE DEF o, part, E, lane
    <3>2. Grows(E, K, o, part, at, len)  BY <2>1, <2>2, <2>3, <2>4 DEF Grows
    <3> HIDE DEF at, len
    <3> QED BY <3>1, <3>2 DEF LaneList
  <2> HIDE DEF o, part, at, len, E, lane
  <2> QED BY <2>5, <2>6
<1>13. PackUnits(U) \in [LaneIds -> Seq(E)]
  <2>1. K \in 0 .. K  OBVIOUS
  <2> QED BY <2>1, <1>1, <1>9
<1> HIDE DEF lane, E
<1>14. PackedAs(U, E, K, ch, lane, PackUnits(U))  BY <1>11, <1>12, <1>13 DEF PackedAs
<1> QED BY <1>14 DEF E

\* The instructions of the h-th chunk's unit.
Tids(U, ch, h) == U[ch[h].uid].tids

\* In lane l, whose list is s, the run of chunk h begins behind at[h - 1].
Spots(U, K, ch, lane, l, s, at) ==
  /\ at \in [0 .. K -> Nat]
  /\ \A h \in 1 .. K : lane[h] = l => \A a \in 1 .. Len(Tids(U, ch, h)) :
       /\ at[h - 1] + a \in 1 .. Len(s)
       /\ s[at[h - 1] + a] = TileEntry(Tids(U, ch, h)[a], ch[h].lo, ch[h].hi)
  /\ \A pos \in 1 .. Len(s) : \E h \in 1 .. K :
       lane[h] = l /\ \E a \in 1 .. Len(Tids(U, ch, h)) : pos = at[h - 1] + a

\* A lane's list is the runs of its chunks, one after the other.
LEMMA PlacedSpots ==
  ASSUME NEW p, NEW D, NEW U, NEW N, NEW set, UnitsOK(p, D, U, N, set),
         NEW C, ChunksOK(U, N, C), NEW K \in Nat, NEW ch \in [1 .. K -> C],
         NEW lane, NEW out, PackedAs(U, TileEntries(D), K, ch, lane, out), NEW l \in LaneIds
  PROVE  \E at : Spots(U, K, ch, lane, l, out[l], at)
<1> DEFINE E == TileEntries(D)
<1>1. PICK o, part, at, len :
        LaneList(U, E, K, ch, lane, l, o, part, at, len) /\ o[K] = out[l]
  BY DEF PackedAs
<1>2. Grows(E, K, o, part, at, len) /\ \A k \in 1 .. K : part[k] = IF lane[k] = l THEN ChunkRun(U, ch[k]) ELSE <<>>
  BY <1>1 DEF LaneList
<1>3. Laid(K, K, o, part, at, len)
  <2>1. K \in 0 .. K  OBVIOUS
  <2> HIDE DEF E
  <2> QED BY <1>2, <2>1, Appended
<1>4. at \in [0 .. K -> Nat] /\ len \in [1 .. K -> Nat]
  <2> HIDE DEF E
  <2> QED BY <1>2, Lengths
<1>5. at[K] = Len(out[l]) /\ \A k \in 1 .. K : len[k] = Len(part[k])
  <2>1. K \in 0 .. K  OBVIOUS
  <2> HIDE DEF E
  <2> QED BY <1>1, <1>2, <2>1 DEF Grows
<1>6. ASSUME NEW h \in 1 .. K
      PROVE  IF lane[h] = l
             THEN len[h] = Len(Tids(U, ch, h))
                  /\ \A a \in 1 .. Len(Tids(U, ch, h)) :
                       part[h][a] = TileEntry(Tids(U, ch, h)[a], ch[h].lo, ch[h].hi)
             ELSE len[h] = 0
  <2>1. ch[h] \in C  OBVIOUS
  <2>2. CASE lane[h] = l
    <3>1. part[h] = ChunkRun(U, ch[h])  BY <1>2, <2>2
    <3>2. /\ Len(ChunkRun(U, ch[h])) = Len(Tids(U, ch, h))
          /\ \A a \in 1 .. Len(Tids(U, ch, h)) :
               ChunkRun(U, ch[h])[a] = TileEntry(Tids(U, ch, h)[a], ch[h].lo, ch[h].hi)
      BY <2>1, RunIs DEF Tids
    <3> QED BY <3>1, <3>2, <1>5, <2>2
  <2>3. CASE lane[h] # l
    <3>1. part[h] = <<>>  BY <1>2, <2>3
    <3>2. len[h] = 0  BY <1>5, <3>1
    <3> QED BY <2>3, <3>2
  <2> QED BY <2>2, <2>3
<1>7. ASSUME NEW h \in 1 .. K, lane[h] = l, NEW a \in 1 .. Len(Tids(U, ch, h))
      PROVE  /\ at[h - 1] + a \in 1 .. Len(out[l])
             /\ out[l][at[h - 1] + a] = TileEntry(Tids(U, ch, h)[a], ch[h].lo, ch[h].hi)
  <2>1. a \in 1 .. len[h]  BY <1>6, <1>7
  <2>2. at[h - 1] + a \in 1 .. at[K] /\ o[K][at[h - 1] + a] = part[h][a]  BY <1>3, <2>1 DEF Laid
  <2> QED BY <2>2, <1>1, <1>5, <1>6, <1>7
<1>8. ASSUME NEW pos \in 1 .. Len(out[l])
      PROVE  \E h \in 1 .. K : lane[h] = l /\ \E a \in 1 .. Len(Tids(U, ch, h)) : pos = at[h - 1] + a
  <2>1. PICK h \in 1 .. K : \E a \in 1 .. len[h] : pos = at[h - 1] + a
    BY <1>3, <1>5 DEF Laid
  <2>2. len[h] # 0
    <3>1. 1 .. 0 = {}  OBVIOUS
    <3> QED BY <2>1, <3>1
  <2>3. lane[h] = l /\ len[h] = Len(Tids(U, ch, h))  BY <1>6, <2>2
  <2> QED BY <2>1, <2>3
<1>9. Spots(U, K, ch, lane, l, out[l], at)  BY <1>4, <1>7, <1>8 DEF Spots
<1> QED BY <1>9

AllSpots(U, K, ch, lane, out, at) ==
  \A l \in LaneIds : Spots(U, K, ch, lane, l, out[l], at[l])

\* How the lanes' lists came about.
Packing(p, D, U, N, set, C, K, ch, lane, out, at) ==
  /\ UnitsOK(p, D, U, N, set) /\ ChunksOK(U, N, C) /\ Lists(ch, K, C, Longest(C))
  /\ AllSpots(U, K, ch, lane, out, at)

\* In lane l of the lists out, position x runs tile t of instruction i.
RunAt(out, l, x, i, t) == l \in LaneIds /\ x \in 1 .. Len(out[l]) /\ Runs(out[l][x], i, t)

\* One lane's, and in the program's order.
InOrder(l, x, i, m, y, k) == l = m /\ (i = k => x = y) /\ (i < k => x < y)

\* The place before a chunk is a place.
LEMMA Earlier == ASSUME NEW K \in Nat, NEW h \in 1 .. K PROVE h - 1 \in 0 .. K
OBVIOUS

\* Two entries that run the same tile of one unit are of one run.
LEMMA SameRun ==
  ASSUME NEW p, NEW D \in SUBSET Nat, NEW U, NEW N, NEW set, NEW C, NEW K, NEW ch,
         NEW lane, NEW out, NEW at, Packing(p, D, U, N, set, C, K, ch, lane, out, at),
         NEW l, NEW x, NEW m, NEW y, NEW i \in D, NEW k \in D, NEW t \in Nat,
         RunAt(out, l, x, i, t), RunAt(out, m, y, k, t),
         NEW u \in 1 .. N, i \in set[u], k \in set[u]
  PROVE  InOrder(l, x, i, m, y, k)
<1>0. /\ UnitsOK(p, D, U, N, set) /\ ChunksOK(U, N, C) /\ Lists(ch, K, C, Longest(C))
      /\ AllSpots(U, K, ch, lane, out, at)
  BY DEF Packing
<1> SUFFICES ASSUME l \in LaneIds, m \in LaneIds, x \in 1 .. Len(out[l]), y \in 1 .. Len(out[m]),
                    Runs(out[l][x], i, t), Runs(out[m][y], k, t)
             PROVE  l = m /\ (i = k => x = y) /\ (i < k => x < y)
  BY DEF RunAt, InOrder
<1>1. PICK h \in 1 .. K : lane[h] = l /\ \E a \in 1 .. Len(Tids(U, ch, h)) : x = at[l][h - 1] + a
  BY <1>0, <1>0 DEF AllSpots, Spots
<1>2. PICK a \in 1 .. Len(Tids(U, ch, h)) : x = at[l][h - 1] + a  BY <1>1
<1>3. PICK g \in 1 .. K : lane[g] = m /\ \E b \in 1 .. Len(Tids(U, ch, g)) : y = at[m][g - 1] + b
  BY <1>0, <1>0 DEF AllSpots, Spots
<1>4. PICK b \in 1 .. Len(Tids(U, ch, g)) : y = at[m][g - 1] + b  BY <1>3
<1>s. Spots(U, K, ch, lane, l, out[l], at[l]) /\ Spots(U, K, ch, lane, m, out[m], at[m])
  BY <1>0 DEF AllSpots
<1>5. out[l][x] = TileEntry(Tids(U, ch, h)[a], ch[h].lo, ch[h].hi)
  <2>1. h \in 1 .. K /\ lane[h] = l  BY <1>1
  <2> QED BY <1>s, <1>2, <2>1 DEF Spots
<1>6. out[m][y] = TileEntry(Tids(U, ch, g)[b], ch[g].lo, ch[g].hi)
  <2>1. g \in 1 .. K /\ lane[g] = m  BY <1>3
  <2> QED BY <1>s, <1>4, <2>1 DEF Spots
<1>7. Tids(U, ch, h)[a] = i /\ ch[h].lo <= t /\ t < ch[h].hi  BY <1>5 DEF Runs, TileEntry
<1>8. Tids(U, ch, g)[b] = k /\ ch[g].lo <= t /\ t < ch[g].hi  BY <1>6 DEF Runs, TileEntry
<1>9. K \in Nat /\ ch[h] \in C /\ ch[g] \in C  BY <1>0, <1>0 DEF Lists
<1>10. ch[h].uid \in 1 .. N /\ ch[g].uid \in 1 .. N  BY <1>0, <1>9 DEF ChunksOK
<1>11. i \in set[ch[h].uid]
  <2>1. UnitOK(p, U[ch[h].uid], set[ch[h].uid])  BY <1>0, <1>10 DEF UnitsOK
  <2> QED BY <1>0, <2>1, <1>7 DEF UnitOK, Lists, Tids
<1>12. k \in set[ch[g].uid]
  <2>1. UnitOK(p, U[ch[g].uid], set[ch[g].uid])  BY <1>0, <1>10 DEF UnitsOK
  <2> QED BY <1>0, <2>1, <1>8 DEF UnitOK, Lists, Tids
<1>13. ch[h].uid = u /\ ch[g].uid = u  BY <1>0, <1>10, <1>11, <1>12 DEF UnitsOK
<1>14. ch[h] = ch[g]
  <2>1. ch[h] = ch[g] \/ ch[h].hi <= ch[g].lo \/ ch[g].hi <= ch[h].lo  BY <1>0, <1>9, <1>13 DEF ChunksOK
  <2> DEFINE a1 == ch[h].lo
             a2 == ch[h].hi
             b1 == ch[g].lo
             b2 == ch[g].hi
  <2>2. a1 \in Nat /\ a2 \in Nat /\ b1 \in Nat /\ b2 \in Nat
    <3>1. \A c \in C : c.lo \in Nat /\ c.hi \in Nat  BY <1>0 DEF ChunksOK
    <3> QED BY <1>9, <3>1, Zenon
  <2>3. a1 <= t /\ t < a2 /\ b1 <= t /\ t < b2  BY <1>7, <1>8, Zenon
  <2>4. ch[h] = ch[g] \/ a2 <= b1 \/ b2 <= a1  BY <2>1, Zenon
  <2> HIDE DEF a1, a2, b1, b2
  <2> QED BY <2>2, <2>3, <2>4
<1>15. h = g
  <2>1. <<ch[h], ch[h]>> \notin Longest(C)
    <3>1. ch[h].cost \in Nat /\ ch[h].lo \in Nat /\ ch[h].uid \in 1 .. N /\ N \in Nat
      BY <1>0, <1>9 DEF ChunksOK, UnitsOK
    <3>0. \A v \in 1 .. N : v \in Nat  BY <3>1
    <3>2. PICK c \in Nat, d \in Nat, e \in Nat : c = ch[h].cost /\ d = ch[h].lo /\ e = ch[h].uid
      BY <3>0, <3>1
    <3>3. ~(c > c) /\ ~(d < d) /\ ~(e < e)  OBVIOUS
    <3> QED BY <3>2, <3>3 DEF Longest, Before
  <2>2. ~(h < g) /\ ~(g < h)  BY <1>0, <1>14, <2>1 DEF Lists
  <2> QED BY <1>9, <2>2
<1>16. l = m  BY <1>1, <1>3, <1>15
<1> DEFINE s == Tids(U, ch, h)
<1>17. Lists(s, Len(s), set[u], Less(set[u])) /\ set[u] \subseteq D
  <2>1. UnitOK(p, U[u], set[u])  BY <1>0, <1>0 DEF UnitsOK
  <2> QED BY <1>0, <2>1, <1>13 DEF UnitOK, Tids, UnitsOK
<1>18. s[a] = i /\ s[b] = k /\ a \in 1 .. Len(s) /\ b \in 1 .. Len(s) /\ Len(s) \in Nat
  BY <1>0, <1>7, <1>8, <1>14, <1>15, <1>17 DEF Lists
<1>19. PICK n \in Nat : n = at[l][h - 1]
  <2>1. h - 1 \in 0 .. K  BY <1>1, <1>9, Earlier
  <2>2. at[l] \in [0 .. K -> Nat]  BY <1>s DEF Spots
  <2> QED BY <2>1, <2>2
<1>20. x = n + a /\ y = n + b  BY <1>2, <1>4, <1>15, <1>16, <1>19
<1>21. \A c, d \in 1 .. Len(s) : c < d => s[c] < s[d]  BY <1>0, <1>17 DEF Lists, Less
<1> HIDE DEF s
<1>22. ASSUME i = k PROVE x = y
  <2>1. ~(a < b) /\ ~(b < a)
    <3>1. ~(i < i)
      <4>1. i \in Nat  OBVIOUS
      <4> QED BY <4>1
    <3> QED BY <3>1, <1>18, <1>21, <1>22
  <2>2. a = b  BY <1>18, <2>1
  <2> QED BY <1>20, <2>2
<1>23. ASSUME i < k PROVE x < y
  <2>0. i # k /\ ~(k < i)
    <3>1. i \in Nat /\ k \in Nat  OBVIOUS
    <3> QED BY <1>23, <3>1
  <2>1. a # b /\ ~(b < a)  BY <1>18, <1>21, <2>0
  <2>2. a < b  BY <1>18, <2>1
  <2> QED BY <1>18, <1>20, <2>2
<1> QED BY <1>16, <1>22, <1>23

\* Instructions that share their lanes: the same one, or the ends of an edge.
Joined(p, D, i, k) ==
  i = k \/ <<i, k>> \in ChainEdges(p, MapsOf(p, D)) \/ <<k, i>> \in ChainEdges(p, MapsOf(p, D))

\* Entry e runs tiles that an instruction in D has.
Proper(p, D, e) == e.kind = "tile" /\ e.task \in D /\ e.lo < e.hi /\ e.hi <= NTiles(p[e.task])

\* The lanes run every tile of the instructions in D and nothing else, and a tile of
\* joined instructions in one lane, once for each, in the program's order.
PackOK(p, D, out) ==
  /\ \A l \in LaneIds : \A x \in 1 .. Len(out[l]) : Proper(p, D, out[l][x])
  /\ out \in [LaneIds -> Seq(TileEntries(D))]
  /\ \A i \in D : \A t \in 0 .. NTiles(p[i]) - 1 :
       \E l, x : RunAt(out, l, x, i, t)
  /\ \A l, x, m, y : \A i, k \in D : \A t \in Nat :
       RunAt(out, l, x, i, t) /\ RunAt(out, m, y, k, t) /\ Joined(p, D, i, k) =>
         InOrder(l, x, i, m, y, k)

\* Edges join instructions of one element count.
EdgesEqual(p, D) == \A e \in ChainEdges(p, MapsOf(p, D)) : p[e[1]].n = p[e[2]].n

\* One phase: every tile runs, what is joined runs in one lane and in order.
LEMMA UnitsPacked ==
  ASSUME NEW p, NEW D \in SUBSET Nat, NEW U, NEW N, NEW set, UnitsOK(p, D, U, N, set), Counted(p, D)
  PROVE  PackOK(p, D, PackUnits(U))
<1> DEFINE C == Chunks(U)
           K == Cardinality(C)
           ch == Ranked(C, Before)
           out == PackUnits(U)
           E == TileEntries(D)
<1>1. Sized(U, N) /\ OneCount(p, U, N, set)
  <2> HIDE DEF C, K, ch, out, E
  <2> QED BY UnitsSized
<1>2. ChunksOK(U, N, C)  BY <1>1, ChunksSplit
<1>3. Lists(ch, K, C, Longest(C))
  <2> HIDE DEF C
  <2> QED BY <1>2, ChunksRanked
<1>4. Len(ch) = K /\ K \in Nat /\ ch \in [1 .. K -> C]
  <2> HIDE DEF C, K, ch
  <2> QED BY <1>3, ListsSeq DEF Lists
<1>5. PICK lane : PackedAs(U, E, K, ch, lane, out)
  <2>1. C = Chunks(U) /\ ch = Ranked(C, Before)  OBVIOUS
  <2> HIDE DEF C, K, ch
  <2> QED BY <1>2, <1>4, <2>1, PackPlaces
<1> HIDE DEF C, K, ch, out, E
<1> DEFINE at == [l \in LaneIds |-> CHOOSE a : Spots(U, K, ch, lane, l, out[l], a)]
<1>6. AllSpots(U, K, ch, lane, out, at)
  <2>1. ASSUME NEW l \in LaneIds PROVE Spots(U, K, ch, lane, l, out[l], at[l])
    <3>1. \E a : Spots(U, K, ch, lane, l, out[l], a)  BY <1>2, <1>4, <1>5, PlacedSpots DEF E
    <3> QED BY <3>1
  <2> HIDE DEF at
  <2> QED BY <2>1 DEF AllSpots
<1> HIDE DEF at
<1>7. out \in [LaneIds -> Seq(E)] /\ lane \in [1 .. K -> LaneIds]  BY <1>5 DEF PackedAs
<1>8. ASSUME NEW i \in D, NEW t \in 0 .. NTiles(p[i]) - 1
      PROVE  \E l, x : RunAt(out, l, x, i, t)
  <2>1. PICK u \in 1 .. N : i \in set[u]  BY DEF UnitsOK
  <2>2. t \in 0 .. U[u].tiles - 1  BY <2>1, <1>1 DEF OneCount
  <2>3. PICK c \in C : c.uid = u /\ c.lo <= t /\ t < c.hi  BY <2>2, <1>2 DEF ChunksOK
  <2>4. PICK h \in 1 .. K : ch[h] = c  BY <1>3 DEF Lists
  <2>5. Lists(Tids(U, ch, h), Len(Tids(U, ch, h)), set[u], Less(set[u]))
    <3>1. UnitOK(p, U[u], set[u])  BY DEF UnitsOK
    <3> QED BY <3>1, <2>3, <2>4 DEF UnitOK, Tids
  <2>6. PICK a \in 1 .. Len(Tids(U, ch, h)) : Tids(U, ch, h)[a] = i  BY <2>1, <2>5 DEF Lists
  <2>7. PICK l \in LaneIds : l = lane[h]  BY <1>7
  <2>8. PICK x \in 1 .. Len(out[l]) : out[l][x] = TileEntry(i, c.lo, c.hi)
    <3>1. Spots(U, K, ch, lane, l, out[l], at[l])  BY <1>6 DEF AllSpots
    <3>2. /\ at[l][h - 1] + a \in 1 .. Len(out[l])
          /\ out[l][at[l][h - 1] + a] = TileEntry(Tids(U, ch, h)[a], ch[h].lo, ch[h].hi)
      BY <3>1, <2>7 DEF Spots
    <3> QED BY <3>2, <2>4, <2>6
  <2>9. RunAt(out, l, x, i, t)  BY <2>3, <2>8 DEF RunAt, Runs, TileEntry
  <2> QED BY <2>9
<1>9. ASSUME NEW l, NEW x, NEW m, NEW y, NEW i \in D, NEW k \in D, NEW t \in Nat,
             RunAt(out, l, x, i, t), RunAt(out, m, y, k, t), Joined(p, D, i, k)
      PROVE  InOrder(l, x, i, m, y, k)
  <2>1. PICK u \in 1 .. N : i \in set[u]  BY DEF UnitsOK
  <2>2. k \in set[u]
    <3>1. CASE i = k  BY <2>1, <3>1
    <3>2. CASE <<i, k>> \in ChainEdges(p, MapsOf(p, D))
      <4>1. <<i, k>>[1] \in set[u] <=> <<i, k>>[2] \in set[u]  BY <3>2 DEF UnitsOK
      <4> QED BY <4>1, <2>1
    <3>3. CASE <<k, i>> \in ChainEdges(p, MapsOf(p, D))
      <4>1. <<k, i>>[1] \in set[u] <=> <<k, i>>[2] \in set[u]  BY <3>3 DEF UnitsOK
      <4> QED BY <4>1, <2>1
    <3> QED BY <3>1, <3>2, <3>3, <1>9 DEF Joined
  <2>3. Packing(p, D, U, N, set, C, K, ch, lane, out, at)  BY <1>2, <1>3, <1>6 DEF Packing
  <2> QED BY <2>1, <2>2, <2>3, <1>9, SameRun
<1>10. ASSUME NEW l \in LaneIds, NEW x \in 1 .. Len(out[l]) PROVE Proper(p, D, out[l][x])
  <2>1. Spots(U, K, ch, lane, l, out[l], at[l])  BY <1>6 DEF AllSpots
  <2>2. PICK h \in 1 .. K : lane[h] = l /\ \E a \in 1 .. Len(Tids(U, ch, h)) : x = at[l][h - 1] + a
    BY <2>1 DEF Spots
  <2>3. PICK a \in 1 .. Len(Tids(U, ch, h)) : x = at[l][h - 1] + a  BY <2>2
  <2>4. out[l][x] = TileEntry(Tids(U, ch, h)[a], ch[h].lo, ch[h].hi)  BY <2>1, <2>2, <2>3 DEF Spots
  <2>5. ch[h] \in C  BY <1>4
  <2>6. ch[h].uid \in 1 .. N /\ ch[h].lo < ch[h].hi /\ ch[h].hi <= U[ch[h].uid].tiles
    BY <1>2, <2>5 DEF ChunksOK
  <2>7. UnitOK(p, U[ch[h].uid], set[ch[h].uid]) /\ set[ch[h].uid] \subseteq D  BY <2>6 DEF UnitsOK
  <2>8. Tids(U, ch, h)[a] \in set[ch[h].uid]  BY <2>7 DEF UnitOK, Lists, Tids
  <2>9. NTiles(p[Tids(U, ch, h)[a]]) = U[ch[h].uid].tiles  BY <1>1, <2>6, <2>8 DEF OneCount
  <2> QED BY <2>4, <2>6, <2>7, <2>8, <2>9 DEF Proper, TileEntry
<1> QED BY <1>7, <1>8, <1>9, <1>10 DEF PackOK, E, out

\* One compute phase.
LEMMA PhasePacked ==
  ASSUME NEW p, NEW D \in SUBSET Nat, IsFiniteSet(D), NEW mem, ToSet(mem) = D,
         EdgesEqual(p, D), Counted(p, D)
  PROVE  PackOK(p, D, PackUnits(Units(p, mem)))
<1>1. PICK N, set : UnitsOK(p, D, Units(p, mem), N, set)  BY UnitsOf DEF EdgesEqual
<1> QED BY <1>1, UnitsPacked
------------------------------------------------------------------------------
(* The instructions of one phase *)

\* A program in which only shaped instructions write slices of a concatenation,
\* and none reads what it writes a slice of.
Plain(p) ==
  /\ Len(p) \in Nat
  /\ \A i \in 1 .. Len(p) :
       /\ p[i].n \in Nat
       /\ p[i].disjoint # 0 => p[i].op = "shaped" /\ p[i].dst \notin {p[i].a, p[i].b}

\* No elementwise instruction reads through a folded gather.
Unviewed(p) == \A i \in 1 .. Len(p) : IsMap(p[i]) => ~p[i].view

\* D is a phase of p.
Free(p, D) ==
  /\ D \subseteq 1 .. Len(p)
  /\ \A i, k \in D : i < k => ~Boundary(p[i], p[k])

\* A bounded set of numbers has its greatest one in it.
LEMMA GreatestIs ==
  ASSUME NEW n \in Nat, NEW S \in SUBSET (0 .. n), S # {}
  PROVE  Max(S) \in S /\ \A x \in S : x <= Max(S)
<1> DEFINE T == {n - x : x \in S}
<1>0. \A x \in S : x \in 0 .. n  OBVIOUS
<1>1. T \in SUBSET Nat /\ T # {}
  <2>1. \A x \in 0 .. n : n - x \in Nat  OBVIOUS
  <2>2. \A x \in S : n - x \in Nat  BY <1>0, <2>1
  <2> QED BY <2>2
<1>2. PICK y \in T : \A z \in T : y <= z
  <2> HIDE DEF T
  <2> QED BY <1>1, LeastElement
<1>3. PICK m \in S : y = n - m  OBVIOUS
<1>4. \A x \in S : m >= x
  <2> SUFFICES ASSUME NEW x \in S PROVE m >= x  OBVIOUS
  <2>1. n - m <= n - x  BY <1>2, <1>3
  <2>2. m \in Nat /\ x \in Nat  OBVIOUS
  <2> HIDE DEF T
  <2> QED BY <2>1, <2>2
<1>5. Max(S) \in S /\ \A x \in S : Max(S) >= x  BY <1>4 DEF Max
<1>6. \A x \in S : x \in Int  OBVIOUS
<1> QED BY <1>5, <1>6

\* Two instructions that chain lane-locally have one element count.
LEMMA Chained ==
  ASSUME NEW q, NEW r, ~Boundary(q, r), Depends(q, r)
  PROVE  Fuse /\ IsMap(q) /\ IsMap(r) /\ q.n = r.n /\ Writes(q) \cap Writes(r) = {}
BY DEF Boundary, CrossLane

\* Elementwise instructions write no slices, so each shared buffer counts.
LEMMA MapsDepend ==
  ASSUME NEW p, Plain(p), NEW D, Free(p, D), NEW i \in MapsOf(p, D), NEW k \in MapsOf(p, D),
         \/ Writes(p[i]) \cap Reads(p[k]) # {}
         \/ Reads(p[i]) \cap Writes(p[k]) # {}
         \/ Writes(p[i]) \cap Writes(p[k]) # {}
  PROVE  Depends(p[i], p[k]) /\ Depends(p[k], p[i])
<1>1. p[i].disjoint = 0 /\ p[k].disjoint = 0  BY DEF Plain, Free, MapsOf, IsMap
<1>2. ~SameGroup(p[i], p[k]) /\ ~SameGroup(p[k], p[i])  BY <1>1 DEF SameGroup
<1> QED BY <1>2 DEF Depends

\* In a phase the ends of an edge have one element count.
LEMMA FreeEdges ==
  ASSUME NEW p, Plain(p), NEW D, Free(p, D) PROVE EdgesEqual(p, D)
<1> DEFINE maps == MapsOf(p, D)
<1> SUFFICES ASSUME NEW e \in ChainEdges(p, maps) PROVE p[e[1]].n = p[e[2]].n
  BY DEF EdgesEqual
<1>1. maps \subseteq D /\ D \subseteq 1 .. Len(p) /\ Len(p) \in Nat  BY DEF MapsOf, Free, Plain
<1> HIDE DEF maps
<1>2. e[1] \in maps /\ e[2] \in maps  BY DEF ChainEdges
<1>3. PICK b \in Reads(p[e[2]]) : {i \in maps : b \in Writes(p[i])} # {} /\ e[1] = LastWriter(p, maps, b)
  BY DEF ChainEdges
<1>4. b \in Writes(p[e[1]])
  <2> DEFINE S == {i \in maps : b \in Writes(p[i])}
  <2>0. \A x \in 1 .. Len(p) : x \in 0 .. Len(p)  BY <1>1
  <2>1. S \in SUBSET (0 .. Len(p))  BY <1>1, <2>0
  <2>2. S # {} /\ e[1] = Max(S)  BY <1>3 DEF LastWriter
  <2>3. e[1] \in S
    <3> HIDE DEF S
    <3> QED BY <2>1, <2>2, <1>1, GreatestIs
  <2> QED BY <2>3
<1>5. Depends(p[e[1]], p[e[2]]) /\ Depends(p[e[2]], p[e[1]])
  <2>1. Writes(p[e[1]]) \cap Reads(p[e[2]]) # {}  BY <1>3, <1>4
  <2> QED BY <2>1, <1>2, MapsDepend DEF maps
<1>6. PICK i \in D, k \in D : i = e[1] /\ k = e[2]  BY <1>1, <1>2
<1>7. i \in Nat /\ k \in Nat  BY <1>1
<1>8. CASE i < k  BY <1>5, <1>6, <1>8, Chained DEF Free
<1>9. CASE k < i  BY <1>5, <1>6, <1>9, Chained DEF Free
<1>10. i = k \/ i < k \/ k < i  BY <1>7
<1> QED BY <1>6, <1>8, <1>9, <1>10

\* In a phase a buffer has one elementwise writer.
LEMMA OneMapWriter ==
  ASSUME NEW p, Plain(p), NEW D, Free(p, D), NEW i \in MapsOf(p, D), NEW b \in Writes(p[i])
  PROVE  {h \in MapsOf(p, D) : b \in Writes(p[h])} = {i} /\ LastWriter(p, MapsOf(p, D), b) = i
<1> DEFINE maps == MapsOf(p, D)
<1>1. maps \subseteq D /\ D \subseteq 1 .. Len(p) /\ Len(p) \in Nat  BY DEF MapsOf, Free, Plain
<1>0. \A v \in 1 .. Len(p) : v \in Nat /\ v \in 0 .. Len(p)  BY <1>1
<1>2. ASSUME NEW h \in maps, b \in Writes(p[h]), h # i PROVE FALSE
  <2>1. Writes(p[h]) \cap Writes(p[i]) # {}  BY <1>2
  <2>2. Depends(p[h], p[i]) /\ Depends(p[i], p[h])  BY <2>1, MapsDepend
  <2>3. h \in D /\ i \in D /\ h \in Nat /\ i \in Nat  BY <1>0, <1>1
  <2>4. h < i \/ i < h  BY <1>2, <2>3
  <2>5. ~(h < i)  BY <2>1, <2>2, <2>3, Chained DEF Free
  <2>6. ~(i < h)
    <3>1. Writes(p[i]) \cap Writes(p[h]) # {}  BY <1>2
    <3> QED BY <3>1, <2>2, <2>3, Chained DEF Free
  <2> QED BY <2>4, <2>5, <2>6
<1>3. {h \in maps : b \in Writes(p[h])} = {i}  BY <1>2
<1>4. Max({i}) = i
  <2>1. i \in 0 .. Len(p)  BY <1>0, <1>1
  <2>2. {i} \in SUBSET (0 .. Len(p)) /\ {i} # {}  BY <2>1
  <2>3. Max({i}) \in {i}  BY <2>2, <1>1, GreatestIs
  <2> QED BY <2>3
<1> QED BY <1>3, <1>4 DEF LastWriter

\* A clash is a dependency.
LEMMA ClashDepends ==
  ASSUME NEW p, Plain(p), NEW i \in 1 .. Len(p), NEW k \in 1 .. Len(p), NEW s, NEW t,
         Clash(p[i], s, p[k], t)
  PROVE  Depends(p[i], p[k])
<1>1. PICK b \in (Writes(p[i]) \cap (Reads(p[k]) \cup Writes(p[k]))) \cup (Reads(p[i]) \cap Writes(p[k])) :
        SameGroup(p[i], p[k]) => b \in Reads(p[i]) \cup Reads(p[k])
  BY DEF Clash
<1>2. CASE ~SameGroup(p[i], p[k])  BY <1>1, <1>2 DEF Depends
<1>3. CASE SameGroup(p[i], p[k])
  <2>1. p[i].disjoint # 0 /\ p[k].disjoint # 0  BY <1>3 DEF SameGroup
  <2>2. Writes(p[i]) \cap Reads(p[i]) = {} /\ Writes(p[k]) \cap Reads(p[k]) = {}
    BY <2>1 DEF Plain, Writes, Reads
  <2>3. \/ b \in Writes(p[i]) /\ b \in Reads(p[k]) /\ b \notin Writes(p[k])
        \/ b \in Reads(p[i]) /\ b \in Writes(p[k]) /\ b \notin Writes(p[i])
    BY <1>1, <1>3, <2>2
  <2> QED BY <1>3, <2>3 DEF Depends
<1> QED BY <1>2, <1>3

\* In a phase only the same tile of joined instructions can clash.
LEMMA ClashJoined ==
  ASSUME NEW p, Plain(p), Unviewed(p), NEW D, Free(p, D),
         NEW i \in D, NEW k \in D, i < k, NEW s, NEW t, Clash(p[i], s, p[k], t)
  PROVE  s = t /\ Joined(p, D, i, k)
<1>1. i \in 1 .. Len(p) /\ k \in 1 .. Len(p) /\ ~Boundary(p[i], p[k])  BY DEF Free
<1>2. Depends(p[i], p[k])  BY <1>1, ClashDepends
<1>3. /\ i \in MapsOf(p, D) /\ k \in MapsOf(p, D) /\ Writes(p[i]) \cap Writes(p[k]) = {}
      /\ IsMap(p[i]) /\ IsMap(p[k])
  BY <1>1, <1>2, Chained DEF MapsOf
<1>4. PICK b \in (Writes(p[i]) \cap (Reads(p[k]) \cup Writes(p[k]))) \cup (Reads(p[i]) \cap Writes(p[k])) :
        s = t \/ Spread(p[i], b) \/ Spread(p[k], b)
  BY DEF Clash
<1>5. s = t  BY <1>1, <1>3, <1>4 DEF Spread, Unviewed
<1>6. CASE b \in Writes(p[i]) /\ b \in Reads(p[k])
  <2>1. /\ {h \in MapsOf(p, D) : b \in Writes(p[h])} = {i}
        /\ LastWriter(p, MapsOf(p, D), b) = i
    BY <1>3, <1>6, OneMapWriter
  <2>2. <<i, k>> \in ChainEdges(p, MapsOf(p, D))  BY <1>3, <1>6, <2>1 DEF ChainEdges
  <2> QED BY <1>5, <2>2 DEF Joined
<1>7. CASE b \in Reads(p[i]) /\ b \in Writes(p[k])
  <2>1. /\ {h \in MapsOf(p, D) : b \in Writes(p[h])} = {k}
        /\ LastWriter(p, MapsOf(p, D), b) = k
    BY <1>3, <1>7, OneMapWriter
  <2>2. <<k, i>> \in ChainEdges(p, MapsOf(p, D))  BY <1>3, <1>7, <2>1 DEF ChainEdges
  <2> QED BY <1>5, <2>2 DEF Joined
<1> QED BY <1>3, <1>4, <1>6, <1>7
=============================================================================
