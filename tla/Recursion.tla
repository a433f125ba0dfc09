----------------------------- MODULE Recursion -----------------------------
(***************************************************************************)
(* Facts the proofs share: induction on the naturals, recursive functions, *)
(* sorting, and lists made by appending.                                   *)
(***************************************************************************)
EXTENDS Integers, FiniteSetTheorems, FunctionTheorems, SequenceTheorems,
        WellFoundedInduction, TLAPS

\* A set of naturals has a least element: induction by the least counterexample.
LEMMA LeastElement ==
  ASSUME NEW T \in SUBSET Nat, T # {} PROVE \E n \in T : \A m \in T : n <= m
  <1>1. IsWellFoundedOn(OpToRel(<, Nat), Nat)  BY NatLessThanWellFounded
  <1>2. PICK n \in T : \A m \in T : ~(<<m, n>> \in OpToRel(<, Nat))
    BY <1>1, WFMin
  <1>3. \A m \in T : ~(m < n)  BY <1>2 DEF OpToRel
  <1> QED  BY <1>3

\* Induction up to N, over the set of numbers something holds of.
LEMMA Upto ==
  ASSUME NEW N \in Nat, NEW T, 0 \in T, \A n \in 1 .. N : n - 1 \in T => n \in T
  PROVE  \A n \in 0 .. N : n \in T
  <1> DEFINE F == {n \in 0 .. N : n \notin T}
  <1>1. CASE F # {}
    <2>0. F \in SUBSET Nat  OBVIOUS
    <2>1. PICK n \in F : \A m \in F : n <= m
      <3> HIDE DEF F
      <3> QED  BY <1>1, <2>0, LeastElement
    <2>2. n # 0 /\ n \in 0 .. N  BY <2>1
    <2>3. n - 1 \in 0 .. N /\ n - 1 \notin F  BY <2>1, <2>2
    <2> QED  BY <2>1, <2>2, <2>3
  <1>2. CASE F = {}  BY <1>2
  <1> QED  BY <1>1, <1>2

\* A run starts at s and goes on for N steps.
StepFuns(S, N) == [1 .. N -> [S -> S]]

IsRun(f, S, s, N, step) ==
  /\ f \in [0 .. N -> S] /\ f[0] = s
  /\ \A n \in 1 .. N : f[n] = step[n][f[n - 1]]

\* Every step function has a run: the recursive definitions of the models mean
\* something.
LEMMA Iterated ==
  ASSUME NEW S, NEW s \in S, NEW N \in Nat, NEW step \in StepFuns(S, N)
  PROVE  \E f : IsRun(f, S, s, N, step)
  <1> USE DEF StepFuns
  <1> DEFINE RunsTo(n, f) == f[0] = s /\ \A i \in 1 .. n : f[i] = step[i][f[i - 1]]
             T == {n \in 0 .. N : ~\E f \in [0 .. n -> S] : RunsTo(n, f)}
  <1>1. CASE T = {}
    <2>1. N \notin T  BY <1>1
    <2> QED  BY <2>1 DEF IsRun
  <1>2. CASE T # {}
    <2>0. T \in SUBSET Nat  OBVIOUS
    <2>1. PICK n \in T : \A m \in T : n <= m
      <3> HIDE DEF T
      <3> QED  BY <1>2, <2>0, LeastElement
    <2>2. n # 0
      <3>1. RunsTo(0, [i \in 0 .. 0 |-> s]) /\ [i \in 0 .. 0 |-> s] \in [0 .. 0 -> S]  OBVIOUS
      <3>2. 0 \notin T  BY <3>1
      <3> QED  BY <2>1, <3>2
    <2>3. n - 1 \in 0 .. N /\ n - 1 \notin T
      <3>1. n \in 0 .. N  BY <2>1
      <3> HIDE DEF T
      <3> QED  BY <2>1, <2>2, <3>1
    <2>4. PICK f \in [0 .. n - 1 -> S] : RunsTo(n - 1, f)  BY <2>3
    <2> DEFINE g == [i \in 0 .. n |-> IF i = n THEN step[n][f[n - 1]] ELSE f[i]]
    <2>5. g \in [0 .. n -> S]
      <3>1. f[n - 1] \in S  BY <2>3, <2>4
      <3>2. step[n] \in [S -> S]  BY <2>1, <2>2
      <3> QED  BY <2>3, <2>4, <3>1, <3>2
    <2>6. RunsTo(n, g)
      <3>1. g[0] = s  BY <2>2, <2>3, <2>4
      <3>2. ASSUME NEW i \in 1 .. n PROVE g[i] = step[i][g[i - 1]]
        <4>1. g[i - 1] = f[i - 1]  BY <3>2, <2>3
        <4>2. CASE i = n  BY <4>1, <4>2
        <4>3. CASE i # n
          <5>1. i \in 1 .. n - 1 /\ g[i] = f[i]  BY <2>3, <3>2, <4>3
          <5> QED  BY <2>4, <4>1, <5>1
        <4> QED  BY <4>2, <4>3
      <3> QED  BY <3>1, <3>2
    <2>7. n \notin T  BY <2>5, <2>6
    <2> QED  BY <2>1, <2>7
  <1> QED  BY <1>1, <1>2

\* Two runs of a step function end in the same place.
LEMMA SameEnd ==
  ASSUME NEW f, NEW g, NEW N \in Nat, f[0] = g[0],
         \A n \in 1 .. N : f[n - 1] = g[n - 1] => f[n] = g[n]
  PROVE  f[N] = g[N]
  <1> DEFINE T == {n \in 0 .. N : f[n] = g[n]}
  <1>1. 0 \in T /\ \A n \in 1 .. N : n - 1 \in T => n \in T  OBVIOUS
  <1>2. \A n \in 0 .. N : n \in T
    <2> HIDE DEF T
    <2> QED  BY <1>1, Upto
  <1> QED  BY <1>2
------------------------------------------------------------------------------
(* Sorting a finite set *)

\* Is R a strict total order of S?
Orders(R, S) ==
  /\ \A x \in S : <<x, x>> \notin R
  /\ \A x, y \in S : x = y \/ <<x, y>> \in R \/ <<y, x>> \in R
  /\ \A x, y, z \in S : <<x, y>> \in R /\ <<y, z>> \in R => <<x, z>> \in R

Sorted(S, R) ==
  [k \in 1 .. Cardinality(S) |->
     CHOOSE x \in S : Cardinality({y \in S : <<y, x>> \in R}) = k - 1]

\* f lists the n elements of S, each once, as R orders them.
Lists(f, n, S, R) ==
  /\ n \in Nat /\ f \in [1 .. n -> S]
  /\ \A x \in S : \E k \in 1 .. n : f[k] = x
  /\ \A i, k \in 1 .. n : i < k => <<f[i], f[k]>> \in R

\* Ranking every element by how many are before it sorts the set.
LEMMA Sorting ==
  ASSUME NEW S, IsFiniteSet(S), NEW R, Orders(R, S)
  PROVE  Lists(Sorted(S, R), Cardinality(S), S, R)
<1> DEFINE n == Cardinality(S)
           Below(x) == {y \in S : <<y, x>> \in R}
           rank == [x \in S |-> Cardinality(Below(x))]
           f == Sorted(S, R)
<1>1. n \in Nat  BY FS_CardinalityType
<1>2. ASSUME NEW x \in S PROVE IsFiniteSet(Below(x)) /\ rank[x] \in Nat /\ rank[x] <= n - 1
  <2>1. Below(x) \in SUBSET S /\ x \notin Below(x)  BY DEF Orders
  <2>2. IsFiniteSet(Below(x)) /\ Cardinality(Below(x)) <= n /\ Cardinality(Below(x)) # n
    BY <2>1, FS_Subset
  <2>3. Cardinality(Below(x)) \in Nat  BY <2>2, FS_CardinalityType
  <2>4. rank[x] = Cardinality(Below(x))  OBVIOUS
  <2> HIDE DEF rank, Below, n
  <2> QED BY <1>1, <2>2, <2>3, <2>4
<1>3. rank \in [S -> Nat] /\ \A x \in S : rank[x] = Cardinality(Below(x))
  BY <1>2
<1>4. ASSUME NEW x \in S, NEW y \in S, <<x, y>> \in R PROVE rank[x] < rank[y]
  <2>1. Below(x) \in SUBSET Below(y)  BY <1>4 DEF Orders
  <2>2. Below(x) # Below(y)  BY <1>4 DEF Orders
  <2>3. Cardinality(Below(x)) <= Cardinality(Below(y)) /\ Cardinality(Below(x)) # Cardinality(Below(y))
    BY <1>2, <2>1, <2>2, FS_Subset
  <2>4. rank[x] <= rank[y] /\ rank[x] # rank[y]  BY <1>3, <2>3
  <2>5. rank[x] \in Nat /\ rank[y] \in Nat  BY <1>2
  <2> HIDE DEF rank
  <2> QED BY <2>4, <2>5
<1> HIDE DEF rank
<1>5. ASSUME NEW x \in S, NEW y \in S, rank[x] = rank[y] PROVE x = y
  <2>1. rank[x] \in Nat /\ rank[y] \in Nat  BY <1>3
  <2>2. ~(rank[x] < rank[y]) /\ ~(rank[y] < rank[x])  BY <2>1, <1>5
  <2> QED BY <2>2, <1>4 DEF Orders
<1>6. \A k \in 1 .. n : \E x \in S : rank[x] = k - 1
  <2> DEFINE T == 0 .. n - 1
  <2>1. rank \in Injection(S, T)
    <3>1. ASSUME NEW x \in S PROVE rank[x] \in T
      <4>1. PICK r \in Nat : r = rank[x] /\ r <= n - 1  BY <1>2
      <4> QED BY <1>1, <4>1
    <3>2. rank \in [S -> T]  BY <3>1, <1>3
    <3> HIDE DEF T
    <3> QED BY <3>2, <1>5 DEF Injection, IsInjective
  <2>2. IsFiniteSet(T) /\ Cardinality(T) = n  BY <1>1, FS_Interval
  <2>3. rank \in Surjection(S, T)
    <3> HIDE DEF T
    <3> QED BY <2>1, <2>2, FS_Injection
  <2>4. \A t \in T : \E x \in S : rank[x] = t
    <3> HIDE DEF T
    <3> QED BY <2>3 DEF Surjection
  <2>5. \A k \in 1 .. n : k - 1 \in T  BY <1>1
  <2> QED BY <2>4, <2>5
<1>7. ASSUME NEW k \in 1 .. n PROVE f[k] \in S /\ rank[f[k]] = k - 1
  <2>1. f[k] = CHOOSE x \in S : Cardinality(Below(x)) = k - 1  BY DEF Sorted
  <2>2. \E x \in S : Cardinality(Below(x)) = k - 1  BY <1>3, <1>6
  <2>3. f[k] \in S /\ Cardinality(Below(f[k])) = k - 1
    <3> HIDE DEF Below, f
    <3> QED BY <2>1, <2>2
  <2> QED BY <1>3, <2>3
<1>8. f \in [1 .. n -> S]
  <2>1. f = [k \in 1 .. n |-> CHOOSE x \in S : Cardinality(Below(x)) = k - 1]  BY DEF Sorted
  <2>2. \A k \in 1 .. n : (CHOOSE x \in S : Cardinality(Below(x)) = k - 1) \in S
    BY <2>1, <1>7
  <2> HIDE DEF Below, f, n
  <2> QED BY <2>1, <2>2
<1> HIDE DEF f, n
<1>9. ASSUME NEW x \in S PROVE \E k \in 1 .. n : f[k] = x
  <2>0. PICK r \in Nat : r = rank[x] /\ r <= n - 1  BY <1>2
  <2>1. r + 1 \in 1 .. n /\ (r + 1) - 1 = r  BY <1>1, <2>0
  <2>2. rank[f[r + 1]] = r /\ f[r + 1] \in S  BY <2>1, <1>7
  <2>3. f[r + 1] = x  BY <2>0, <2>2, <1>5
  <2> QED BY <2>1, <2>3
<1>10. ASSUME NEW i \in 1 .. n, NEW k \in 1 .. n, i < k PROVE <<f[i], f[k]>> \in R
  <2>1. rank[f[i]] = i - 1 /\ rank[f[k]] = k - 1 /\ f[i] \in S /\ f[k] \in S  BY <1>7
  <2>2. ~(k - 1 < i - 1) /\ i - 1 # k - 1  BY <1>1, <1>10
  <2>3. f[i] # f[k]  BY <2>1, <2>2
  <2>4. ~(<<f[k], f[i]>> \in R)  BY <2>1, <2>2, <1>4
  <2> QED BY <2>1, <2>3, <2>4 DEF Orders
<1> QED BY <1>1, <1>8, <1>9, <1>10 DEF Lists, n, f
------------------------------------------------------------------------------
(* A list that only grows *)

\* o[K] is what is left of appending part[1], .., part[K] to nothing; at and len
\* are the lengths.
Grows(E, K, o, part, at, len) ==
  /\ o \in [0 .. K -> Seq(E)] /\ part \in [1 .. K -> Seq(E)]
  /\ o[0] = <<>> /\ \A k \in 1 .. K : o[k] = o[k - 1] \o part[k]
  /\ at = [k \in 0 .. K |-> Len(o[k])] /\ len = [k \in 1 .. K |-> Len(part[k])]

\* Part k begins behind o[k - 1] and stays where it is put.
Laid(K, n, o, part, at, len) ==
  /\ \A i \in 1 .. n : \A q \in 1 .. len[i] :
       at[i - 1] + q \in 1 .. at[n] /\ o[n][at[i - 1] + q] = part[i][q]
  /\ \A pos \in 1 .. at[n] : \E i \in 1 .. n : \E q \in 1 .. len[i] : pos = at[i - 1] + q
  /\ \A h \in 1 .. n : at[h - 1] + len[h] <= at[n]

\* Each part adds its length.
LEMMA Lengths ==
  ASSUME NEW E, NEW K \in Nat, NEW o, NEW part, NEW at, NEW len, Grows(E, K, o, part, at, len)
  PROVE  /\ at \in [0 .. K -> Nat] /\ len \in [1 .. K -> Nat] /\ at[0] = 0
         /\ \A k \in 1 .. K : at[k] = at[k - 1] + len[k]
<1>1. at \in [0 .. K -> Nat] /\ len \in [1 .. K -> Nat]  BY DEF Grows
<1>2. at[0] = 0  BY DEF Grows
<1>3. ASSUME NEW k \in 1 .. K PROVE at[k] = at[k - 1] + len[k]
  <2>0. k - 1 \in 0 .. K /\ k \in 0 .. K  OBVIOUS
  <2>1. o[k - 1] \in Seq(E) /\ part[k] \in Seq(E) /\ o[k] = o[k - 1] \o part[k]
    BY <2>0 DEF Grows
  <2>2. Len(o[k]) = Len(o[k - 1]) + Len(part[k])  BY <2>1, ConcatProperties
  <2>3. at[k] = Len(o[k]) /\ at[k - 1] = Len(o[k - 1]) /\ len[k] = Len(part[k])
    BY <2>0 DEF Grows
  <2> QED BY <2>2, <2>3
<1> QED BY <1>1, <1>2, <1>3

\* Another part leaves those before it where they are.
LEMMA OneMorePart ==
  ASSUME NEW E, NEW K \in Nat, NEW o, NEW part, NEW at, NEW len, Grows(E, K, o, part, at, len),
         NEW n \in 1 .. K, Laid(K, n - 1, o, part, at, len)
  PROVE  Laid(K, n, o, part, at, len)
<1>1. at \in [0 .. K -> Nat] /\ len \in [1 .. K -> Nat]  BY Lengths
<1>2. PICK a \in Nat : a = at[n - 1]  BY <1>1
<1>3. PICK b \in Nat : b = len[n]  BY <1>1
<1>4. at[n] = a + b  BY <1>2, <1>3, Lengths
<1>5. \A pos \in 1 .. a + b :
             o[n][pos] = IF pos <= a THEN o[n - 1][pos] ELSE part[n][pos - a]
  <2>0. n - 1 \in 0 .. K  OBVIOUS
  <2>1. o[n - 1] \in Seq(E) /\ part[n] \in Seq(E) /\ o[n] = o[n - 1] \o part[n]
    BY <2>0 DEF Grows
  <2>2. a = Len(o[n - 1]) /\ b = Len(part[n])  BY <2>0, <1>2, <1>3 DEF Grows
  <2> QED BY <2>1, <2>2, ConcatProperties
<1>6. \A pos \in 1 .. a : pos \in 1 .. a + b /\ o[n][pos] = o[n - 1][pos]  BY <1>5
<1>7. ASSUME NEW q \in 1 .. b PROVE a + q \in 1 .. a + b /\ o[n][a + q] = part[n][q]
  <2>1. a + q \in 1 .. a + b /\ ~(a + q <= a) /\ (a + q) - a = q  OBVIOUS
  <2> QED BY <2>1, <1>5
<1>8. ASSUME NEW i \in 1 .. n, NEW q \in 1 .. len[i]
      PROVE  at[i - 1] + q \in 1 .. a + b /\ o[n][at[i - 1] + q] = part[i][q]
  <2>1. CASE i = n  BY <2>1, <1>2, <1>3, <1>7
  <2>2. CASE i # n
    <3>1. i \in 1 .. n - 1  BY <2>2
    <3>2. at[i - 1] + q \in 1 .. a /\ o[n - 1][at[i - 1] + q] = part[i][q]
      BY <1>2, <3>1 DEF Laid
    <3> QED BY <3>2, <1>6
  <2> QED BY <2>1, <2>2
<1>9. ASSUME NEW pos \in 1 .. a + b
      PROVE  \E i \in 1 .. n : \E q \in 1 .. len[i] : pos = at[i - 1] + q
  <2>1. CASE pos <= a
    <3>1. PICK i \in 1 .. n - 1 : \E q \in 1 .. len[i] : pos = at[i - 1] + q
      BY <1>2, <2>1 DEF Laid
    <3>2. i \in 1 .. n  BY <3>1
    <3> QED BY <3>1, <3>2
  <2>2. CASE ~(pos <= a)
    <3>1. pos - a \in 1 .. b /\ pos = a + (pos - a) /\ n \in 1 .. n  BY <2>2
    <3> QED BY <3>1, <1>2, <1>3
  <2> QED BY <2>1, <2>2
<1>10. ASSUME NEW h \in 1 .. n PROVE at[h - 1] + len[h] <= a + b
  <2>1. CASE h = n  BY <1>2, <1>3, <2>1
  <2>2. CASE h # n
    <3>1. h \in 1 .. n - 1 /\ h - 1 \in 0 .. K /\ h \in 1 .. K  BY <2>2
    <3>2. at[h - 1] + len[h] <= a  BY <1>2, <3>1 DEF Laid
    <3>3. at[h - 1] \in Nat /\ len[h] \in Nat  BY <1>1, <3>1
    <3> QED BY <3>2, <3>3
  <2> QED BY <2>1, <2>2
<1> QED BY <1>4, <1>8, <1>9, <1>10 DEF Laid

\* All parts are where they were put.
LEMMA Appended ==
  ASSUME NEW E, NEW K \in Nat, NEW o, NEW part, NEW at, NEW len, Grows(E, K, o, part, at, len)
  PROVE  \A n \in 0 .. K : Laid(K, n, o, part, at, len)
<1> DEFINE T == {n \in 0 .. K : Laid(K, n, o, part, at, len)}
<1>1. 0 \in T
  <2>0. 1 .. 0 = {}  OBVIOUS
  <2>1. at[0] = 0
    <3>1. o[0] = <<>> /\ at = [k \in 0 .. K |-> Len(o[k])] /\ 0 \in 0 .. K  BY DEF Grows
    <3> QED BY <3>1
  <2>2. 1 .. at[0] = {}  BY <2>0, <2>1
  <2>3. Laid(K, 0, o, part, at, len)  BY <2>0, <2>2, Zenon DEF Laid
  <2> QED BY <2>3
<1>2. \A n \in 1 .. K : n - 1 \in T => n \in T  BY OneMorePart
<1>3. \A n \in 0 .. K : n \in T
  <2> HIDE DEF T
  <2> QED BY <1>1, <1>2, Upto
<1> QED BY <1>3

\* Parts lie in the list in the order they came.
LEMMA PartsInOrder ==
  ASSUME NEW E, NEW K \in Nat, NEW o, NEW part, NEW at, NEW len, Grows(E, K, o, part, at, len),
         NEW h \in 1 .. K, NEW i \in 1 .. K, h < i
  PROVE  at[h - 1] + len[h] <= at[i - 1]
<1>1. i - 1 \in 0 .. K /\ h \in 1 .. i - 1  OBVIOUS
<1>2. Laid(K, i - 1, o, part, at, len)  BY <1>1, Appended
<1> QED BY <1>1, <1>2 DEF Laid

\* The steps lead from s through the sets in G.
Leads(N, S, G, s, step) ==
  /\ \A k \in 0 .. N : G[k] \subseteq S
  /\ s \in G[0]
  /\ \A k \in 1 .. N : \A x \in G[k - 1] : step[k][x] \in G[k]

\* g starts at s and goes by the steps as long as it is in the sets.
Heeds(g, N, G, s, step) ==
  /\ g[0] = s
  /\ \A k \in 1 .. N : g[k - 1] \in G[k - 1] => g[k] = step[k][g[k - 1]]

\* Then it stays in them ...
LEMMA Kept ==
  ASSUME NEW N \in Nat, NEW S, NEW G, NEW s, NEW step, Leads(N, S, G, s, step),
         NEW g, Heeds(g, N, G, s, step)
  PROVE  \A k \in 0 .. N : g[k] \in G[k]
  <1> DEFINE T == {k \in 0 .. N : g[k] \in G[k]}
  <1>1. 0 \in T  BY DEF Heeds, Leads
  <1>2. \A k \in 1 .. N : k - 1 \in T => k \in T  BY DEF Heeds, Leads
  <1>3. \A k \in 0 .. N : k \in T
    <2> HIDE DEF T
    <2> QED  BY <1>1, <1>2, Upto
  <1> QED  BY <1>3

\* ... and there is such a run: a recursive definition means something.
LEMMA Reached ==
  ASSUME NEW N \in Nat, NEW S, NEW G, NEW s, NEW step, Leads(N, S, G, s, step)
  PROVE  \E f \in [0 .. N -> S] : /\ f[0] = s
                                  /\ \A k \in 0 .. N : f[k] \in G[k]
                                  /\ \A k \in 1 .. N : f[k] = step[k][f[k - 1]]
  <1> DEFINE by == [k \in 1 .. N |-> [x \in S |-> IF x \in G[k - 1] THEN step[k][x] ELSE x]]
  <1>1. s \in S  BY DEF Leads
  <1>2. by \in StepFuns(S, N)
    <2>1. \A k \in 1 .. N, x \in S : (IF x \in G[k - 1] THEN step[k][x] ELSE x) \in S
      <3>1. \A k \in 1 .. N : k \in 0 .. N  OBVIOUS
      <3> QED  BY <3>1 DEF Leads
    <2> QED  BY <2>1 DEF StepFuns
  <1>3. PICK f : IsRun(f, S, s, N, by)
    <2> HIDE DEF by
    <2> QED  BY <1>1, <1>2, Iterated
  <1>4. f \in [0 .. N -> S] /\ f[0] = s  BY <1>3 DEF IsRun
  <1>5. \A k \in 1 .. N : k - 1 \in 0 .. N /\ f[k - 1] \in S
    <2>1. \A k \in 1 .. N : k - 1 \in 0 .. N  OBVIOUS
    <2> QED  BY <2>1, <1>4
  <1>6. \A k \in 1 .. N : f[k - 1] \in G[k - 1] => f[k] = step[k][f[k - 1]]
    <2>1. \A k \in 1 .. N : f[k] = by[k][f[k - 1]]  BY <1>3 DEF IsRun
    <2> QED  BY <2>1, <1>5
  <1>7. \A k \in 0 .. N : f[k] \in G[k]
    <2>1. Heeds(f, N, G, s, step)  BY <1>4, <1>6 DEF Heeds
    <2> HIDE DEF by
    <2> QED  BY <2>1, Kept
  <1> QED  BY <1>4, <1>5, <1>6, <1>7

\* A function given at some numbers and, at the others, at a smaller one ...
Descends(D, up) == \A i \in D : up[i] \in 1 .. i - 1

Solves(f, L, D, up, base) == \A i \in 1 .. L : f[i] = IF i \in D THEN f[up[i]] ELSE base[i]

\* ... is given: the recursive definition has a solution.
LEMMA Descending ==
  ASSUME NEW L \in Nat, NEW V, NEW base \in [1 .. L -> V], NEW D \in SUBSET (1 .. L),
         NEW up, Descends(D, up)
  PROVE  \E f \in [1 .. L -> V] : Solves(f, L, D, up, base)
  <1> DEFINE S == [1 .. L -> V]
             New(g, k) == IF k \in D THEN g[up[k]] ELSE base[k]
             G == [n \in 0 .. L |-> {g \in S : \A i \in 1 .. n : g[i] = New(g, i)}]
             step == [k \in 1 .. L |-> [g \in S |-> [g EXCEPT ![k] = New(g, k)]]]
  <1>0. \A i \in D : up[i] \in 1 .. i - 1  BY DEF Descends
  <1>1. base \in G[0]  OBVIOUS
  <1>2. ASSUME NEW k \in 1 .. L, NEW g \in G[k - 1] PROVE step[k][g] \in G[k]
    <2>0. k - 1 \in 0 .. L /\ k \in 0 .. L  OBVIOUS
    <2>1. g \in S /\ \A i \in 1 .. k - 1 : g[i] = New(g, i)  BY <2>0
    <2>2. New(g, k) \in V  BY <1>0, <2>1
    <2>3. PICK h : h = [g EXCEPT ![k] = New(g, k)]  OBVIOUS
    <2>4. h \in S /\ h[k] = New(g, k) /\ \A i \in 1 .. L : i # k => h[i] = g[i]  BY <2>1, <2>2, <2>3
    <2>5. ASSUME NEW i \in 1 .. k PROVE New(h, i) = New(g, i)
      <3>1. CASE i \in D
        <4>1. up[i] \in 1 .. L /\ up[i] # k  BY <1>0, <3>1
        <4> QED  BY <4>1, <2>4
      <3> QED  BY <3>1
    <2>6. \A i \in 1 .. k : h[i] = New(h, i)
      <3>1. \A i \in 1 .. k : i = k \/ (i \in 1 .. k - 1 /\ i \in 1 .. L /\ i # k)  OBVIOUS
      <3> HIDE DEF New
      <3> QED  BY <3>1, <2>1, <2>4, <2>5
    <2>7. step[k][g] = h  BY <2>1, <2>3
    <2> HIDE DEF New
    <2> QED  BY <2>0, <2>4, <2>6, <2>7
  <1>3. PICK f : f[L] \in G[L]
    <2> HIDE DEF G, step
    <2>0. \A k \in 1 .. L : \A g \in G[k - 1] : step[k][g] \in G[k]  BY <1>2
    <2>1. \A k \in 0 .. L : G[k] \subseteq S  BY DEF G
    <2>2. PICK f \in [0 .. L -> S] : /\ f[0] = base
                                     /\ \A k \in 0 .. L : f[k] \in G[k]
                                     /\ \A k \in 1 .. L : f[k] = step[k][f[k - 1]]
      <3> HIDE DEF S
      <3>1. Leads(L, S, G, base, step)  BY <1>1, <2>0, <2>1 DEF Leads
      <3> QED  BY <3>1, Reached
    <2> QED  BY <2>2
  <1> QED  BY <1>3 DEF Solves
=============================================================================
