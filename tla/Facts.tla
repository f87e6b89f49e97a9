-------------------------------- MODULE Facts --------------------------------
(***************************************************************************)
(* Facts that the proofs about brute() rest on: induction without an       *)
(* operator as a parameter, sequences, sums, the outlier of a list of      *)
(* counts, and the calls of next() in a round.                             *)
(***************************************************************************)
EXTENDS Generators, Statistics, FiniteSetTheorems, TLAPS

(* Induction without an operator as a parameter: a set of numbers, or of
   finite sets, has a least element.                                         *)
Before == {p \in Nat \X Nat : p[1] < p[2]}

LEMMA BeforeWellFounded == IsWellFoundedOn(Before, Nat)
BY NatLessThanWellFounded, Zenon DEF OpToRel, Before

LEMMA LeastNumber ==
  ASSUME NEW T \in SUBSET Nat, T # {}
  PROVE  \E m \in T : \A n \in T : m <= n
<1>1. PICK m \in T : \A n \in T : <<n, m>> \notin Before
  BY BeforeWellFounded, WFMin, Zenon
<1>2. \A n \in T : ~(n < m)
  BY <1>1 DEF Before
<1> QED BY <1>1, <1>2

LEMMA NumbersInduct ==
  ASSUME NEW S, 0 \in S, \A n \in Nat : n \in S => n + 1 \in S
  PROVE  Nat \subseteq S
<1> SUFFICES ASSUME Nat \ S # {} PROVE FALSE
  OBVIOUS
<1>1. PICK m \in Nat \ S : \A n \in Nat \ S : m <= n
  BY LeastNumber
<1>2. m - 1 \in Nat /\ m - 1 \notin Nat \ S
  BY <1>1
<1> QED BY <1>1, <1>2

LEMMA LeastSet ==
  ASSUME NEW S, IsFiniteSet(S), NEW C \in SUBSET (SUBSET S), C # {}
  PROVE  \E T \in C : \A U \in C : U \subseteq T => U = T
<1>1. C \subseteq FiniteSubsetsOf(S)
  BY FS_Subset DEF FiniteSubsetsOf
<1>2. IsWellFoundedOn(StrictSubsetOrdering(S), FiniteSubsetsOf(S))
  BY FS_StrictSubsetOrderingWellFounded
<1>3. PICK T \in C : \A U \in C : <<U, T>> \notin StrictSubsetOrdering(S)
  BY <1>1, <1>2, WFMin, Zenon
<1>4. ASSUME NEW U \in C, U \subseteq T, U # T
      PROVE  <<U, T>> \in StrictSubsetOrdering(S)
  BY <1>4 DEF StrictSubsetOrdering
<1>5. \A U \in C : U \subseteq T => U = T
  BY <1>3, <1>4
<1> QED BY <1>5

-----------------------------------------------------------------------------
(* Sequences whose elements are of no matter, and those of jobs             *)

IsSeq(s) == \E S : s \in Seq(S)

LEMMA Appended ==
  ASSUME NEW s, IsSeq(s), NEW x
  PROVE  /\ Len(s) \in Nat
         /\ IsSeq(Append(s, x))
         /\ Len(Append(s, x)) = Len(s) + 1
         /\ \A i \in 1..Len(s) : Append(s, x)[i] = s[i]
         /\ Append(s, x)[Len(s) + 1] = x
<1>1. PICK S : s \in Seq(S)
  BY DEF IsSeq
<1>2. s \in Seq(S \cup {x})
  BY <1>1
<1>3. Append(s, x) \in Seq(S \cup {x})
  BY <1>2
<1> QED BY <1>2, <1>3 DEF IsSeq

LEMMA EmptyIsSeq == IsSeq(<<>>) /\ Len(<<>>) = 0
<1>1. <<>> \in Seq({})
  OBVIOUS
<1> QED BY <1>1 DEF IsSeq

\* The elements of s are for the jobs from 1 to n, each of them once.
OneForEach(s, n) ==
  /\ IsSeq(s)
  /\ \A k \in 1..Len(s) : s[k].job \in 1..n
  /\ \A k, l \in 1..Len(s) : s[k].job = s[l].job => k = l
  /\ \A i \in 1..n : \E k \in 1..Len(s) : s[k].job = i

LEMMA OneEach ==
  ASSUME NEW s, NEW n \in Nat, OneForEach(s, n)
  PROVE  Len(s) = n
<1> USE DEF OneForEach
<1>1. Len(s) \in Nat
  BY DEF IsSeq
<1> DEFINE f == [k \in 1..Len(s) |-> s[k].job]
<1>2. f \in [1..Len(s) -> 1..n]
  OBVIOUS
<1>3. \A k, l \in 1..Len(s) : f[k] = f[l] => k = l
  OBVIOUS
<1>4. \A i \in 1..n : \E k \in 1..Len(s) : f[k] = i
  OBVIOUS
<1>5. f \in Bijection(1..Len(s), 1..n)
  <2> HIDE DEF f
  <2> QED BY <1>2, <1>3, <1>4 DEF Bijection, Injection, Surjection, IsInjective
<1>6. ASSUME NEW m \in Nat
      PROVE  IsFiniteSet(1..m) /\ Cardinality(1..m) = m
  BY FS_Interval
<1>7. /\ IsFiniteSet(1..Len(s)) /\ Cardinality(1..Len(s)) = Len(s)
      /\ IsFiniteSet(1..n) /\ Cardinality(1..n) = n
  BY <1>1, <1>6
<1> QED BY <1>5, <1>7, FS_Bijection DEF ExistsBijection

LEMMA LenData ==
  ASSUME NEW s, IsSeq(s)
  PROVE  Len(s) \in Nat /\ DOMAIN s = 1..Len(s)
BY DEF IsSeq

-----------------------------------------------------------------------------
(* Sums of a function over a finite set                                    *)

Pick(s) == CHOOSE x \in s : TRUE

\* g gives the sum of f over each subset of S.
Adds(g, f, S) == g = [s \in SUBSET S |-> IF s = {} THEN 0 ELSE f[Pick(s)] + g[s \ {Pick(s)}]]

Adding(f, S) == CHOOSE g : Adds(g, f, S)

LEMMA SumIs ==
  ASSUME NEW f, NEW S
  PROVE  SumFunctionOnSet(f, S) = Adding(f, S)[S]
BY DEF SumFunctionOnSet, FoldFunctionOnSet, MapThenFoldSet, Adds, Adding, Pick

LEMMA Picked == \A s : s # {} => Pick(s) \in s
BY DEF Pick

LEMMA AddsAt ==
  ASSUME NEW f, NEW S, NEW g, Adds(g, f, S), NEW s \in SUBSET S
  PROVE  g[s] = IF s = {} THEN 0 ELSE f[Pick(s)] + g[s \ {Pick(s)}]
BY DEF Adds

LEMMA AddsUnique ==
  ASSUME NEW f, NEW S, IsFiniteSet(S), NEW g, NEW h, Adds(g, f, S), Adds(h, f, S)
  PROVE  g = h
<1> DEFINE C == {s \in SUBSET S : g[s] # h[s]}
<1>1. C = {}
  <2> SUFFICES ASSUME C # {} PROVE FALSE
    OBVIOUS
  <2>0. C \in SUBSET (SUBSET S)
    OBVIOUS
  <2>1. PICK s \in C : \A u \in C : u \subseteq s => u = s
    <3> HIDE DEF C
    <3> QED BY <2>0, LeastSet
  <2>2. s = {} => g[s] = h[s]
    <3>1. ASSUME NEW e, Adds(e, f, S) PROVE e[{}] = 0
      BY <3>1, AddsAt
    <3> QED BY <3>1
  <2>3. s # {} => Pick(s) \in s
    BY Picked
  <2>4. s # {} => g[s \ {Pick(s)}] = h[s \ {Pick(s)}]
    BY <2>1, <2>3
  <2>5. s # {} => g[s] = h[s]
    BY <2>4, AddsAt
  <2> QED BY <2>1, <2>2, <2>5
<1>2. \A s \in SUBSET S : g[s] = h[s]
  BY <1>1
<1>3. /\ g = [s \in SUBSET S |-> g[s]]
      /\ h = [s \in SUBSET S |-> h[s]]
  BY DEF Adds
<1> QED BY <1>2, <1>3

LEMMA AddsPart ==
  ASSUME NEW f, NEW S, NEW T \in SUBSET S, NEW g, Adds(g, f, S)
  PROVE  Adds([s \in SUBSET T |-> g[s]], f, T)
<1> DEFINE r == [s \in SUBSET T |-> g[s]]
           q == [s \in SUBSET T |-> IF s = {} THEN 0 ELSE f[Pick(s)] + r[s \ {Pick(s)}]]
<1>1. ASSUME NEW s \in SUBSET T
      PROVE  r[s] = q[s]
  <2>1. g[s] = IF s = {} THEN 0 ELSE f[Pick(s)] + g[s \ {Pick(s)}]
    BY AddsAt
  <2> QED BY <2>1
<1>2. r = q
  BY <1>1
<1> QED BY <1>2 DEF Adds

LEMMA AddsExists ==
  ASSUME NEW f, NEW S, IsFiniteSet(S)
  PROVE  Adds(Adding(f, S), f, S)
<1> DEFINE Has(T) == \E g : Adds(g, f, T)
           C == {T \in SUBSET S : ~Has(T)}
<1> HIDE DEF Has
<1>1. ASSUME NEW T, Has(T)
      PROVE  Adds(Adding(f, T), f, T)
  BY <1>1 DEF Adding, Has
<1>2. ASSUME NEW T \in SUBSET S, \A U \in SUBSET T : U # T => Has(U)
      PROVE  Has(T)
  <2> DEFINE sum(s) == Adding(f, s)[s]
             g == [s \in SUBSET T |-> IF s = {} THEN 0 ELSE f[Pick(s)] + sum(s \ {Pick(s)})]
  <2>1. ASSUME NEW s \in SUBSET T, s # T
        PROVE  sum(s) = g[s]
    <3>1. Adds(Adding(f, s), f, s)
      BY <1>1, <1>2, <2>1
    <3>2. s = {} => sum(s) = 0
      BY <3>1, AddsAt
    <3>3. ASSUME s # {}
          PROVE  sum(s) = f[Pick(s)] + sum(s \ {Pick(s)})
      <4> DEFINE u == s \ {Pick(s)}
      <4>1. Pick(s) \in s
        BY <3>3, Picked
      <4>2. u \in SUBSET T /\ u # T /\ IsFiniteSet(u) /\ u \in SUBSET s
        BY <4>1, FS_Subset
      <4>3. Adds(Adding(f, u), f, u)
        BY <1>1, <1>2, <4>2
      <4>4. Adds([v \in SUBSET u |-> Adding(f, s)[v]], f, u)
        BY <3>1, <4>2, AddsPart
      <4>5. Adding(f, u) = [v \in SUBSET u |-> Adding(f, s)[v]]
        BY <4>2, <4>3, <4>4, AddsUnique
      <4>6. Adding(f, u)[u] = Adding(f, s)[u]
        BY <4>5
      <4>7. Adding(f, s)[s] = f[Pick(s)] + Adding(f, s)[u]
        BY <3>1, <3>3, AddsAt
      <4> QED BY <4>6, <4>7
    <3> HIDE DEF sum
    <3> QED BY <3>2, <3>3
  <2>2. ASSUME NEW s \in SUBSET T
        PROVE  g[s] = IF s = {} THEN 0 ELSE f[Pick(s)] + g[s \ {Pick(s)}]
    <3>1. s # {} => s \ {Pick(s)} \in SUBSET T /\ s \ {Pick(s)} # T
      BY Picked
    <3>2. s # {} => sum(s \ {Pick(s)}) = g[s \ {Pick(s)}]
      BY <2>1, <3>1
    <3> QED BY <3>2
  <2>3. Adds(g, f, T)
    <3> DEFINE q == [s \in SUBSET T |-> IF s = {} THEN 0 ELSE f[Pick(s)] + g[s \ {Pick(s)}]]
    <3>1. \A s \in SUBSET T : g[s] = q[s]
      BY <2>2
    <3>2. g = q
      <4> HIDE DEF sum
      <4> QED BY <3>1
    <3> QED BY <3>2 DEF Adds
  <2> QED BY <2>3 DEF Has
<1>3. C = {}
  <2> SUFFICES ASSUME C # {} PROVE FALSE
    OBVIOUS
  <2>0. C \in SUBSET (SUBSET S)
    OBVIOUS
  <2>1. PICK T \in C : \A U \in C : U \subseteq T => U = T
    <3> HIDE DEF C
    <3> QED BY <2>0, LeastSet
  <2> QED BY <1>2, <2>1
<1> QED BY <1>1, <1>3

LEMMA SumEmpty == \A f : SumFunctionOnSet(f, {}) = 0
<1> TAKE f
<1>1. Adds(Adding(f, {}), f, {})
  BY AddsExists, FS_EmptySet
<1> QED BY <1>1, AddsAt, SumIs

LEMMA SumPick ==
  ASSUME NEW f, NEW S, IsFiniteSet(S), S # {}
  PROVE  SumFunctionOnSet(f, S) = f[Pick(S)] + SumFunctionOnSet(f, S \ {Pick(S)})
<1> DEFINE T == S \ {Pick(S)}
<1>1. T \in SUBSET S /\ IsFiniteSet(T)
  BY FS_Subset
<1>2. Adds(Adding(f, S), f, S) /\ Adds(Adding(f, T), f, T)
  BY <1>1, AddsExists
<1>3. Adding(f, T) = [s \in SUBSET T |-> Adding(f, S)[s]]
  <2>1. Adds([s \in SUBSET T |-> Adding(f, S)[s]], f, T)
    BY <1>1, <1>2, AddsPart
  <2> QED BY <1>1, <1>2, <2>1, AddsUnique
<1>4. Adding(f, T)[T] = Adding(f, S)[T]
  BY <1>3
<1>5. Adding(f, S)[S] = f[Pick(S)] + Adding(f, S)[T]
  BY <1>2, AddsAt
<1> QED BY <1>4, <1>5, SumIs

LEMMA SumType ==
  ASSUME NEW f, NEW S, IsFiniteSet(S), \A x \in S : f[x] \in Int
  PROVE  SumFunctionOnSet(f, S) \in Int
<1> DEFINE C == {T \in SUBSET S : SumFunctionOnSet(f, T) \notin Int}
<1>1. C = {}
  <2> SUFFICES ASSUME C # {} PROVE FALSE
    OBVIOUS
  <2>0. C \in SUBSET (SUBSET S)
    OBVIOUS
  <2>1. PICK T \in C : \A U \in C : U \subseteq T => U = T
    <3> HIDE DEF C
    <3> QED BY <2>0, LeastSet
  <2>2. T # {}
    <3>1. SumFunctionOnSet(f, {}) \in Int
      BY SumEmpty
    <3> QED BY <2>1, <3>1
  <2>3. Pick(T) \in T /\ IsFiniteSet(T)
    BY <2>1, <2>2, Picked, FS_Subset
  <2>4. SumFunctionOnSet(f, T \ {Pick(T)}) \in Int /\ f[Pick(T)] \in Int
    BY <2>1, <2>3
  <2>5. SumFunctionOnSet(f, T) = f[Pick(T)] + SumFunctionOnSet(f, T \ {Pick(T)})
    BY <2>2, <2>3, SumPick
  <2> QED BY <2>1, <2>4, <2>5
<1> QED BY <1>1

\* Whatever element comes first, the sum is the same.
LEMMA SumTake ==
  ASSUME NEW f, NEW S, IsFiniteSet(S), \A x \in S : f[x] \in Int, NEW x \in S
  PROVE  SumFunctionOnSet(f, S) = f[x] + SumFunctionOnSet(f, S \ {x})
<1> DEFINE Sum(T) == SumFunctionOnSet(f, T)
           C == {T \in SUBSET S : \E y \in T : Sum(T) # f[y] + Sum(T \ {y})}
<1>0. ASSUME NEW T \in SUBSET S PROVE Sum(T) \in Int /\ IsFiniteSet(T)
  BY SumType, FS_Subset
<1>1. C = {}
  <2> SUFFICES ASSUME C # {} PROVE FALSE
    OBVIOUS
  <2>0. C \in SUBSET (SUBSET S)
    OBVIOUS
  <2>1. PICK T \in C : \A U \in C : U \subseteq T => U = T
    <3> HIDE DEF C
    <3> QED BY <2>0, LeastSet
  <2>2. PICK y \in T : Sum(T) # f[y] + Sum(T \ {y})
    BY <2>1
  <2> DEFINE p == Pick(T)
  <2>3. p \in T /\ Sum(T) = f[p] + Sum(T \ {p})
    BY <1>0, <2>1, <2>2, Picked, SumPick
  <2>4. p # y
    BY <2>2, <2>3
  <2>5. T \ {p} \in SUBSET S /\ T \ {p} \notin C /\ y \in T \ {p}
    BY <2>1, <2>2, <2>3, <2>4
  <2>6. T \ {y} \in SUBSET S /\ T \ {y} \notin C /\ p \in T \ {y}
    BY <2>1, <2>2, <2>3, <2>4
  <2>7. Sum(T \ {p}) = f[y] + Sum((T \ {p}) \ {y})
    BY <2>5
  <2>8. Sum(T \ {y}) = f[p] + Sum((T \ {y}) \ {p})
    BY <2>6
  <2>9. (T \ {p}) \ {y} = (T \ {y}) \ {p}
    OBVIOUS
  <2>10. f[p] \in Int /\ f[y] \in Int /\ Sum((T \ {y}) \ {p}) \in Int
    BY <1>0, <2>1, <2>3, <2>6
  <2>11. Sum((T \ {p}) \ {y}) = Sum((T \ {y}) \ {p})
    BY <2>9
  <2>12. f[y] + (f[p] + Sum((T \ {y}) \ {p})) = f[p] + (f[y] + Sum((T \ {y}) \ {p}))
    <3> HIDE DEF Sum, p
    <3> QED BY <2>10
  <2> HIDE DEF Sum, p, C
  <2> QED BY <2>2, <2>3, <2>7, <2>8, <2>11, <2>12
<1> QED BY <1>1

\* Nor do the names of the elements matter.
LEMMA SumRenamed ==
  ASSUME NEW f, NEW S, IsFiniteSet(S), \A x \in S : f[x] \in Int,
         NEW k, NEW h, \A x, y \in S : h[x] = h[y] => x = y,
         \A x \in S : k[h[x]] = f[x],
         NEW R, R = {h[x] : x \in S}
  PROVE  SumFunctionOnSet(k, R) = SumFunctionOnSet(f, S)
<1> DEFINE Im(T) == {h[x] : x \in T}
           C == {T \in SUBSET S : SumFunctionOnSet(k, Im(T)) # SumFunctionOnSet(f, T)}
<1>1. C = {}
  <2> SUFFICES ASSUME C # {} PROVE FALSE
    OBVIOUS
  <2>0. C \in SUBSET (SUBSET S)
    OBVIOUS
  <2>1. PICK T \in C : \A U \in C : U \subseteq T => U = T
    <3> HIDE DEF C
    <3> QED BY <2>0, LeastSet
  <2>2. T # {}
    <3>1. Im({}) = {}
      OBVIOUS
    <3> QED BY <2>1, <3>1, SumEmpty
  <2>3. PICK x : x \in T
    BY <2>2
  <2>4. IsFiniteSet(T) /\ IsFiniteSet(Im(T)) /\ h[x] \in Im(T)
    <3>1. IsFiniteSet(T)
      BY <2>1, FS_Subset
    <3>2. IsFiniteSet(Im(T))
      <4> DEFINE r == [z \in T |-> h[z]]
      <4>1. r \in Surjection(T, Im(T))
        BY DEF Surjection
      <4> HIDE DEF r
      <4> QED BY <3>1, <4>1, FS_Surjection
    <3> QED BY <2>3, <3>1, <3>2
  <2>5. Im(T) \ {h[x]} = Im(T \ {x})
    BY <2>1, <2>3
  <2>6. SumFunctionOnSet(f, T) = f[x] + SumFunctionOnSet(f, T \ {x})
    BY <2>1, <2>3, <2>4, SumTake
  <2>7. \A z \in Im(T) : k[z] \in Int
    BY <2>1
  <2>8. SumFunctionOnSet(k, Im(T)) = k[h[x]] + SumFunctionOnSet(k, Im(T) \ {h[x]})
    BY <2>4, <2>7, SumTake
  <2>9. SumFunctionOnSet(k, Im(T \ {x})) = SumFunctionOnSet(f, T \ {x})
    BY <2>1, <2>3
  <2> QED BY <2>1, <2>3, <2>5, <2>6, <2>8, <2>9
<1> QED BY <1>1

LEMMA SizeRenamed ==
  ASSUME NEW S, IsFiniteSet(S), NEW h, \A x, y \in S : h[x] = h[y] => x = y
  PROVE  /\ IsFiniteSet({h[x] : x \in S})
         /\ Cardinality({h[x] : x \in S}) = Cardinality(S)
<1> DEFINE T == {h[x] : x \in S}
           r == [x \in S |-> h[x]]
<1>1. r \in Surjection(S, T) /\ r \in Injection(S, T)
  BY DEF Surjection, Injection, IsInjective
<1> HIDE DEF r, T
<1>2. IsFiniteSet(T) /\ Cardinality(T) = Cardinality(S)
  BY <1>1, FS_Surjection
<1> QED BY <1>2 DEF T

-----------------------------------------------------------------------------
(* find_outlier                                                            *)

\* b is what find_outlier knows after each of the first n counts.
BestTo(b, counts, n) ==
  b = [i \in 0..n |->
         IF i = 0 THEN [dist |-> -1, idx |-> 1]
         ELSE IF Distance(counts, i) > b[i - 1].dist
                THEN [dist |-> Distance(counts, i), idx |-> i] ELSE b[i - 1]]

LEMMA BestToIs ==
  ASSUME NEW b, NEW counts, NEW n \in Nat, BestTo(b, counts, n)
  PROVE  /\ b[0] = [dist |-> -1, idx |-> 1]
         /\ \A i \in 1..n : b[i] = IF Distance(counts, i) > b[i - 1].dist
              THEN [dist |-> Distance(counts, i), idx |-> i] ELSE b[i - 1]
<1>1. ASSUME NEW i \in 0..n
      PROVE  b[i] = IF i = 0 THEN [dist |-> -1, idx |-> 1]
                    ELSE IF Distance(counts, i) > b[i - 1].dist
                      THEN [dist |-> Distance(counts, i), idx |-> i] ELSE b[i - 1]
  BY DEF BestTo
<1>2. 0 \in 0..n /\ \A i \in 1..n : i \in 0..n /\ i # 0
  OBVIOUS
<1> QED BY <1>1, <1>2

LEMMA BestExists ==
  ASSUME NEW counts, NEW m \in Nat
  PROVE  \E b : BestTo(b, counts, m)
<1> DEFINE Has(n) == \E b : BestTo(b, counts, n)
           S == {n \in Nat : Has(n)}
<1>1. Has(0)
  <2> DEFINE b == [i \in 0..0 |-> [dist |-> -1, idx |-> 1]]
  <2>1. BestTo(b, counts, 0)
    BY DEF BestTo
  <2> QED BY <2>1
<1>2. ASSUME NEW n \in Nat, Has(n)
      PROVE  Has(n + 1)
  <2>1. PICK b : BestTo(b, counts, n)
    BY <1>2
  <2> DEFINE Step(v, i) == IF Distance(counts, i) > v.dist
                             THEN [dist |-> Distance(counts, i), idx |-> i] ELSE v
             d == [i \in 0..n + 1 |-> IF i = n + 1 THEN Step(b[n], n + 1) ELSE b[i]]
             e == [i \in 0..n + 1 |-> IF i = 0 THEN [dist |-> -1, idx |-> 1]
                                      ELSE Step(d[i - 1], i)]
  <2>2. b[0] = [dist |-> -1, idx |-> 1] /\ \A i \in 1..n : b[i] = Step(b[i - 1], i)
    BY <2>1, BestToIs
  <2>3. ASSUME NEW i \in 0..n + 1
        PROVE  d[i] = e[i]
    <3> HIDE DEF Step
    <3>1. CASE i = n + 1
      <4>1. d[i] = Step(b[n], n + 1) /\ d[n] = b[n] /\ e[i] = Step(d[n], i)
        BY <3>1
      <4> HIDE DEF d, e
      <4> QED BY <3>1, <4>1
    <3>2. CASE i \in 1..n
      <4>1. d[i] = b[i] /\ d[i - 1] = b[i - 1] /\ e[i] = Step(d[i - 1], i)
        BY <3>2
      <4> HIDE DEF d, e
      <4> QED BY <2>2, <3>2, <4>1
    <3>3. CASE i = 0
      <4>1. 0 \in 0..n /\ 0 # n + 1
        OBVIOUS
      <4>2. d[0] = b[0] /\ e[0] = [dist |-> -1, idx |-> 1]
        BY <4>1
      <4> HIDE DEF d, e
      <4> QED BY <2>2, <3>3, <4>2
    <3> QED BY <3>1, <3>2, <3>3
  <2>4. d = e
    <3> HIDE DEF Step
    <3> QED BY <2>3
  <2>5. BestTo(d, counts, n + 1)
    BY <2>4 DEF BestTo
  <2> QED BY <2>5
<1>3. 0 \in S /\ \A n \in Nat : n \in S => n + 1 \in S
  <2> HIDE DEF Has
  <2> QED BY <1>1, <1>2
<1>4. Nat \subseteq S
  <2> HIDE DEF S
  <2> QED BY <1>3, NumbersInduct
<1> QED BY <1>4

\* Counts as find_outlier gets them.
AreCounts(counts) ==
  /\ Len(counts) \in Nat \ {0} /\ DOMAIN counts = 1..Len(counts)
  /\ \A i \in 1..Len(counts) : counts[i] \in Int

LEMMA QuotientType ==
  ASSUME NEW n \in Int, NEW d \in Nat \ {0}
  PROVE  Quotient(n, d) \in Int
<1>1. n \div d \in Int /\ (-n) \div d \in Int
  OBVIOUS
<1> QED BY <1>1 DEF Quotient

LEMMA DistanceType ==
  ASSUME NEW counts, AreCounts(counts)
  PROVE  \A i \in 1..Len(counts) : Distance(counts, i) \in Nat
<1>1. IsFiniteSet(1..Len(counts))
  BY FS_Interval DEF AreCounts
<1>2. SumFunction(counts) \in Int
  BY <1>1, SumType DEF AreCounts, SumFunction
<1>3. get_average(counts) \in Int
  BY <1>2, QuotientType DEF AreCounts, get_average
<1> QED BY <1>3 DEF AreCounts, Distance, Abs

\* The first of the counts that lie farthest from the average.
LEMMA FindsOutlier ==
  ASSUME NEW counts, AreCounts(counts)
  PROVE  LET best == find_outlier(counts)
         IN /\ best \in 1..Len(counts)
            /\ \A i \in 1..Len(counts) :
                 \/ Distance(counts, i) < Distance(counts, best)
                 \/ Distance(counts, i) = Distance(counts, best) /\ best <= i
<1> DEFINE N == Len(counts)
           D(i) == Distance(counts, i)
           b == CHOOSE b : BestTo(b, counts, N)
<1>1. N \in Nat /\ N # 0 /\ \A i \in 1..N : D(i) \in Nat
  BY DistanceType DEF AreCounts
<1>2. BestTo(b, counts, N)
  BY <1>1, BestExists
<1>3. find_outlier(counts) = b[N].idx
  BY DEF find_outlier, BestTo
<1> HIDE DEF b
<1>4. /\ b[0] = [dist |-> -1, idx |-> 1]
      /\ \A i \in 1..N : b[i] = IF D(i) > b[i - 1].dist
                                  THEN [dist |-> D(i), idx |-> i] ELSE b[i - 1]
  BY <1>1, <1>2, BestToIs
<1> HIDE DEF D, N
<1> DEFINE Best(n) ==
             /\ b[n].idx \in 1..n
             /\ b[n].dist = D(b[n].idx)
             /\ \A i \in 1..n : \/ D(i) < b[n].dist
                                \/ D(i) = b[n].dist /\ b[n].idx <= i
           S == {n \in Nat : n \in 1..N => Best(n)}
<1>5. 0 \in S
  OBVIOUS
<1>6. ASSUME NEW n \in Nat, n \in S
      PROVE  n + 1 \in S
  <2> SUFFICES ASSUME n + 1 \in 1..N PROVE Best(n + 1)
    OBVIOUS
  <2>1. b[n + 1] = IF D(n + 1) > b[n].dist THEN [dist |-> D(n + 1), idx |-> n + 1] ELSE b[n]
    BY <1>4
  <2>2. D(n + 1) \in Nat
    BY <1>1
  <2>3. CASE n = 0
    <3>1. b[1] = [dist |-> D(1), idx |-> 1]
      BY <1>4, <2>1, <2>2, <2>3
    <3> QED BY <2>2, <2>3, <3>1
  <2>4. CASE n # 0
    <3>1. Best(n) /\ \A i \in 1..n + 1 : D(i) \in Nat /\ (i \in 1..n \/ i = n + 1)
      BY <1>1, <1>6, <2>4
    <3>2. CASE D(n + 1) > b[n].dist
      <4>1. b[n + 1].dist = D(n + 1) /\ b[n + 1].idx = n + 1
        BY <2>1, <3>2
      <4>2. \A i \in 1..n : D(i) < D(n + 1)
        BY <3>1, <3>2
      <4> QED BY <3>1, <4>1, <4>2
    <3>3. CASE ~(D(n + 1) > b[n].dist)
      <4>1. b[n + 1] = b[n]
        BY <2>1, <3>3
      <4>2. D(n + 1) < b[n].dist \/ D(n + 1) = b[n].dist
        BY <2>2, <3>1, <3>3
      <4> QED BY <3>1, <4>1, <4>2
    <3> QED BY <3>2, <3>3
  <2> QED BY <2>3, <2>4
<1>7. Nat \subseteq S
  <2> HIDE DEF S
  <2> QED BY <1>5, <1>6, NumbersInduct
<1>8. Best(N)
  BY <1>1, <1>7
<1> QED BY <1>3, <1>8 DEF D, N

-----------------------------------------------------------------------------
(* Generators                                                              *)

LEMMA SteppedCounts ==
  ASSUME NEW g, Counting(g)
  PROVE  /\ Counting(Stepped(g))
         /\ Stepped(g).kind = g.kind
         /\ MostOffers(g) \in Nat /\ Item(g) \in Nat
         /\ MostOffers(Stepped(g)) = MostOffers(g)
         /\ Offers(g) => /\ Item(g) < MostOffers(g)
                         /\ Item(Stepped(g)) = Item(g) + 1
<1> USE GeneratorAssumption DEF Counting, Kinds, ByLen, Lengths
<1> DEFINE h == IF g.kind = "argv" THEN SkipEmpty(g) ELSE g
<1>1. Counting(h) /\ h.kind = g.kind /\ MostOffers(h) = MostOffers(g) /\ Item(h) = Item(g)
  BY DEF SkipEmpty, MostOffers, Item
<1>2. MostOffers(g) \in Nat /\ Item(g) \in Nat
  BY DEF MostOffers, Item
<1>3. ASSUME Offers(g) PROVE Item(g) < MostOffers(g)
  <2>1. CASE g.kind \in ByLen
    <3>1. g.len <= g.max
      BY <1>3, <2>1 DEF Offers
    <3> QED BY <2>1, <3>1 DEF MostOffers, Item
  <2>2. CASE g.kind = "stdinchar"
    BY <1>3, <2>2 DEF Offers, StdinCharOffers, MostOffers, Item
  <2>3. CASE g.kind = "argv"
    <3>1. h.cur = g.cur /\ h.cur <= ByteMax
      BY <1>3, <2>3 DEF Offers, ArgvOffers, ArgvTries, SkipEmpty
    <3> QED BY <2>3, <3>1 DEF MostOffers, Item
  <2>4. CASE g.kind = "mem"
    BY <1>3, <2>4 DEF Offers, MostOffers, Item
  <2> QED BY <2>1, <2>2, <2>3, <2>4
<1>4. Stepped(g) = IF ~Offers(g) THEN h
                   ELSE IF g.kind \in ByLen THEN [h EXCEPT !.len = @ + 1]
                   ELSE [h EXCEPT !.cur = @ + 1]
  BY DEF Stepped
<1> HIDE DEF h
<1>5. CASE ~Offers(g)
  BY <1>1, <1>2, <1>4, <1>5
<1>6. CASE Offers(g) /\ g.kind \in ByLen
  <2>1. Stepped(g) = [h EXCEPT !.len = @ + 1]
    BY <1>4, <1>6
  <2>2. Counting(Stepped(g)) /\ Stepped(g).kind = g.kind
    BY <1>1, <1>6, <2>1
  <2>3. MostOffers(Stepped(g)) = MostOffers(g) /\ Item(Stepped(g)) = Item(g) + 1
    BY <1>1, <1>6, <2>1, <2>2 DEF MostOffers, Item
  <2> QED BY <1>2, <1>3, <1>6, <2>2, <2>3
<1>7. CASE Offers(g) /\ g.kind \notin ByLen
  <2>1. Stepped(g) = [h EXCEPT !.cur = @ + 1]
    BY <1>4, <1>7
  <2>2. Counting(Stepped(g)) /\ Stepped(g).kind = g.kind
    BY <1>1, <1>7, <2>1
  <2>3. MostOffers(Stepped(g)) = MostOffers(g) /\ Item(Stepped(g)) = Item(g) + 1
    BY <1>1, <1>7, <2>1, <2>2 DEF MostOffers, Item
  <2> QED BY <1>2, <1>3, <1>7, <2>2, <2>3
<1> QED BY <1>5, <1>6, <1>7

LEMMA UpdatedCounts ==
  ASSUME NEW g, Counting(g), NEW chosen
  PROVE  Counting(Updated(g, chosen)) /\ Updated(g, chosen).kind = g.kind
<1> USE DEF Counting, Kinds, ByLen, Lengths
<1>1. CASE g.kind \in Lengths
  BY <1>1 DEF Updated
<1>2. CASE g.kind = "stdinchar"
  <2>1. Updated(g, chosen) = StdinCharUpdated(g, chosen)
    BY <1>2 DEF Updated
  <2>2. StdinCharUpdated(g, chosen).kind = g.kind /\ StdinCharUpdated(g, chosen).min = g.min
    BY DEF StdinCharUpdated
  <2>3. StdinCharUpdated(g, chosen).cur = g.min
    BY <1>2 DEF StdinCharUpdated
  <2>4. /\ DOMAIN StdinCharUpdated(g, chosen) = DOMAIN g
        /\ StdinCharUpdated(g, chosen) = [x \in DOMAIN g |-> StdinCharUpdated(g, chosen)[x]]
    BY DEF StdinCharUpdated
  <2> QED BY <1>2, <2>1, <2>2, <2>3, <2>4
<1>3. CASE g.kind = "argvlen"
  <2>1. Updated(g, chosen) = ArgvLenUpdated(g, chosen)
    BY <1>3 DEF Updated
  <2> DEFINE u == ArgvLenUpdated(g, chosen)
  <2>2. u.kind = g.kind /\ u.min = g.min /\ u.max = g.max
    BY DEF ArgvLenUpdated
  <2>3. u.len = g.min
    BY <1>3 DEF ArgvLenUpdated
  <2>4. DOMAIN u = DOMAIN g /\ u = [x \in DOMAIN g |-> u[x]]
    BY DEF ArgvLenUpdated
  <2> QED BY <1>3, <2>1, <2>2, <2>3, <2>4
<1>4. CASE g.kind = "argv"
  <2>1. Updated(g, chosen) = ArgvUpdated(g, chosen)
    BY <1>4 DEF Updated
  <2> DEFINE u == ArgvUpdated(g, chosen)
  <2>2. u.kind = g.kind /\ u.min = g.min
    BY DEF ArgvUpdated
  <2>3. u.cur \in Nat
    BY <1>4 DEF ArgvUpdated
  <2>4. DOMAIN u = DOMAIN g /\ u = [x \in DOMAIN g |-> u[x]]
    BY DEF ArgvUpdated
  <2> QED BY <1>4, <2>1, <2>2, <2>3, <2>4
<1>5. CASE g.kind = "mem"
  BY <1>5 DEF Updated, MemUpdated
<1> QED BY <1>1, <1>2, <1>3, <1>4, <1>5

-----------------------------------------------------------------------------
(* Calls(g)                                                                *)

After(G) == {Stepped(h) : h \in {h \in G : Offers(h)}}

\* c is what Calls computes, up to the n-th call.
CallsTo(c, g, n) == c = [i \in 0..n |-> IF i = 0 THEN {g} ELSE {g} \cup After(c[i - 1])]

LEMMA CallsToAre ==
  ASSUME NEW c, NEW g, NEW n \in Nat, CallsTo(c, g, n)
  PROVE  c[0] = {g} /\ \A i \in 1..n : c[i] = {g} \cup After(c[i - 1])
<1>1. ASSUME NEW i \in 0..n
      PROVE  c[i] = IF i = 0 THEN {g} ELSE {g} \cup After(c[i - 1])
  BY DEF CallsTo
<1>2. 0 \in 0..n /\ \A i \in 1..n : i \in 0..n /\ i # 0
  OBVIOUS
<1> QED BY <1>1, <1>2

LEMMA CallsAre ==
  ASSUME NEW g, MostOffers(g) \in Nat
  PROVE  \E c : CallsTo(c, g, MostOffers(g)) /\ Calls(g) = c[MostOffers(g)]
<1> DEFINE Has(n) == \E c : CallsTo(c, g, n)
           S == {n \in Nat : Has(n)}
<1>1. Has(0)
  <2> DEFINE c == [i \in 0..0 |-> {g}]
  <2>1. CallsTo(c, g, 0)
    BY DEF CallsTo
  <2> QED BY <2>1
<1>2. ASSUME NEW n \in Nat, Has(n)
      PROVE  Has(n + 1)
  <2>1. PICK c : CallsTo(c, g, n)
    BY <1>2
  <2> DEFINE d == [i \in 0..n + 1 |-> IF i = n + 1 THEN {g} \cup After(c[n]) ELSE c[i]]
             e == [i \in 0..n + 1 |-> IF i = 0 THEN {g} ELSE {g} \cup After(d[i - 1])]
  <2>2. c[0] = {g} /\ \A k \in 1..n : c[k] = {g} \cup After(c[k - 1])
    BY <2>1, CallsToAre
  <2>3. ASSUME NEW i \in 0..n + 1
        PROVE  d[i] = e[i]
    <3>1. CASE i = n + 1
      BY <3>1
    <3>2. CASE i \in 1..n
      <4>1. d[i] = c[i] /\ d[i - 1] = c[i - 1]
        BY <3>2
      <4>2. e[i] = {g} \cup After(d[i - 1])
        BY <3>2
      <4>3. c[i] = {g} \cup After(c[i - 1])
        BY <2>2, <3>2
      <4>4. After(d[i - 1]) = After(c[i - 1])
        <5> HIDE DEF d
        <5> QED BY <4>1
      <4> HIDE DEF d, e
      <4> QED BY <4>1, <4>2, <4>3, <4>4
    <3>3. CASE i = 0
      <4>1. 0 \in 0..n /\ 0 # n + 1
        OBVIOUS
      <4>2. d[0] = c[0] /\ e[0] = {g}
        BY <4>1
      <4> HIDE DEF d, e
      <4> QED BY <2>2, <3>3, <4>2
    <3> QED BY <3>1, <3>2, <3>3
  <2>4. d = e
    BY <2>3
  <2>5. CallsTo(d, g, n + 1)
    BY <2>4 DEF CallsTo
  <2> QED BY <2>5
<1>3. Has(MostOffers(g))
  <2> HIDE DEF Has
  <2>1. 0 \in S /\ \A n \in Nat : n \in S => n + 1 \in S
    BY <1>1, <1>2
  <2>2. Nat \subseteq S
    <3> HIDE DEF S
    <3> QED BY <2>1, NumbersInduct
  <2> QED BY <2>2
<1>4. Calls(g) = (CHOOSE c : CallsTo(c, g, MostOffers(g)))[MostOffers(g)]
  BY DEF Calls, CallsTo, After
<1> QED BY <1>3, <1>4

\* A set that has g, and with a generator the next one, has all of them.
LEMMA CallsWithin ==
  ASSUME NEW g, MostOffers(g) \in Nat, NEW H, g \in H, After(H) \subseteq H
  PROVE  Calls(g) \subseteq H
<1>1. PICK c : CallsTo(c, g, MostOffers(g)) /\ Calls(g) = c[MostOffers(g)]
  BY CallsAre
<1> DEFINE M == MostOffers(g)
           S == {n \in Nat : n \in 0..M => c[n] \subseteq H}
<1>2. c[0] = {g} /\ \A i \in 1..M : c[i] = {g} \cup After(c[i - 1])
  BY <1>1, CallsToAre
<1>3. 0 \in S
  BY <1>2
<1>4. ASSUME NEW n \in Nat, n \in S
      PROVE  n + 1 \in S
  <2>1. ASSUME n + 1 \in 0..M
        PROVE  c[n + 1] \subseteq H
    <3>1. c[n] \subseteq H
      BY <1>4, <2>1
    <3>2. After(c[n]) \subseteq After(H)
      BY <3>1 DEF After
    <3> QED BY <1>2, <2>1, <3>2
  <2> QED BY <2>1
<1>5. Nat \subseteq S
  <2> HIDE DEF S
  <2> QED BY <1>3, <1>4, NumbersInduct
<1> QED BY <1>1, <1>5

LEMMA CallsClosed ==
  ASSUME NEW g, Counting(g)
  PROVE  /\ g \in Calls(g)
         /\ After(Calls(g)) \subseteq Calls(g)
         /\ \A h \in Calls(g) : Counting(h) /\ h.kind = g.kind
<1> DEFINE M == MostOffers(g)
<1>1. M \in Nat /\ Item(g) \in Nat
  BY SteppedCounts
<1>2. PICK c : CallsTo(c, g, M) /\ Calls(g) = c[M]
  BY <1>1, CallsAre
<1>3. c[0] = {g} /\ \A i \in 1..M : c[i] = {g} \cup After(c[i - 1])
  BY <1>1, <1>2, CallsToAre
<1> DEFINE Good(h) == Counting(h) /\ h.kind = g.kind /\ MostOffers(h) = M
           \* those of the n-th call that the one before did not have
           New(n) == \A h \in c[n] : (n # 0 /\ h \in c[n - 1]) \/ Item(h) >= n
           Fine(n) == /\ g \in c[n]
                      /\ \A h \in c[n] : Good(h)
                      /\ New(n)
                      /\ n # 0 => c[n - 1] \subseteq c[n]
           S == {n \in Nat : n \in 0..M => Fine(n)}
<1> HIDE DEF M
<1>4. 0 \in S
  BY <1>1, <1>3 DEF M
<1>5. ASSUME NEW n \in Nat, n \in S
      PROVE  n + 1 \in S
  <2> SUFFICES ASSUME n + 1 \in 0..M
               PROVE  /\ g \in c[n + 1]
                      /\ \A h \in c[n + 1] : Good(h)
                      /\ New(n + 1)
                      /\ c[n] \subseteq c[n + 1]
    <3>1. (n + 1) - 1 = n
      OBVIOUS
    <3> QED BY <3>1
  <2>1. /\ g \in c[n] /\ \A h \in c[n] : Good(h)
        /\ New(n)
        /\ n # 0 => c[n - 1] \subseteq c[n]
    BY <1>1, <1>5
  <2>2. c[n + 1] = {g} \cup After(c[n])
    BY <1>1, <1>3
  <2>3. \A h \in c[n + 1] : Good(h)
    <3>1. ASSUME NEW h \in c[n], Offers(h) PROVE Good(Stepped(h))
      BY <2>1, <3>1, SteppedCounts
    <3> QED BY <2>1, <2>2, <3>1 DEF After
  <2>4. c[n] \subseteq c[n + 1]
    <3>1. CASE n = 0
      BY <1>3, <2>2, <3>1
    <3>2. CASE n # 0
      <4>1. c[n] = {g} \cup After(c[n - 1])
        BY <1>1, <1>3, <3>2
      <4> QED BY <2>1, <2>2, <3>2, <4>1 DEF After
    <3> QED BY <3>1, <3>2
  <2>5. New(n + 1)
    <3>1. ASSUME NEW h \in c[n + 1], h \notin c[n]
          PROVE  Item(h) >= n + 1
      <4>1. PICK k \in c[n] : Offers(k) /\ h = Stepped(k)
        BY <2>1, <2>2, <3>1 DEF After
      <4>2. ~(n # 0 /\ k \in c[n - 1])
        <5>1. ASSUME n # 0, k \in c[n - 1]
              PROVE  h \in c[n]
          <6>1. c[n] = {g} \cup After(c[n - 1])
            BY <1>1, <1>3, <5>1
          <6> QED BY <4>1, <5>1, <6>1 DEF After
        <5> QED BY <3>1, <5>1
      <4>3. Item(k) >= n
        BY <2>1, <4>2
      <4>4. Item(h) = Item(k) + 1 /\ Item(k) \in Nat
        BY <2>1, <4>1, SteppedCounts
      <4> QED BY <4>3, <4>4
    <3>2. (n + 1) - 1 = n
      OBVIOUS
    <3> QED BY <3>1, <3>2
  <2> QED BY <2>1, <2>2, <2>3, <2>4, <2>5
<1>6. Nat \subseteq S
  <2> HIDE DEF S
  <2> QED BY <1>4, <1>5, NumbersInduct
<1>7. /\ g \in c[M] /\ \A h \in c[M] : Good(h)
      /\ New(M)
      /\ M # 0 => c[M] = {g} \cup After(c[M - 1])
  BY <1>1, <1>3, <1>6
<1>8. ASSUME NEW h \in c[M], Offers(h)
      PROVE  Stepped(h) \in c[M]
  <2>1. Item(h) < M /\ Item(h) \in Nat
    BY <1>7, <1>8, SteppedCounts
  <2>2. M # 0 /\ h \in c[M - 1]
    BY <1>1, <1>7, <2>1
  <2> QED BY <1>7, <1>8, <2>2 DEF After
<1> QED BY <1>2, <1>7, <1>8 DEF After

-----------------------------------------------------------------------------
(* What generators promise                                                 *)

LEMMA SteppedFits ==
  ASSUME NEW g, Counting(g), Fits(g)
  PROVE  Fits(Stepped(g))
<1> USE DEF Counting, Fits, HasLengths, Kinds, ByLen, Lengths
<1> DEFINE h == IF g.kind = "argv" THEN SkipEmpty(g) ELSE g
<1>1. /\ h.kind = g.kind /\ h.max = g.max /\ h.min = g.min
      /\ DOMAIN h = DOMAIN g /\ h = [x \in DOMAIN h |-> h[x]]
  BY DEF SkipEmpty
<1>2. Fits(h)
  <2>1. CASE g.kind # "argv"
    BY <2>1
  <2>2. CASE g.kind = "argv"
    <3>1. h.argc = g.argc /\ h.len = g.len /\ h.idx = g.idx
      BY <2>2 DEF SkipEmpty
    <3>2. h.pos = g.pos \/ (h.pos = g.pos + 1 /\ g.len[g.pos] = 0)
      BY <2>2 DEF SkipEmpty
    <3>3. h.idx = 0 \/ (h.pos <= h.argc /\ h.idx < h.len[h.pos])
      <4>1. CASE h.pos = g.pos
        BY <2>2, <3>1, <4>1
      <4>2. CASE h.pos = g.pos + 1 /\ g.len[g.pos] = 0
        BY <2>2, <3>1, <4>2
      <4> QED BY <3>2, <4>1, <4>2
    <3> HIDE DEF h
    <3> QED BY <1>1, <2>2, <3>1, <3>2, <3>3
  <2> QED BY <2>1, <2>2
<1>3. Stepped(g) = IF ~Offers(g) THEN h
                   ELSE IF g.kind \in ByLen THEN [h EXCEPT !.len = @ + 1]
                   ELSE [h EXCEPT !.cur = @ + 1]
  BY DEF Stepped
<1> HIDE DEF h
<1>4. CASE ~Offers(g)
  BY <1>2, <1>3, <1>4
<1>5. CASE Offers(g) /\ g.kind \in ByLen
  BY <1>1, <1>2, <1>3, <1>5
<1>6. CASE Offers(g) /\ g.kind \notin ByLen
  <2>1. Stepped(g) = [h EXCEPT !.cur = @ + 1]
    BY <1>3, <1>6
  <2> HIDE DEF Fits
  <2>2. /\ Stepped(g).kind = h.kind /\ Stepped(g).max = h.max /\ Stepped(g).min = h.min
        /\ DOMAIN Stepped(g) = DOMAIN h
        /\ Stepped(g).pos = h.pos /\ Stepped(g).idx = h.idx
        /\ Stepped(g).argc = h.argc /\ Stepped(g).len = h.len
    BY <2>1
  <2> QED BY <1>1, <1>2, <1>6, <2>2 DEF Fits, HasLengths
<1> QED BY <1>4, <1>5, <1>6

LEMMA UpdatedFits ==
  ASSUME NEW g, Counting(g), Fits(g), NEW chosen
  PROVE  Fits(Updated(g, chosen))
<1> USE DEF Counting, Fits, HasLengths, Kinds, ByLen, Lengths
<1>1. CASE g.kind \in Lengths
  BY <1>1 DEF Updated
<1>2. CASE g.kind = "stdinchar"
  <2>1. Updated(g, chosen) = StdinCharUpdated(g, chosen)
    BY <1>2 DEF Updated
  <2> QED BY <1>2, <2>1 DEF StdinCharUpdated
<1>3. CASE g.kind = "argvlen"
  <2>1. Updated(g, chosen) = ArgvLenUpdated(g, chosen)
    BY <1>3 DEF Updated
  <2> QED BY <1>3, <2>1 DEF ArgvLenUpdated
<1>4. CASE g.kind = "argv"
  <2>1. Updated(g, chosen) = ArgvUpdated(g, chosen)
    BY <1>4 DEF Updated
  <2> DEFINE u == ArgvUpdated(g, chosen)
             full == g.idx + 1 >= g.len[g.pos]
  <2>2. CASE g.pos > g.argc
    <3>1. u = g
      BY <2>2 DEF ArgvUpdated
    <3> QED BY <2>1, <3>1
  <2>3. CASE ~(g.pos > g.argc)
    <3>1. /\ u.kind = g.kind /\ u.min = g.min /\ u.max = g.max /\ DOMAIN u = DOMAIN g
          /\ u.argc = g.argc /\ u.len = g.len
      BY <1>4, <2>3 DEF ArgvUpdated
    <3>2. u.idx = IF full THEN 0 ELSE g.idx + 1
      BY <1>4, <2>3 DEF ArgvUpdated
    <3>3. u.pos = IF full THEN g.pos + 1 ELSE g.pos
      BY <1>4, <2>3 DEF ArgvUpdated
    <3>4. g.pos \in 1..g.argc /\ g.len[g.pos] \in Nat
      BY <1>4, <2>3
    <3> HIDE DEF u
    <3>5. u.idx \in Nat /\ u.pos \in Nat \ {0}
      BY <1>4, <3>2, <3>3
    <3>6. u.idx = 0 \/ (u.pos <= u.argc /\ u.idx < u.len[u.pos])
      BY <1>4, <3>1, <3>2, <3>3, <3>4
    <3>7. Fits(u)
      BY <1>4, <3>1, <3>5, <3>6
    <3> QED BY <2>1, <3>7 DEF u
  <2> QED BY <2>2, <2>3
<1>5. CASE g.kind = "mem"
  BY <1>5 DEF Updated, MemUpdated
<1> QED BY <1>1, <1>2, <1>3, <1>4, <1>5

\* What update() promises, next() keeps.
LEMMA MoreMeansOffers ==
  ASSUME NEW g, Counting(g), Fits(g), NEW chosen, More(g, chosen)
  PROVE  Offers(Updated(g, chosen))
<1> DEFINE u == Updated(g, chosen)
<1>1. u.kind = g.kind /\ Fits(u) /\ g.kind \in Kinds
  BY UpdatedCounts, UpdatedFits DEF Counting
<1> USE GeneratorAssumption DEF Counting, Kinds, ByLen, Lengths
<1>2. CASE g.kind \in Lengths
  BY <1>1, <1>2 DEF More
<1>3. CASE g.kind = "stdinchar"
  <2>1. u = StdinCharUpdated(g, chosen)
    BY <1>3 DEF Updated
  <2>2. u.cur = g.min /\ u.max = g.max
    BY <1>3, <2>1 DEF StdinCharUpdated
  <2>3. u.padlen # Absent /\ u.idx < u.padlen
    BY <1>1, <1>3 DEF More
  <2>4. u.cur <= ByteMax /\ u.cur <= u.max
    BY <1>3, <2>2 DEF Fits
  <2> QED BY <1>1, <1>3, <2>3, <2>4 DEF Offers, StdinCharOffers
<1>4. CASE g.kind = "argvlen"
  <2>1. u = ArgvLenUpdated(g, chosen)
    BY <1>4 DEF Updated
  <2>2. u.len = g.min /\ u.max = g.max
    BY <1>4, <2>1 DEF ArgvLenUpdated
  <2> QED BY <1>1, <1>4, <2>2 DEF Offers, Fits
<1>5. CASE g.kind = "argv"
  <2>1. u = ArgvUpdated(g, chosen)
    BY <1>5 DEF Updated
  <2>2. u.pos <= u.argc
    BY <1>1, <1>5 DEF More
  <2>3. ~(g.pos > g.argc)
    <3>1. g.pos > g.argc => u = g
      BY <2>1 DEF ArgvUpdated
    <3> QED BY <1>5, <2>2, <3>1 DEF Fits
  <2>4. u.cur = g.min /\ u.max = g.max
    BY <1>5, <2>1, <2>3 DEF ArgvUpdated
  <2>5. /\ u.argc \in Nat /\ u.pos \in 1..u.argc /\ u.idx \in Nat /\ u.argc # 0
        /\ {"pos", "idx"} \subseteq DOMAIN u /\ 1..u.argc \subseteq DOMAIN u.len
    BY <1>1, <1>5, <2>2 DEF Fits, HasLengths
  <2> DEFINE h == SkipEmpty(u)
  <2> HIDE DEF u
  <2>6. /\ h.argc = u.argc /\ h.len = u.len /\ h.idx = u.idx /\ h.cur = u.cur /\ h.max = u.max
        /\ h.pos = IF u.len[u.pos] = 0 THEN u.pos + 1 ELSE u.pos
    BY <2>5 DEF SkipEmpty
  <2> HIDE DEF h
  <2>7. h.pos <= h.argc /\ h.idx < h.len[h.pos]
    <3>1. CASE u.len[u.pos] = 0
      BY <1>1, <1>5, <2>5, <2>6, <3>1 DEF Fits
    <3>2. CASE u.len[u.pos] # 0
      BY <1>1, <1>5, <2>5, <2>6, <3>2 DEF Fits
    <3> QED BY <3>1, <3>2
  <2>8. h.cur <= ByteMax /\ h.cur <= h.max
    BY <1>5, <2>4, <2>6 DEF Fits
  <2>9. ArgvOffers(u)
    <3>1. h.pos \in 1..h.argc
      BY <2>5, <2>6, <2>7
    <3>2. h.pos \in DOMAIN h.len /\ HasLengths(h) /\ HasLengths(u)
      BY <2>5, <2>6, <3>1 DEF HasLengths
    <3> QED BY <2>5, <2>6, <2>7, <2>8, <3>2 DEF ArgvOffers, ArgvTries, h
  <2> QED BY <1>1, <1>5, <2>9 DEF Offers, u
<1>6. CASE g.kind = "mem"
  <2>1. u.cur = 0
    BY <1>6 DEF Updated, MemUpdated
  <2>2. ~finished(u)
    BY <1>1, <1>6 DEF More
  <2> QED BY <1>1, <1>6, <2>1, <2>2 DEF Offers
<1> QED BY <1>2, <1>3, <1>4, <1>5, <1>6

\* Generators of one round differ in what next() counts up, and in how far they
\* have stepped over an argument of length zero.
Moves(g) ==
  IF g.kind \in ByLen THEN {"len"} ELSE IF g.kind = "argv" THEN {"cur", "pos"} ELSE {"cur"}

Sibling(h, g) ==
  /\ DOMAIN h = DOMAIN g /\ h = [x \in DOMAIN h |-> h[x]]
  /\ \A x \in DOMAIN g \ Moves(g) : h[x] = g[x]
  /\ g.kind = "argv" => SkipEmpty(h).pos = SkipEmpty(g).pos

LEMMA CallsAreSiblings ==
  ASSUME NEW g, Counting(g), TellsApart(g)
  PROVE  \A h \in Calls(g) : Sibling(h, g)
<1> DEFINE H == {h \in Calls(g) : Sibling(h, g)}
<1>1. g \in H
  BY CallsClosed DEF Sibling, Counting
<1>2. ASSUME NEW h \in H, Offers(h)
      PROVE  Stepped(h) \in H
  <2>1. Stepped(h) \in Calls(g) /\ h.kind = g.kind /\ Sibling(h, g) /\ g.kind \in Kinds
    BY <1>2, CallsClosed DEF After, Counting
  <2>2. CASE g.kind \in ByLen
    <3>1. Stepped(h) = [h EXCEPT !.len = @ + 1]
      BY <1>2, <2>1, <2>2 DEF Stepped, ByLen, Lengths
    <3>2. Sibling(Stepped(h), g)
      BY <2>1, <2>2, <3>1 DEF Sibling, Moves, ByLen, Lengths
    <3> QED BY <2>1, <3>2
  <2>3. CASE g.kind \in {"stdinchar", "mem"}
    <3>1. Stepped(h) = [h EXCEPT !.cur = @ + 1]
      BY <1>2, <2>1, <2>3 DEF Stepped, ByLen, Lengths
    <3>2. Sibling(Stepped(h), g)
      BY <2>1, <2>3, <3>1 DEF Sibling, Moves, ByLen, Lengths
    <3> QED BY <2>1, <3>2
  <2>4. CASE g.kind = "argv"
    <3> DEFINE k == SkipEmpty(h)
               u == Stepped(h)
    <3>1. u = [k EXCEPT !.cur = @ + 1]
      BY <1>2, <2>1, <2>4 DEF Stepped, ByLen, Lengths
    <3>2. /\ DOMAIN k = DOMAIN h /\ k = [x \in DOMAIN k |-> k[x]]
          /\ \A x \in DOMAIN h \ {"pos"} : k[x] = h[x]
      BY <2>1 DEF SkipEmpty, Sibling
    <3>3. ArgvOffers(h)
      BY <1>2, <2>1, <2>4 DEF Offers, ByLen, Lengths
    <3>4. k.argc # 0 /\ k.pos <= k.argc /\ k.idx < k.len[k.pos]
      BY <3>3 DEF ArgvOffers, ArgvTries
    <3> HIDE DEF k
    <3>5. {"argc", "len", "idx", "pos", "cur"} \subseteq DOMAIN g /\ g.idx \in Nat
      BY <2>4 DEF TellsApart, Counting, ByLen, Lengths
    <3>6. DOMAIN h = DOMAIN g
      BY <2>1 DEF Sibling
    <3>7. k.idx = g.idx
      BY <2>1, <2>4, <3>2, <3>5, <3>6 DEF Sibling, Moves, ByLen, Lengths
    <3>8. k.len[k.pos] # 0
      BY <3>4, <3>5, <3>7
    <3>9. /\ DOMAIN u = DOMAIN k /\ u = [x \in DOMAIN u |-> u[x]]
          /\ \A x \in DOMAIN k \ {"cur"} : u[x] = k[x]
      BY <3>1, <3>2
    <3> HIDE DEF u
    <3>10. u.argc = k.argc /\ u.len = k.len /\ u.pos = k.pos
      BY <3>2, <3>5, <3>6, <3>9
    <3>11. SkipEmpty(u).pos = SkipEmpty(g).pos
      <4>1. SkipEmpty(u) = u
        BY <3>8, <3>10 DEF SkipEmpty
      <4>2. SkipEmpty(h).pos = SkipEmpty(g).pos
        BY <2>1, <2>4 DEF Sibling
      <4> QED BY <3>10, <4>1, <4>2 DEF k
    <3>12. \A x \in DOMAIN g \ {"cur", "pos"} : u[x] = g[x]
      <4>1. \A x \in DOMAIN g \ {"cur", "pos"} : h[x] = g[x]
        BY <2>1, <2>4 DEF Sibling, Moves, ByLen, Lengths
      <4> QED BY <3>2, <3>6, <3>9, <4>1
    <3>13. Sibling(u, g)
      <4>1. Moves(g) = {"cur", "pos"}
        BY <2>4 DEF Moves, ByLen, Lengths
      <4>2. DOMAIN u = DOMAIN g
        BY <3>2, <3>6, <3>9
      <4> QED BY <3>9, <3>11, <3>12, <4>1, <4>2 DEF Sibling
    <3> QED BY <2>1, <3>13 DEF u
  <2> QED BY <2>1, <2>2, <2>3, <2>4 DEF Kinds
<1>3. MostOffers(g) \in Nat
  BY SteppedCounts
<1>4. After(H) \subseteq H
  BY <1>2 DEF After
<1>5. Calls(g) \subseteq H
  <2> HIDE DEF H
  <2> QED BY <1>1, <1>3, <1>4, CallsWithin
<1> QED BY <1>5

\* What combine() takes from the second of its inputs.
LEMMA Combined ==
  ASSUME NEW s, NEW t, DOMAIN s = DOMAIN Input
  PROVE  /\ combine(s, t).argv = Or(t.argv, s.argv)
         /\ combine(s, t).stdinlen = Or(t.stdinlen, s.stdinlen)
         /\ combine(s, t).stdin = Or(t.stdin, s.stdin)
         /\ combine(s, t).mem = Or(t.mem, s.mem)
<1>1. {"argv", "stdinlen", "stdin", "mem"} \subseteq DOMAIN s
  BY DEF Input
<1> QED BY <1>1 DEF combine

LEMMA SameInterval ==
  ASSUME NEW m \in Nat, NEW n \in Nat, 1..m = 1..n
  PROVE  m = n
<1>1. m # 0 => m \in 1..m
  OBVIOUS
<1>2. n # 0 => n \in 1..n
  OBVIOUS
<1> QED BY <1>1, <1>2

LEMMA Padded ==
  ASSUME NEW s, NEW n \in Nat
  PROVE  DOMAIN PadTo(s, n) = 1..n /\ \A i \in 1..n : i <= Len(s) => PadTo(s, n)[i] = s[i]
BY DEF PadTo

(* None is neither a number nor a sequence nor an Input.                     *)
NoneAssumption == Absent \notin Nat /\ Absent # [x \in DOMAIN Absent |-> Absent[x]]

\* The inputs of two calls with the same number are one: what is counted up can
\* be read off an input, solved as it may be already.
LEMMA ItemsTell ==
  ASSUME NoneAssumption, NEW g, Counting(g), TellsApart(g),
         NEW h \in Calls(g), NEW k \in Calls(g), Offers(h), Offers(k),
         NEW s, DOMAIN s = DOMAIN Input, combine(s, Guess(h)) = combine(s, Guess(k))
  PROVE  Item(h) = Item(k)
<1>1. /\ Counting(h) /\ h.kind = g.kind /\ Sibling(h, g)
      /\ Counting(k) /\ k.kind = g.kind /\ Sibling(k, g)
      /\ g.kind \in Kinds
  BY CallsClosed, CallsAreSiblings DEF Counting
<1> DEFINE a == Guess(h)
           b == Guess(k)
<1>2. /\ Or(a.argv, s.argv) = Or(b.argv, s.argv)
      /\ Or(a.stdinlen, s.stdinlen) = Or(b.stdinlen, s.stdinlen)
      /\ Or(a.stdin, s.stdin) = Or(b.stdin, s.stdin)
      /\ Or(a.mem, s.mem) = Or(b.mem, s.mem)
  <2> HIDE DEF a, b
  <2>1. combine(s, a) = combine(s, b)
    BY DEF a, b
  <2> QED BY <2>1, Combined
<1> USE DEF Lengths, ByLen
<1>3. \A f : f = [x \in DOMAIN f |-> f[x]] => f # Absent
  BY DEF NoneAssumption
<1>4. CASE g.kind = "stdinlen"
  <2>1. a.stdinlen = h.len /\ b.stdinlen = k.len
    BY <1>1, <1>4 DEF Guess, StdinLenGuess, Input
  <2>2. h.len \in Nat /\ k.len \in Nat
    BY <1>1, <1>4 DEF Counting
  <2>3. h.len = k.len
    BY <1>2, <2>1, <2>2 DEF Or, NoneAssumption
  <2> QED BY <1>1, <1>4, <2>3 DEF Item
<1>5. CASE g.kind = "argc"
  <2>1. a.argv = [i \in 1..h.len |-> <<>>] /\ b.argv = [i \in 1..k.len |-> <<>>]
    BY <1>1, <1>5 DEF Guess, ArgcGuess, Input
  <2>2. a.argv # Absent /\ b.argv # Absent
    BY <1>3, <2>1
  <2>3. h.len \in Nat /\ k.len \in Nat
    BY <1>1, <1>5 DEF Counting
  <2>4. 1..h.len = 1..k.len
    <3>1. a.argv = b.argv
      BY <1>2, <2>2 DEF Or
    <3>2. DOMAIN a.argv = 1..h.len /\ DOMAIN b.argv = 1..k.len
      BY <2>1
    <3> QED BY <3>1, <3>2
  <2> QED BY <1>1, <1>5, <2>3, <2>4, SameInterval DEF Item
<1>6. CASE g.kind = "stdinchar"
  <2> DEFINE n == g.idx + 1
             found == g.prefix \o g.correct
  <2>1. /\ {"prefix", "correct", "idx", "padlen"} \subseteq DOMAIN g
        /\ g.prefix \in Seq(Nat) /\ g.correct \in Seq(Nat)
        /\ g.idx = Len(g.prefix) + Len(g.correct)
    BY <1>6 DEF TellsApart
  <2>2. \A x \in {h, k} : /\ x.prefix = g.prefix /\ x.correct = g.correct
                          /\ x.idx = g.idx /\ x.padlen = g.padlen /\ x.cur \in Nat
    BY <1>1, <1>6, <2>1 DEF Sibling, Moves, Counting
  <2>3. found \in Seq(Nat) /\ Len(found) + 1 = n
    BY <2>1
  <2>4. g.padlen \in Nat /\ n \in 1..g.padlen
    <3>1. StdinCharOffers(h)
      BY <1>1, <1>6 DEF Offers
    <3>2. g.padlen # Absent /\ g.idx < g.padlen
      BY <2>2, <3>1 DEF StdinCharOffers
    <3> QED BY <1>6, <2>1, <3>2 DEF TellsApart
  <2> HIDE DEF found, n
  <2>5. ASSUME NEW x \in {h, k}
        PROVE  /\ StdinCharGuess(x).stdin = PadTo(Append(found, x.cur), g.padlen)
               /\ PadTo(Append(found, x.cur), g.padlen)[n] = x.cur
    <3>1. StdinCharGuess(x).stdin = PadTo(Append(found, x.cur), g.padlen)
      BY <2>2 DEF StdinCharGuess, Input, found
    <3> DEFINE t == Append(found, x.cur)
    <3>2. t[n] = x.cur /\ n <= Len(t)
      BY <2>2, <2>3
    <3> HIDE DEF t
    <3>3. PadTo(t, g.padlen)[n] = x.cur
      BY <2>4, <3>2, Padded
    <3> QED BY <3>1, <3>3 DEF t
  <2>6. a.stdin = StdinCharGuess(h).stdin /\ b.stdin = StdinCharGuess(k).stdin
    BY <1>1, <1>6 DEF Guess
  <2>7. a.stdin # Absent /\ b.stdin # Absent
    BY <1>3, <2>5, <2>6 DEF PadTo
  <2>8. a.stdin = b.stdin
    BY <1>2, <2>7 DEF Or
  <2>9. a.stdin[n] = h.cur /\ b.stdin[n] = k.cur
    BY <2>5, <2>6
  <2> QED BY <1>1, <1>6, <2>8, <2>9 DEF Item
<1>7. CASE g.kind = "argvlen"
  <2>1. {"argc", "correct", "pos"} \subseteq DOMAIN g /\ g.argc \in Nat /\ g.pos \in 1..g.argc
    BY <1>7 DEF TellsApart
  <2>2. \A x \in {h, k} : /\ x.argc = g.argc /\ x.pos = g.pos /\ x.correct = g.correct
                          /\ x.len \in Nat
    BY <1>1, <1>7, <2>1 DEF Sibling, Moves, Counting
  <2>3. \A x \in {h, k} :
          Guess(x).argv = [i \in 1..g.argc |-> Pads(IF i = g.pos THEN x.len ELSE g.correct[i])]
    <3> TAKE x \in {h, k}
    <3>1. x.kind = "argvlen" /\ Guess(x) = ArgvLenGuess(x)
      BY <1>1, <1>7 DEF Guess
    <3>2. ArgvLenGuess(x).argv = [i \in 1..x.argc |-> Pads(IF i = x.pos THEN x.len ELSE x.correct[i])]
      BY DEF ArgvLenGuess, Input
    <3> QED BY <2>2, <3>1, <3>2
  <2>4. a.argv # Absent /\ b.argv # Absent
    BY <1>3, <2>3
  <2>5. a.argv = b.argv
    BY <1>2, <2>4 DEF Or
  <2>6. a.argv[g.pos] = Pads(h.len) /\ b.argv[g.pos] = Pads(k.len)
    BY <2>1, <2>3
  <2>7. 1..h.len = 1..k.len
    <3>1. DOMAIN Pads(h.len) = 1..h.len /\ DOMAIN Pads(k.len) = 1..k.len
      BY DEF Pads, PadTo
    <3>2. Pads(h.len) = Pads(k.len)
      BY <2>5, <2>6
    <3> QED BY <3>1, <3>2
  <2>8. h.len = k.len
    BY <2>2, <2>7, SameInterval
  <2> QED BY <1>1, <1>7, <2>8 DEF Item
<1>8. CASE g.kind = "argv"
  <2> DEFINE p == SkipEmpty(g).pos
             n == g.idx + 1
  <2>1. /\ {"argc", "len", "correct", "pos", "idx", "current"} \subseteq DOMAIN g
        /\ g.argc \in Nat /\ g.pos \in Nat \ {0} /\ g.idx \in Nat /\ g.current \in Seq(Nat)
        /\ \A q \in 1..g.argc : g.len[q] \in Nat
    BY <1>8 DEF TellsApart
  <2>2. \A x \in {h, k} : /\ x.argc = g.argc /\ x.len = g.len /\ x.correct = g.correct
                          /\ x.idx = g.idx /\ x.current = g.current
                          /\ SkipEmpty(x).pos = p /\ x.cur \in Nat
    BY <1>1, <1>8, <2>1 DEF Sibling, Moves, Counting
  <2>3. \A x \in {h, k} : /\ SkipEmpty(x).argc = g.argc /\ SkipEmpty(x).len = g.len
                          /\ SkipEmpty(x).correct = g.correct /\ SkipEmpty(x).idx = g.idx
                          /\ SkipEmpty(x).current = g.current /\ SkipEmpty(x).cur = x.cur
    BY <2>2 DEF SkipEmpty
  <2>4. p \in g.pos..g.argc /\ n <= g.len[p] /\ g.len[p] \in Nat
    <3>1. ArgvOffers(h)
      BY <1>1, <1>8 DEF Offers
    <3>2. p <= g.argc /\ g.idx < g.len[p]
      <4> HIDE DEF p
      <4> QED BY <2>2, <2>3, <3>1 DEF ArgvOffers, ArgvTries
    <3>3. p = g.pos \/ p = g.pos + 1
      BY <2>1 DEF SkipEmpty
    <3> HIDE DEF p
    <3> QED BY <2>1, <3>2, <3>3
  <2>5. Len(g.current) = g.idx
    BY <1>8, <2>1, <2>4 DEF TellsApart
  <2> HIDE DEF p, n
  <2> DEFINE word(x) == PadTo(Append(g.current, x.cur), g.len[p])
             argv(x) == [i \in 1..g.argc |-> CASE i = p -> word(x)
                                               [] i < p -> g.correct[i]
                                               [] i > p -> Pads(g.len[i])]
  <2>6. \A x \in {h, k} : Guess(x).argv = argv(x)
    <3> TAKE x \in {h, k}
    <3>1. Guess(x) = ArgvGuess(x)
      BY <1>1, <1>8 DEF Guess
    <3> DEFINE args(argc, lens, correct, current, pos, cur) ==
                 [i \in 1..argc |-> CASE i = pos -> PadTo(Append(current, cur), lens[pos])
                                      [] i < pos -> correct[i]
                                      [] i > pos -> Pads(lens[i])]
               y == SkipEmpty(x)
    <3>2. ArgvGuess(x).argv = args(y.argc, y.len, y.correct, y.current, y.pos, y.cur)
      BY DEF ArgvGuess, Input
    <3>3. argv(x) = args(g.argc, g.len, g.correct, g.current, p, x.cur)
      OBVIOUS
    <3>4. y.argc = g.argc /\ y.len = g.len /\ y.correct = g.correct
      BY <2>3
    <3>5. y.current = g.current /\ y.cur = x.cur /\ y.pos = p
      BY <2>2, <2>3
    <3> HIDE DEF args, argv, y
    <3> QED BY <3>1, <3>2, <3>3, <3>4, <3>5
  <2>7. a.argv # Absent /\ b.argv # Absent
    BY <1>3, <2>6
  <2>8. a.argv = b.argv
    BY <1>2, <2>7 DEF Or
  <2>9. p \in 1..g.argc
    BY <2>1, <2>4
  <2>10. \A x \in {h, k} : argv(x)[p] = word(x)
    <3> HIDE DEF word
    <3> QED BY <2>9
  <2>11. word(h) = word(k)
    <3> HIDE DEF word, argv
    <3> QED BY <2>6, <2>8, <2>10
  <2>12. \A x \in {h, k} : Append(g.current, x.cur)[n] = x.cur /\ n <= Len(Append(g.current, x.cur))
    BY <2>1, <2>2, <2>5 DEF n
  <2>13. n \in 1..g.len[p]
    BY <2>1, <2>4 DEF n
  <2>14. \A x \in {h, k} : word(x)[n] = x.cur
    BY <2>4, <2>12, <2>13, Padded
  <2>15. h.cur = k.cur
    <3> HIDE DEF word
    <3> QED BY <2>11, <2>14
  <2> QED BY <1>1, <1>8, <2>15 DEF Item
<1>9. CASE g.kind = "mem"
  <2>1. /\ "correct" \in DOMAIN g /\ "bytes" \in DOMAIN g.correct
        /\ g.correct.bytes \in Seq(Nat)
    BY <1>9 DEF TellsApart
  <2>2. \A x \in {h, k} : x.correct = g.correct /\ x.cur \in Nat
    BY <1>1, <1>9, <2>1 DEF Sibling, Moves, Counting
  <2>3. \A x \in {h, k} : Guess(x).mem = <<[g.correct EXCEPT !.bytes = Append(@, x.cur)]>>
    BY <1>1, <1>9, <2>2 DEF Guess, MemGuess, Input
  <2>4. a.mem # Absent /\ b.mem # Absent
    BY <1>3, <2>3
  <2>5. a.mem = b.mem
    BY <1>2, <2>4 DEF Or
  <2>6. Append(g.correct.bytes, h.cur) = Append(g.correct.bytes, k.cur)
    <3>1. \A x \in {h, k} : Guess(x).mem[1].bytes = Append(g.correct.bytes, x.cur)
      BY <2>1, <2>3
    <3> QED BY <2>5, <3>1
  <2>7. h.cur = k.cur
    <3>1. \A x \in {h, k} : Append(g.correct.bytes, x.cur)[Len(g.correct.bytes) + 1] = x.cur
      BY <2>1, <2>2
    <3> QED BY <2>6, <3>1
  <2> QED BY <1>1, <1>9, <2>7 DEF Item
<1> QED BY <1>1, <1>4, <1>5, <1>6, <1>7, <1>8, <1>9 DEF Kinds

\* The same holds in the next round, if update() says there is one.
LEMMA UpdatedTells ==
  ASSUME NEW g, Counting(g), TellsApart(g),
         NEW h \in Calls(g), Offers(h), NEW last \in Calls(g), ~Offers(last),
         NEW chosen \in Nat, More(Stepped(last), chosen)
  PROVE  TellsApart(Updated(Stepped(last), chosen))
<1> DEFINE s == Stepped(last)
           u == Updated(s, chosen)
<1>1. /\ Counting(h) /\ h.kind = g.kind /\ Sibling(h, g)
      /\ Counting(last) /\ last.kind = g.kind /\ Sibling(last, g)
      /\ g.kind \in Kinds
  BY CallsClosed, CallsAreSiblings DEF Counting
<1>2. Counting(s) /\ s.kind = g.kind /\ u.kind = g.kind
  BY <1>1, SteppedCounts, UpdatedCounts
<1>3. s = IF g.kind = "argv" THEN SkipEmpty(last) ELSE last
  BY <1>1 DEF Stepped
<1> USE DEF Lengths, ByLen
<1>4. CASE g.kind \in Lengths
  BY <1>2, <1>4 DEF TellsApart
<1>5. CASE g.kind = "stdinchar"
  <2>1. /\ {"prefix", "correct", "idx", "padlen"} \subseteq DOMAIN g
        /\ g.prefix \in Seq(Nat) /\ g.correct \in Seq(Nat)
        /\ g.idx = Len(g.prefix) + Len(g.correct)
        /\ g.padlen # Absent => g.padlen \in Nat
    BY <1>5 DEF TellsApart
  <2>2. /\ DOMAIN s = DOMAIN g /\ s.prefix = g.prefix /\ s.correct = g.correct
        /\ s.idx = g.idx /\ s.padlen = g.padlen
    BY <1>1, <1>3, <1>5, <2>1 DEF Sibling, Moves
  <2>3. u = StdinCharUpdated(s, chosen)
    BY <1>2, <1>5 DEF Updated
  <2> HIDE DEF s
  <2>4. /\ DOMAIN u = DOMAIN g /\ u.prefix = g.prefix /\ u.padlen = g.padlen
        /\ u.correct = Append(g.correct, chosen) /\ u.idx = g.idx + 1
    BY <2>1, <2>2, <2>3 DEF StdinCharUpdated
  <2> HIDE DEF u
  <2>5. u.correct \in Seq(Nat) /\ Len(u.correct) = Len(g.correct) + 1
    BY <2>1, <2>4
  <2> QED BY <1>2, <1>5, <2>1, <2>4, <2>5 DEF TellsApart, u, s
<1>6. CASE g.kind = "argvlen"
  <2>1. {"argc", "correct", "pos"} \subseteq DOMAIN g /\ g.argc \in Nat /\ g.pos \in 1..g.argc
    BY <1>6 DEF TellsApart
  <2>2. DOMAIN s = DOMAIN g /\ s.argc = g.argc /\ s.pos = g.pos
    BY <1>1, <1>3, <1>6, <2>1 DEF Sibling, Moves
  <2>3. u = ArgvLenUpdated(s, chosen)
    BY <1>2, <1>6 DEF Updated
  <2>4. u.pos <= u.argc
    BY <1>2, <1>6 DEF More
  <2> HIDE DEF s
  <2>5. DOMAIN u = DOMAIN g /\ u.argc = g.argc /\ u.pos = g.pos + 1
    BY <2>1, <2>2, <2>3 DEF ArgvLenUpdated
  <2> HIDE DEF u
  <2> QED BY <1>2, <1>6, <2>1, <2>4, <2>5 DEF TellsApart, u, s
<1>7. CASE g.kind = "argv"
  <2> DEFINE p == SkipEmpty(g).pos
  <2>1. /\ {"argc", "len", "correct", "pos", "idx", "current"} \subseteq DOMAIN g
        /\ g.argc \in Nat /\ g.pos \in Nat \ {0} /\ g.idx \in Nat /\ g.current \in Seq(Nat)
        /\ \A q \in 1..g.argc : g.len[q] \in Nat
        /\ HasLengths(g)
        /\ \A q, r \in 1..g.argc : g.len[q] # 0 /\ g.len[r] # 0 => q = r
        /\ Len(g.current) = g.idx \/ \A q \in g.pos..g.argc : g.len[q] = 0
    BY <1>7 DEF TellsApart
  <2>2. \A x \in {h, last} : /\ DOMAIN x = DOMAIN g /\ x.argc = g.argc /\ x.len = g.len
                             /\ x.idx = g.idx /\ x.current = g.current
                             /\ SkipEmpty(x).pos = p
    BY <1>1, <1>7, <2>1 DEF Sibling, Moves
  <2>3. \A x \in {h, last} :
          /\ DOMAIN SkipEmpty(x) = DOMAIN g /\ SkipEmpty(x).argc = g.argc
          /\ SkipEmpty(x).len = g.len /\ SkipEmpty(x).idx = g.idx
          /\ SkipEmpty(x).current = g.current
    BY <2>2 DEF SkipEmpty
  <2>4. p \in g.pos..g.argc /\ g.idx < g.len[p] /\ g.len[p] \in Nat
    <3>1. ArgvOffers(h)
      BY <1>1, <1>7 DEF Offers
    <3>2. p <= g.argc /\ g.idx < g.len[p]
      <4> HIDE DEF p
      <4> QED BY <2>2, <2>3, <3>1 DEF ArgvOffers, ArgvTries
    <3>3. p = g.pos \/ p = g.pos + 1
      BY <2>1 DEF SkipEmpty
    <3> HIDE DEF p
    <3> QED BY <2>1, <3>2, <3>3
  <2>5. Len(g.current) = g.idx /\ g.len[p] # 0
    BY <2>1, <2>4
  <2> HIDE DEF p
  <2>6. /\ DOMAIN s = DOMAIN g /\ s.argc = g.argc /\ s.len = g.len /\ s.idx = g.idx
        /\ s.current = g.current /\ s.pos = p
    BY <1>3, <1>7, <2>2, <2>3
  <2>7. u = ArgvUpdated(s, chosen)
    BY <1>2, <1>7 DEF Updated
  <2> HIDE DEF s
  <2> DEFINE full == g.idx + 1 >= g.len[p]
  <2>8. ~(s.pos > s.argc)
    BY <2>1, <2>4, <2>6
  <2>9. /\ DOMAIN u = DOMAIN g /\ u.argc = g.argc /\ u.len = g.len
        /\ u.current = Append(g.current, chosen)
    BY <2>1, <2>6, <2>7, <2>8 DEF ArgvUpdated
  <2>10. u.idx = IF full THEN 0 ELSE g.idx + 1
    BY <2>1, <2>6, <2>7, <2>8 DEF ArgvUpdated
  <2>11. u.pos = IF full THEN p + 1 ELSE p
    BY <2>1, <2>6, <2>7, <2>8 DEF ArgvUpdated
  <2> HIDE DEF u
  <2>12. u.current \in Seq(Nat) /\ Len(u.current) = g.idx + 1
    BY <2>1, <2>5, <2>9
  <2>13. u.pos \in Nat \ {0} /\ u.idx \in Nat
    BY <2>1, <2>4, <2>10, <2>11
  <2>14. Len(u.current) = u.idx \/ \A q \in u.pos..u.argc : u.len[q] = 0
    <3>1. CASE full
      <4>1. ASSUME NEW q \in u.pos..u.argc PROVE g.len[q] = 0
        <5>1. q \in 1..g.argc /\ p \in 1..g.argc /\ q # p
          BY <2>1, <2>4, <2>9, <2>11, <3>1
        <5> QED BY <2>1, <2>5, <5>1
      <4> QED BY <2>9, <4>1
    <3>2. CASE ~full
      BY <2>10, <2>12, <3>2
    <3> QED BY <3>1, <3>2
  <2>15. TellsApart(u)
    <3>1. HasLengths(u)
      BY <2>1, <2>9 DEF HasLengths
    <3> QED BY <1>2, <1>7, <2>1, <2>9, <2>12, <2>13, <2>14, <3>1 DEF TellsApart, u, s
  <2> QED BY <2>15 DEF u, s
<1>8. CASE g.kind = "mem"
  <2>1. /\ "correct" \in DOMAIN g /\ "bytes" \in DOMAIN g.correct
        /\ g.correct.bytes \in Seq(Nat)
    BY <1>8 DEF TellsApart
  <2>2. DOMAIN s = DOMAIN g /\ s.correct = g.correct
    BY <1>1, <1>3, <1>8, <2>1 DEF Sibling, Moves
  <2>3. u = MemUpdated(s, chosen)
    BY <1>2, <1>8 DEF Updated
  <2> HIDE DEF s
  <2>4. /\ DOMAIN u = DOMAIN g
        /\ u.correct = [g.correct EXCEPT !.bytes = Append(@, chosen)]
    BY <2>1, <2>2, <2>3 DEF MemUpdated
  <2> HIDE DEF u
  <2>5. "bytes" \in DOMAIN u.correct /\ u.correct.bytes \in Seq(Nat)
    BY <2>1, <2>4
  <2> QED BY <1>2, <1>8, <2>1, <2>4, <2>5 DEF TellsApart, u, s
<1> QED BY <1>1, <1>4, <1>5, <1>6, <1>7, <1>8 DEF Kinds
-----------------------------------------------------------------------------
(* The right candidate stands out: of three or more counts all of which but
   one are the same, the other one is farthest from the average.             *)
LEMMA SumOfEquals ==
  ASSUME NEW f, NEW S, IsFiniteSet(S), NEW c \in Nat, \A x \in S : f[x] = c
  PROVE  SumFunctionOnSet(f, S) = c * Cardinality(S)
<1> DEFINE C == {s \in SUBSET S : SumFunctionOnSet(f, s) # c * Cardinality(s)}
<1> SUFFICES ASSUME C # {} PROVE FALSE
  BY Zenon
<1>1. PICK T \in C : \A U \in C : U \subseteq T => U = T
  <2>1. C \in SUBSET (SUBSET S)
    OBVIOUS
  <2> HIDE DEF C
  <2> QED BY <2>1, LeastSet
<1>2. T \in SUBSET S /\ SumFunctionOnSet(f, T) # c * Cardinality(T) /\ IsFiniteSet(T)
  BY FS_Subset
<1>3. T # {}
  <2>1. SumFunctionOnSet(f, {}) = 0 /\ Cardinality({}) = 0 /\ c * 0 = 0
    BY SumEmpty, FS_EmptySet
  <2> QED BY <1>2, <2>1
<1>4. PICK x \in T : TRUE
  BY <1>3
<1> DEFINE U == T \ {x}
<1>5. SumFunctionOnSet(f, T) = c + SumFunctionOnSet(f, U)
  <2>1. \A y \in T : f[y] \in Int
    BY <1>2
  <2> QED BY <1>2, <1>4, <2>1, SumTake
<1>6. SumFunctionOnSet(f, U) = c * Cardinality(U)
  <2>1. U \in SUBSET S /\ U \subseteq T /\ U # T
    BY <1>2, <1>4
  <2> QED BY <1>1, <2>1
<1>7. Cardinality(T) = Cardinality(U) + 1 /\ Cardinality(U) \in Nat
  <2>1. Cardinality(T) \in Nat /\ Cardinality(U) \in Nat
    BY <1>2, FS_RemoveElement, FS_CardinalityType
  <2>2. Cardinality(U) = Cardinality(T) - 1
    BY <1>2, <1>4, FS_RemoveElement
  <2> HIDE DEF U
  <2> QED BY <2>1, <2>2
<1>8. \A n \in Nat : c + c * n = c * (n + 1)
  OBVIOUS
<1> QED BY <1>2, <1>5, <1>6, <1>7, <1>8

\* e is their average: low is nearer to it than high.
LEMMA AverageIsLow ==
  ASSUME NEW low \in Nat, NEW d \in Nat \ {0}, NEW n \in Nat, n >= 3,
         NEW e \in Int, e = (low * n + d) \div n
  PROVE  low <= e /\ 2 * (e - low) < d
<1>1. e * n <= low * n + d /\ low * n + d < (e + 1) * n
  <2> DEFINE s == low * n + d
  <2>1. s \in Nat
    OBVIOUS
  <2>2. s = n * (s \div n) + (s % n) /\ 0 <= s % n /\ s % n < n
    <3> HIDE DEF s
    <3> QED BY <2>1
  <2>3. s = n * e + (s % n)
    BY <2>2
  <2> HIDE DEF s
  <2>4. e * n = n * e /\ (e + 1) * n = n * e + n
    OBVIOUS
  <2>5. s % n \in Int
    BY <2>1
  <2> QED BY <2>1, <2>2, <2>3, <2>4, <2>5 DEF s
<1>2. low <= e
  <2> SUFFICES ASSUME e + 1 <= low PROVE FALSE
    OBVIOUS
  <2>1. (e + 1) * n <= low * n
    OBVIOUS
  <2> QED BY <1>1, <2>1
<1>3. 2 * (e - low) < d
  <2> DEFINE x == e - low
  <2>1. x \in Nat /\ x * n = e * n - low * n
    BY <1>2
  <2>2. x * n <= d
    BY <1>1, <2>1
  <2>3. x * 3 <= x * n
    BY <2>1
  <2>4. x * 3 <= d
    <3>1. x * n \in Int
      BY <2>1
    <3> QED BY <2>1, <2>2, <2>3, <3>1
  <2> HIDE DEF x
  <2>5. 2 * x < d
    BY <2>1, <2>4
  <2> QED BY <2>5 DEF x
<1> QED BY <1>2, <1>3

LEMMA StandsOut ==
  ASSUME NEW T, IsFiniteSet(T), Cardinality(T) >= 3, NEW r \in T,
         NEW low \in Nat, NEW high \in Nat, low < high,
         NEW f, DOMAIN f = T, \A u \in T : f[u] = IF u = r THEN high ELSE low,
         NEW average, average = Quotient(SumFunction(f), Cardinality(DOMAIN f)),
         NEW t \in T, \A u \in T : Abs(f[u] - average) <= Abs(f[t] - average)
  PROVE  t = r
<1> DEFINE n == Cardinality(T)
           d == high - low
           R == T \ {r}
<1>1. n \in Nat /\ n >= 3 /\ d \in Nat \ {0} /\ high = low + d
  BY FS_CardinalityType
<1>2. IsFiniteSet(R) /\ Cardinality(R) = n - 1
  BY FS_RemoveElement
<1>3. SumFunctionOnSet(f, R) = low * (n - 1)
  BY <1>2, SumOfEquals
<1>4. SumFunctionOnSet(f, T) = high + SumFunctionOnSet(f, R)
  BY SumTake
<1>5. SumFunction(f) = SumFunctionOnSet(f, T) /\ DOMAIN f = T
  BY DEF SumFunction
<1>6. low * (n - 1) + low = low * n /\ low * n \in Nat
  BY <1>1
<1>7. SumFunction(f) = low * n + d
  <2> HIDE DEF n, R
  <2> QED BY <1>1, <1>3, <1>4, <1>5, <1>6
<1>8. average = (low * n + d) \div n /\ average \in Int
  <2>1. average = Quotient(low * n + d, n)
    BY <1>5, <1>7
  <2> HIDE DEF n, d
  <2>2. low * n + d \in Nat
    BY <1>1, <1>6
  <2>3. average = (low * n + d) \div n
    BY <2>1, <2>2 DEF Quotient
  <2> QED BY <1>1, <2>2, <2>3
<1>9. low <= average /\ 2 * (average - low) < d
  <2> HIDE DEF n, d
  <2> QED BY <1>1, <1>8, AverageIsLow
<1>10. SUFFICES ASSUME t # r PROVE FALSE
  OBVIOUS
<1>11. f[t] = low /\ f[r] = high
  BY <1>10
<1>12. Abs(high - average) <= Abs(low - average)
  BY <1>11
<1> QED
  <2> HIDE DEF d
  <2> QED BY <1>1, <1>8, <1>9, <1>12 DEF Abs
=============================================================================
