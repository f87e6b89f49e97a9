---------------------------- MODULE TargetProofs ----------------------------
(***************************************************************************)
(* B7 finds what the program under test wants, whatever that is and        *)
(* however long: a proof for all of the stages of B7Opts::run().           *)
(***************************************************************************)
EXTENDS Target, PipelineProofs, SequenceTheorems

(* A round of candidates: the generator with the number n, up to the last.   *)
Nth(g, n) == IF g.kind \in ByLen THEN [g EXCEPT !.len = n] ELSE [g EXCEPT !.cur = n]
LastOf(g) == IF g.kind = "mem" THEN ByteMax ELSE g.max

\* A generator that offers all of them.
OffersAll(g) ==
  /\ Counting(g) /\ LastOf(g) \in Nat /\ Item(g) <= LastOf(g)
  /\ g.kind # "mem" => "max" \in DOMAIN g
  /\ g.kind = "stdinchar" =>
       /\ {"padlen", "idx"} \subseteq DOMAIN g
       /\ g.padlen # Absent /\ g.idx < g.padlen /\ g.max <= ByteMax
  /\ g.kind = "argv" =>
       /\ {"argc", "len", "pos", "idx"} \subseteq DOMAIN g
       /\ g.argc # 0 /\ HasLengths(g)
       /\ g.pos \in DOMAIN g.len /\ g.len[g.pos] # 0 /\ g.pos <= g.argc
       /\ g.idx < g.len[g.pos] /\ g.max <= ByteMax
  /\ g.kind = "mem" => "correct" \in DOMAIN g /\ ~finished(g)

LEMMA NthIs ==
  ASSUME NEW g, OffersAll(g), NEW n \in Nat
  PROVE  /\ Item(Nth(g, n)) = n
         /\ Nth(g, n).kind = g.kind
         /\ Offers(Nth(g, n)) <=> n <= LastOf(g)
         /\ Stepped(Nth(g, n)) = IF n <= LastOf(g) THEN Nth(g, n + 1) ELSE Nth(g, n)
         /\ Nth(g, Item(g)) = g
<1> USE DEF ByLen, Lengths
<1>1. CASE g.kind \in ByLen
  <2> DEFINE h == [g EXCEPT !.len = n]
  <2>0. {"kind", "len", "max"} \subseteq DOMAIN g /\ g = [x \in DOMAIN g |-> g[x]]
    BY <1>1 DEF OffersAll, Counting
  <2>1. /\ Nth(g, n) = h /\ h.len = n /\ h.kind = g.kind /\ h.max = g.max
        /\ [h EXCEPT !.len = @ + 1] = Nth(g, n + 1)
        /\ [g EXCEPT !.len = g.len] = g
    BY <1>1, <2>0 DEF Nth
  <2> HIDE DEF h
  <2>2. Item(h) = n /\ (Offers(h) <=> n <= LastOf(g))
    BY <1>1, <2>1 DEF Item, Offers, LastOf
  <2>3. Stepped(h) = IF n <= LastOf(g) THEN Nth(g, n + 1) ELSE h
    BY <1>1, <2>1, <2>2 DEF Stepped
  <2>4. Nth(g, Item(g)) = g
    BY <1>1, <2>1 DEF Nth, Item
  <2> QED BY <2>1, <2>2, <2>3, <2>4
<1>2. CASE g.kind \in {"stdinchar", "argv", "mem"}
  <2> DEFINE h == [g EXCEPT !.cur = n]
  <2>1. /\ Nth(g, n) = h /\ h.cur = n /\ h.kind = g.kind
        /\ \A x \in DOMAIN g \ {"cur"} : h[x] = g[x]
        /\ [h EXCEPT !.cur = @ + 1] = Nth(g, n + 1)
        /\ [g EXCEPT !.cur = g.cur] = g
    BY <1>2 DEF Nth, OffersAll, Counting
  <2> HIDE DEF h
  <2>2. Item(h) = n
    BY <1>2, <2>1 DEF Item
  <2>3. g.kind = "argv" => SkipEmpty(h) = h
    BY <2>1 DEF OffersAll, SkipEmpty
  <2>4. Offers(h) <=> n <= LastOf(g)
    <3>1. CASE g.kind = "stdinchar"
      BY <2>1, <3>1, GeneratorAssumption DEF Offers, StdinCharOffers, OffersAll, LastOf
    <3>2. CASE g.kind = "argv"
      BY <2>1, <2>3, <3>2, GeneratorAssumption
         DEF Offers, ArgvOffers, ArgvTries, HasLengths, OffersAll, LastOf
    <3>3. CASE g.kind = "mem"
      BY <2>1, <3>3 DEF Offers, finished, OffersAll, LastOf
    <3> QED BY <1>2, <3>1, <3>2, <3>3
  <2>5. Stepped(h) = IF n <= LastOf(g) THEN Nth(g, n + 1) ELSE h
    BY <1>2, <2>1, <2>3, <2>4 DEF Stepped
  <2>6. Nth(g, Item(g)) = g
    BY <1>2, <2>1 DEF Nth, Item
  <2> QED BY <2>1, <2>2, <2>4, <2>5, <2>6
<1> QED BY <1>1, <1>2 DEF OffersAll, Counting, Kinds

LEMMA RowOfCalls ==
  ASSUME NEW g, OffersAll(g)
  PROVE  /\ \A h \in Calls(g) : \E n \in Nat : Item(g) <= n /\ h = Nth(g, n)
         /\ \A n \in Item(g)..LastOf(g) : Nth(g, n) \in Calls(g)
<1>1. Item(g) \in Nat /\ MostOffers(g) \in Nat /\ LastOf(g) \in Nat
  BY SteppedCounts DEF OffersAll
<1>2. Nth(g, Item(g)) = g
  BY <1>1, NthIs
<1>3. ASSUME NEW h \in Calls(g)
      PROVE  \E n \in Nat : Item(g) <= n /\ h = Nth(g, n)
  <2> DEFINE H == {Nth(g, n) : n \in {m \in Nat : Item(g) <= m}}
  <2>1. g \in H
    BY <1>1, <1>2
  <2>2. ASSUME NEW n \in Nat, Item(g) <= n, Offers(Nth(g, n))
        PROVE  Stepped(Nth(g, n)) \in H
    <3>1. Stepped(Nth(g, n)) = Nth(g, n + 1)
      BY <2>2, NthIs
    <3>2. n + 1 \in {m \in Nat : Item(g) <= m}
      BY <1>1, <2>2
    <3> QED BY <3>1, <3>2
  <2>3. After(H) \subseteq H
    BY <2>2 DEF After
  <2> HIDE DEF H
  <2>4. Calls(g) \subseteq H
    BY <1>1, <2>1, <2>3, CallsWithin
  <2> QED BY <2>4 DEF H
<1>4. ASSUME NEW n \in Item(g)..LastOf(g)
      PROVE  Nth(g, n) \in Calls(g)
  <2> DEFINE S == {k \in Nat : Item(g) + k <= LastOf(g) => Nth(g, Item(g) + k) \in Calls(g)}
  <2>1. g \in Calls(g) /\ After(Calls(g)) \subseteq Calls(g)
    BY CallsClosed DEF OffersAll
  <2>2. 0 \in S
    <3>1. Item(g) + 0 = Item(g)
      BY <1>1
    <3> QED BY <1>2, <2>1, <3>1
  <2>3. ASSUME NEW k \in Nat, k \in S
        PROVE  k + 1 \in S
    <3> SUFFICES ASSUME Item(g) + (k + 1) <= LastOf(g)
                 PROVE  Nth(g, Item(g) + (k + 1)) \in Calls(g)
      OBVIOUS
    <3> DEFINE m == Item(g) + k
    <3>1. m \in Nat /\ m <= LastOf(g) /\ Item(g) + (k + 1) = m + 1
      BY <1>1
    <3>2. Nth(g, m) \in Calls(g)
      BY <2>3, <3>1
    <3> HIDE DEF m
    <3>3. Offers(Nth(g, m)) /\ Stepped(Nth(g, m)) = Nth(g, m + 1)
      BY <3>1, NthIs
    <3>4. Nth(g, m + 1) \in After(Calls(g))
      BY <3>2, <3>3 DEF After
    <3> QED BY <2>1, <3>1, <3>4
  <2>4. Nat \subseteq S
    <3> HIDE DEF S
    <3> QED BY <2>2, <2>3, NumbersInduct
  <2>5. n - Item(g) \in Nat /\ Item(g) + (n - Item(g)) = n /\ n <= LastOf(g)
    BY <1>1
  <2> QED BY <2>4, <2>5
<1> QED BY <1>3, <1>4

\* A generator that has nothing to offer has no round.
LEMMA NoRound ==
  ASSUME Counting(gen), ~Offers(gen)
  PROVE  ~brute!Round
<1>1. Calls(gen) \subseteq {gen}
  <2>1. After({gen}) = {}
    BY DEF After
  <2>2. MostOffers(gen) \in Nat
    BY SteppedCounts
  <2> QED BY <2>1, <2>2, CallsWithin
<1>2. brute!Round => \E h \in Calls(gen) : Offers(h)
  BY RoundIs
<1> QED BY <1>1, <1>2
-----------------------------------------------------------------------------
(* What a round chooses, if one candidate costs more than all others.        *)

LEMMA SameSums ==
  /\ \A f : brute!SumFunction(f) = SumFunction(f)
  /\ \A n, d : brute!Quotient(n, d) = Quotient(n, d) /\ brute!Abs(n) = Abs(n)
<1>1. \A f : brute!SumFunction(f) = SumFunction(f)
  BY DEF brute!SumFunction, SumFunction, brute!SumFunctionOnSet, SumFunctionOnSet,
         brute!FoldFunctionOnSet, FoldFunctionOnSet, brute!MapThenFoldSet, MapThenFoldSet
<1>2. \A n, d : brute!Quotient(n, d) = Quotient(n, d) /\ brute!Abs(n) = Abs(n)
  BY DEF brute!Quotient, Quotient, brute!Abs, Abs
<1> QED BY <1>1, <1>2

\* Counts that are certain leave one outlier.
LEMMA CertainCounts ==
  ASSUME NoneAssumption, NEW T, IsFiniteSet(T), Cardinality(T) >= 3, NEW r \in T,
         NEW low \in Nat, NEW high \in Nat, low < high,
         \A t \in T : CountsOf(t.inp) = {IF t = r THEN high ELSE low},
         NEW f \in brute!Counts(T), NEW t \in brute!Outliers(f)
  PROVE  t = r
<1>1. PICK g \in [T -> UNION {CountsOf(u.inp) : u \in T}] :
        /\ \A u \in T : g[u] \in CountsOf(u.inp)
        /\ f = brute!Restrict(g, {u \in T : g[u] # Absent})
  BY DEF brute!Counts
<1>2. \A u \in T : g[u] = IF u = r THEN high ELSE low
  BY <1>1
<1>3. {u \in T : g[u] # Absent} = T
  BY <1>2 DEF NoneAssumption
<1>4. f = [u \in T |-> IF u = r THEN high ELSE low]
  <2>1. f = [u \in T |-> g[u]]
    BY <1>1, <1>3 DEF brute!Restrict
  <2> QED BY <1>2, <2>1
<1>5. brute!Cardinality(DOMAIN f) = Cardinality(DOMAIN f)
  BY DEF brute!Cardinality, Cardinality
<1> DEFINE average == Quotient(SumFunction(f), Cardinality(DOMAIN f))
<1>6. t \in T /\ \A u \in T : Abs(f[u] - average) <= Abs(f[t] - average)
  <2>1. DOMAIN f = T
    BY <1>4
  <2> QED BY <1>5, <2>1, SameSums DEF brute!Outliers
<1>7. PICK c : c = average
  OBVIOUS
<1>8. c = Quotient(SumFunction(f), Cardinality(DOMAIN f))
  BY <1>7
<1>9. t \in T /\ \A u \in T : Abs(f[u] - c) <= Abs(f[t] - c)
  BY <1>6, <1>7
<1> HIDE DEF average
<1>10. DOMAIN f = T /\ \A u \in T : f[u] = IF u = r THEN high ELSE low
  BY <1>4
<1> QED BY <1>8, <1>9, <1>10, StandsOut

LEMMA RoundPicks ==
  ASSUME NoneAssumption, OffersAll(gen), Item(gen) + 2 <= LastOf(gen),
         NEW right \in Item(gen)..LastOf(gen),
         NEW low \in Nat, NEW high \in Nat, low < high,
         \A n \in Item(gen)..LastOf(gen) :
           CountsOf(combine(solved, Guess(Nth(gen, n)))) = {IF n = right THEN high ELSE low},
         brute!Round
  PROVE  \E m \in Nat :
           /\ gen' = Updated(Nth(gen, m), right)
           /\ IF More(Nth(gen, m), right)
                THEN outcome' = outcome /\ answer' = answer
                ELSE outcome' = "Ok" /\ answer' = combine(solved, Guess(Nth(gen, right)))
<1> DEFINE I == Item(gen)..LastOf(gen)
           shot(n) == [item |-> n, inp |-> combine(solved, Guess(Nth(gen, n)))]
           T == {shot(n) : n \in I}
<1>1. Item(gen) \in Nat /\ LastOf(gen) \in Nat
  BY SteppedCounts DEF OffersAll
<1>2. brute!Tried(gen) = T
  <2>1. ASSUME NEW h \in Calls(gen), Offers(h)
        PROVE  Item(h) \in I /\ h = Nth(gen, Item(h))
    <3>1. PICK n \in Nat : Item(gen) <= n /\ h = Nth(gen, n)
      BY RowOfCalls
    <3> QED BY <1>1, <2>1, <3>1, NthIs
  <2>2. ASSUME NEW n \in I
        PROVE  Nth(gen, n) \in Calls(gen) /\ Offers(Nth(gen, n)) /\ Item(Nth(gen, n)) = n
    <3>1. n \in Nat /\ n <= LastOf(gen)
      BY <1>1
    <3> QED BY <3>1, NthIs, RowOfCalls
  <2>3. brute!Tried(gen) =
          {[item |-> Item(h), inp |-> combine(solved, Guess(h))] : h \in {h \in Calls(gen) : Offers(h)}}
    BY TriedIs
  <2> QED BY <2>1, <2>2, <2>3
<1>3. /\ \A n \in I : shot(n).item = n /\ shot(n).inp = combine(solved, Guess(Nth(gen, n)))
      /\ \A n, k \in I : shot(n) = shot(k) => n = k
  OBVIOUS
<1> HIDE DEF shot
<1>4. IsFiniteSet(T) /\ Cardinality(T) >= 3
  <2>1. IsFiniteSet(I) /\ Cardinality(I) = LastOf(gen) - Item(gen) + 1
    BY <1>1, FS_Interval
  <2> DEFINE h == [n \in I |-> shot(n)]
  <2>2. \A n, k \in I : h[n] = h[k] => n = k
    BY <1>3
  <2>3. T = {h[n] : n \in I}
    OBVIOUS
  <2> HIDE DEF h, I, T
  <2>4. IsFiniteSet(T) /\ Cardinality(T) = Cardinality(I)
    BY <2>1, <2>2, <2>3, SizeRenamed
  <2> QED BY <1>1, <2>1, <2>4
<1>5. PICK t \in T, last \in brute!Last(gen) :
        /\ gen' = brute!Updated(brute!Stepped(last), t.item)
        /\ \E f \in brute!Counts(T) : t \in brute!Outliers(f)
        /\ IF brute!More(brute!Stepped(last), t.item)
             THEN outcome' = outcome /\ answer' = answer
             ELSE outcome' = "Ok" /\ answer' = t.inp
  <2> HIDE DEF T
  <2> QED BY <1>2 DEF brute!Round
<1>6. t = shot(right)
  <2>1. \A u \in T : CountsOf(u.inp) = {IF u = shot(right) THEN high ELSE low}
    BY <1>3
  <2>2. shot(right) \in T
    OBVIOUS
  <2> HIDE DEF T
  <2> QED BY <1>4, <1>5, <2>1, <2>2, CertainCounts
<1>7. last \in Calls(gen) /\ ~Offers(last)
  BY <1>5, LastIs DEF Ends
<1>8. PICK m \in Nat : last = Nth(gen, m)
  BY <1>7, RowOfCalls
<1>9. Stepped(last) = Nth(gen, m)
  <2>1. ~(m <= LastOf(gen))
    BY <1>7, <1>8, NthIs
  <2> QED BY <1>8, <2>1, NthIs
<1>10. gen' = Updated(Nth(gen, m), right)
  BY <1>3, <1>5, <1>6, <1>9, SameUpdated, SameStepped
<1>11. IF More(Nth(gen, m), right)
         THEN outcome' = outcome /\ answer' = answer
         ELSE outcome' = "Ok" /\ answer' = combine(solved, Guess(Nth(gen, right)))
  BY <1>3, <1>5, <1>6, <1>9, SameMore, SameStepped
<1> QED BY <1>10, <1>11

-----------------------------------------------------------------------------
(* How far comparisons come                                                  *)

LEMMA UpTo ==
  ASSUME NEW n \in Nat
  PROVE  IsFiniteSet(1..n) /\ Cardinality(1..n) = n
<1>1. 1 \in Int /\ n \in Int /\ (IF 1 > n THEN 0 ELSE n - 1 + 1) = n
  OBVIOUS
<1> QED BY <1>1, FS_Interval

LEMMA AgreeType ==
  ASSUME NEW s, NEW t, Len(t) \in Nat
  PROVE  Agree(s, t) \in 0..Len(t)
<1> DEFINE P == {n \in 1..Len(t) : \A i \in 1..n : i \in DOMAIN s /\ s[i] = t[i]}
<1>1. IsFiniteSet(1..Len(t)) /\ Cardinality(1..Len(t)) = Len(t)
  BY UpTo
<1>2. P \in SUBSET (1..Len(t))
  OBVIOUS
<1> HIDE DEF P
<1>3. Cardinality(P) \in Nat /\ Cardinality(P) <= Len(t)
  BY <1>1, <1>2, FS_Subset, FS_CardinalityType
<1> QED BY <1>3 DEF Agree, P

\* The first k are right, and the next one is wrong, or right as well.
LEMMA AgreeUpTo ==
  ASSUME NEW s, NEW t, Len(t) \in Nat, NEW k \in Nat, k < Len(t),
         \A i \in 1..k : i \in DOMAIN s /\ s[i] = t[i]
  PROVE  /\ s[k + 1] # t[k + 1] => Agree(s, t) = k
         /\ k + 1 \in DOMAIN s /\ s[k + 1] = t[k + 1] => k < Agree(s, t)
<1> DEFINE P == {n \in 1..Len(t) : \A i \in 1..n : i \in DOMAIN s /\ s[i] = t[i]}
<1>1. IsFiniteSet(P)
  <2>1. P \in SUBSET (1..Len(t)) /\ IsFiniteSet(1..Len(t))
    BY UpTo
  <2> HIDE DEF P
  <2> QED BY <2>1, FS_Subset
<1>2. Cardinality(1..k) = k /\ Cardinality(1..k + 1) = k + 1
  <2>1. k + 1 \in Nat
    OBVIOUS
  <2> QED BY <2>1, UpTo
<1>3. ASSUME s[k + 1] # t[k + 1]
      PROVE  Agree(s, t) = k
  <2>1. P = 1..k
    BY <1>3
  <2> QED BY <1>2, <2>1 DEF Agree
<1>4. ASSUME k + 1 \in DOMAIN s, s[k + 1] = t[k + 1]
      PROVE  k < Agree(s, t)
  <2>1. 1..k + 1 \subseteq P
    BY <1>4
  <2>2. Agree(s, t) = Cardinality(P)
    BY DEF Agree
  <2> HIDE DEF P
  <2>3. Cardinality(1..k + 1) <= Cardinality(P) /\ Cardinality(P) \in Nat
    BY <1>1, <2>1, FS_Subset, FS_CardinalityType
  <2> QED BY <1>2, <2>2, <2>3
<1> QED BY <1>3, <1>4

LEMMA SeqIs ==
  ASSUME NEW S, NEW s \in Seq(S)
  PROVE  /\ Len(s) \in Nat /\ DOMAIN s = 1..Len(s)
         /\ \A i \in 1..Len(s) : s[i] \in S
OBVIOUS

LEMMA SecretTypes ==
  /\ Len(SecretArg) \in Nat /\ DOMAIN SecretArg = 1..Len(SecretArg)
  /\ \A i \in 1..Len(SecretArg) : SecretArg[i] \in MinChr..MaxChr
  /\ Len(SecretStdin) \in Nat /\ DOMAIN SecretStdin = 1..Len(SecretStdin)
  /\ \A i \in 1..Len(SecretStdin) : SecretStdin[i] \in MinChr..MaxChr
  /\ Len(SecretBytes) \in Nat /\ DOMAIN SecretBytes = 1..Len(SecretBytes)
  /\ \A i \in 1..Len(SecretBytes) : SecretBytes[i] \in 0..ByteMax
<1>1. SecretArg \in Seq(MinChr..MaxChr) /\ SecretStdin \in Seq(MinChr..MaxChr)
  BY TargetAssumption
<1>2. SecretBytes \in Seq(0..ByteMax)
  BY TargetAssumption
<1>3. /\ Len(SecretArg) \in Nat /\ DOMAIN SecretArg = 1..Len(SecretArg)
      /\ \A i \in 1..Len(SecretArg) : SecretArg[i] \in MinChr..MaxChr
  BY <1>1, SeqIs
<1>4. /\ Len(SecretStdin) \in Nat /\ DOMAIN SecretStdin = 1..Len(SecretStdin)
      /\ \A i \in 1..Len(SecretStdin) : SecretStdin[i] \in MinChr..MaxChr
  BY <1>1, SeqIs
<1>5. /\ Len(SecretBytes) \in Nat /\ DOMAIN SecretBytes = 1..Len(SecretBytes)
      /\ \A i \in 1..Len(SecretBytes) : SecretBytes[i] \in 0..ByteMax
  BY <1>2, SeqIs
<1> QED BY <1>3, <1>4, <1>5

LEMMA PassedTypes ==
  ASSUME NEW a, NEW s, NEW m
  PROVE  /\ ArgvPassed(a) \in 0..2 + Len(SecretArg)
         /\ StdinPassed(s) \in 0..1 + Len(SecretStdin)
         /\ MemPassed(m) \in 0..Len(SecretBytes)
<1>1. \A x : /\ Agree(x, SecretArg) \in 0..Len(SecretArg)
             /\ Agree(x, SecretStdin) \in 0..Len(SecretStdin)
             /\ Agree(x, SecretBytes) \in 0..Len(SecretBytes)
  BY SecretTypes, AgreeType
<1>2. \A x : /\ Compared(x, SecretArg) \in 0..1 + Len(SecretArg)
             /\ Compared(x, SecretStdin) \in 0..1 + Len(SecretStdin)
  BY <1>1, SecretTypes DEF Compared
<1>3. ArgvPassed(a) \in 0..2 + Len(SecretArg)
  BY <1>2, SecretTypes DEF ArgvPassed
<1>4. StdinPassed(s) \in 0..1 + Len(SecretStdin)
  BY <1>2, SecretTypes DEF StdinPassed
<1> QED BY <1>1, <1>3, <1>4, SecretTypes DEF MemPassed

\* What a run costs, and that it costs more the more checks pass.
Passed(inp) == ArgvPassed(inp.argv) + StdinPassed(inp.stdin) + MemPassed(inp.mem)

LEMMA PassedType == \A inp : Passed(inp) \in 0..MostChecks
<1> TAKE inp
<1>1. /\ ArgvPassed(inp.argv) \in 0..2 + Len(SecretArg)
      /\ StdinPassed(inp.stdin) \in 0..1 + Len(SecretStdin)
      /\ MemPassed(inp.mem) \in 0..Len(SecretBytes)
  BY PassedTypes
<1> QED BY <1>1, SecretTypes DEF Passed, MostChecks

LEMMA CostGrows ==
  ASSUME NEW x \in 0..MostChecks, NEW y \in 0..MostChecks, x < y
  PROVE  Cost(x) \in Nat /\ Cost(y) \in Nat /\ Cost(x) < Cost(y)
<1>1. MostChecks \in Nat
  BY SecretTypes DEF MostChecks
<1>2. x \in 0..y - 1
  BY <1>1
<1> QED BY <1>2, TargetAssumption

-----------------------------------------------------------------------------
(* The rounds of each stage                                                  *)

Compares == \A inp : CountsOf(inp) = Comparing(inp)

\* What the inputs of a stage differ in, and how many checks that passes.
Part(kind, inp) ==
  CASE kind \in {"argc", "argvlen", "argv"} -> ArgvPassed(inp.argv)
    [] kind \in {"stdinlen", "stdinchar"} -> StdinPassed(inp.stdin)
    [] kind = "mem" -> MemPassed(inp.mem)

Shot(n) == combine(solved, Guess(Nth(gen, n)))

LEMMA OnePartDiffers ==
  ASSUME OffersAll(gen), DOMAIN solved = DOMAIN Input
  PROVE  \E rest \in Nat : \A n \in Nat :
           Part(gen.kind, Shot(n)) \in Nat /\ Passed(Shot(n)) = Part(gen.kind, Shot(n)) + rest
<1>1. ASSUME NEW n \in Nat
      PROVE  /\ Shot(n).argv = Or(Guess(Nth(gen, n)).argv, solved.argv)
             /\ Shot(n).stdin = Or(Guess(Nth(gen, n)).stdin, solved.stdin)
             /\ Shot(n).mem = Or(Guess(Nth(gen, n)).mem, solved.mem)
             /\ Nth(gen, n).kind = gen.kind
  BY NthIs, Combined DEF Shot
<1>2. \A a, s, m : ArgvPassed(a) \in Nat /\ StdinPassed(s) \in Nat /\ MemPassed(m) \in Nat
  <2>1. \A n \in Nat : 0..n \subseteq Nat /\ 0..1 + n \subseteq Nat /\ 0..2 + n \subseteq Nat
    OBVIOUS
  <2>2. Len(SecretArg) \in Nat /\ Len(SecretStdin) \in Nat /\ Len(SecretBytes) \in Nat
    BY SecretTypes
  <2> QED BY <2>1, <2>2, PassedTypes
<1>3. gen.kind \in Kinds
  BY DEF OffersAll, Counting
<1> USE DEF Kinds, ByLen, Lengths
<1>4. CASE gen.kind \in {"argc", "argvlen", "argv"}
  <2> DEFINE rest == StdinPassed(solved.stdin) + MemPassed(solved.mem)
  <2>1. ASSUME NEW n \in Nat
        PROVE  /\ Part(gen.kind, Shot(n)) = ArgvPassed(Shot(n).argv)
               /\ Shot(n).stdin = solved.stdin /\ Shot(n).mem = solved.mem
    BY <1>1, <1>4, GuessParts DEF Part, Or
  <2>2. \A n \in Nat : Part(gen.kind, Shot(n)) \in Nat /\ Passed(Shot(n)) = Part(gen.kind, Shot(n)) + rest
    BY <1>2, <2>1 DEF Passed
  <2>3. rest \in Nat
    BY <1>2
  <2> QED BY <2>2, <2>3
<1>5. CASE gen.kind \in {"stdinlen", "stdinchar"}
  <2> DEFINE rest == ArgvPassed(solved.argv) + MemPassed(solved.mem)
  <2>1. ASSUME NEW n \in Nat
        PROVE  /\ Part(gen.kind, Shot(n)) = StdinPassed(Shot(n).stdin)
               /\ Shot(n).argv = solved.argv /\ Shot(n).mem = solved.mem
    BY <1>1, <1>5, GuessParts DEF Part, Or
  <2>2. \A n \in Nat : Part(gen.kind, Shot(n)) \in Nat /\ Passed(Shot(n)) = Part(gen.kind, Shot(n)) + rest
    BY <1>2, <2>1 DEF Passed
  <2>3. rest \in Nat
    BY <1>2
  <2> QED BY <2>2, <2>3
<1>6. CASE gen.kind = "mem"
  <2> DEFINE rest == ArgvPassed(solved.argv) + StdinPassed(solved.stdin)
  <2>1. ASSUME NEW n \in Nat
        PROVE  /\ Part(gen.kind, Shot(n)) = MemPassed(Shot(n).mem)
               /\ Shot(n).argv = solved.argv /\ Shot(n).stdin = solved.stdin
    BY <1>1, <1>6, GuessParts DEF Part, Or
  <2>2. \A n \in Nat : Part(gen.kind, Shot(n)) \in Nat /\ Passed(Shot(n)) = Part(gen.kind, Shot(n)) + rest
    BY <1>2, <2>1 DEF Passed
  <2>3. rest \in Nat
    BY <1>2
  <2> QED BY <2>2, <2>3
<1> QED BY <1>3, <1>4, <1>5, <1>6

\* A round chooses the candidate with which the program comes further.
LEMMA StagePicks ==
  ASSUME NoneAssumption, Compares, DOMAIN solved = DOMAIN Input,
         OffersAll(gen), Item(gen) + 2 <= LastOf(gen),
         NEW right \in Item(gen)..LastOf(gen), NEW low \in Nat,
         \A n \in Item(gen)..LastOf(gen) :
           IF n = right THEN low < Part(gen.kind, Shot(n)) ELSE Part(gen.kind, Shot(n)) = low,
         brute!Round
  PROVE  \E m \in Nat :
           /\ gen' = Updated(Nth(gen, m), right)
           /\ IF More(Nth(gen, m), right)
                THEN outcome' = outcome /\ answer' = answer
                ELSE outcome' = "Ok" /\ answer' = Shot(right)
<1>1. Item(gen) \in Nat /\ LastOf(gen) \in Nat /\ right \in Nat
  BY SteppedCounts DEF OffersAll
<1>2. PICK rest \in Nat : \A n \in Nat :
        Part(gen.kind, Shot(n)) \in Nat /\ Passed(Shot(n)) = Part(gen.kind, Shot(n)) + rest
  BY OnePartDiffers
<1> DEFINE x == low + rest
           y == Passed(Shot(right))
<1>3. \A n \in Item(gen)..LastOf(gen) : Passed(Shot(n)) = IF n = right THEN y ELSE x
  BY <1>1, <1>2
<1>4. x \in 0..MostChecks /\ y \in 0..MostChecks
  <2>1. PICK n \in Item(gen)..LastOf(gen) : n # right
    <3>1. Item(gen) \in Item(gen)..LastOf(gen) /\ Item(gen) + 1 \in Item(gen)..LastOf(gen)
      BY <1>1
    <3>2. Item(gen) # Item(gen) + 1
      BY <1>1
    <3> QED BY <3>1, <3>2
  <2>2. Passed(Shot(n)) = x
    BY <1>3, <2>1
  <2> HIDE DEF x
  <2> QED BY <2>2, PassedType
<1>5. x < y
  BY <1>1, <1>2
<1> HIDE DEF x, y
<1>6. Cost(x) \in Nat /\ Cost(y) \in Nat /\ Cost(x) < Cost(y)
  BY <1>4, <1>5, CostGrows
<1>7. \A n \in Item(gen)..LastOf(gen) :
        CountsOf(combine(solved, Guess(Nth(gen, n)))) = {IF n = right THEN Cost(y) ELSE Cost(x)}
  <2>1. \A inp : CountsOf(inp) = {Cost(Passed(inp))}
    BY DEF Compares, Comparing, Passed
  <2> QED BY <1>3, <2>1 DEF Shot
<1>8. PICK l \in Nat, h \in Nat : l = Cost(x) /\ h = Cost(y)
  BY <1>6
<1> QED BY <1>6, <1>7, <1>8, RoundPicks DEF Shot

LEMMA NotNone ==
  ASSUME NoneAssumption
  PROVE  /\ \A n : [i \in 1..n |-> <<>>] # Absent
         /\ \A x : <<x>> # Absent /\ <<x>> # <<>> /\ Len(<<x>>) = 1 /\ <<x>>[1] = x
         /\ \A s, n : PadTo(s, n) # Absent
BY PadsAreNotNone DEF NoneAssumption

\* One argument is what the program wants first.
LEMMA ArgcRound ==
  ASSUME NoneAssumption, Compares, DOMAIN solved = DOMAIN Input,
         gen = LenGenerator("argc", 0, ArgcMax), brute!Round
  PROVE  outcome' = "Ok" /\ Len(answer'.argv) = 1
<1> USE DEF ByLen, Lengths
<1>1. /\ gen.kind = "argc" /\ gen.len = 0 /\ gen.max = ArgcMax
      /\ ArgcMax \in Nat /\ 2 <= ArgcMax
      /\ {"kind", "len", "max"} \subseteq DOMAIN gen /\ gen = [x \in DOMAIN gen |-> gen[x]]
  BY PipelineAssumption, TargetAssumption DEF LenGenerator
<1>2. OffersAll(gen) /\ Item(gen) = 0 /\ LastOf(gen) = ArgcMax
  BY <1>1 DEF OffersAll, Counting, Kinds, Item, LastOf
<1>3. ASSUME NEW n \in Nat
      PROVE  /\ Shot(n).argv = [i \in 1..n |-> <<>>] /\ Len(Shot(n).argv) = n
             /\ Shot(n).argv # Absent
  <2>1. Nth(gen, n).kind = "argc" /\ Nth(gen, n).len = n
    BY <1>1, <1>2, NthIs DEF Item
  <2>2. Guess(Nth(gen, n)).argv = [i \in 1..n |-> <<>>]
    BY <2>1 DEF Guess, ArgcGuess, Input
  <2> QED BY <2>2, Combined, NotNone DEF Shot, Or
<1>4. \A n \in Nat : /\ n # 1 => Part(gen.kind, Shot(n)) = 0
                     /\ n = 1 => 0 < Part(gen.kind, Shot(n))
  <2>1. \A x : Compared(x, SecretArg) \in Nat
    BY AgreeType, SecretTypes DEF Compared
  <2>2. \A n \in Nat : Part(gen.kind, Shot(n)) = ArgvPassed(Shot(n).argv)
    BY <1>1 DEF Part
  <2>3. \A n \in Nat : ArgvPassed(Shot(n).argv) =
                       IF n = 1 THEN 1 + Compared(Shot(n).argv[1], SecretArg) ELSE 0
    BY <1>3 DEF ArgvPassed
  <2> QED BY <2>1, <2>2, <2>3
<1>5. PICK m \in Nat :
        IF More(Nth(gen, m), 1)
          THEN outcome' = outcome /\ answer' = answer
          ELSE outcome' = "Ok" /\ answer' = Shot(1)
  <2>1. Item(gen) + 2 <= LastOf(gen) /\ 1 \in Item(gen)..LastOf(gen) /\ 0 \in Nat
    BY <1>1, <1>2
  <2>2. \A n \in Item(gen)..LastOf(gen) :
          IF n = 1 THEN 0 < Part(gen.kind, Shot(n)) ELSE Part(gen.kind, Shot(n)) = 0
    BY <1>1, <1>2, <1>4
  <2> QED BY <1>2, <2>1, <2>2, StagePicks
<1>6. ~More(Nth(gen, m), 1)
  <2>1. Nth(gen, m).kind = "argc" /\ Counting(Nth(gen, m))
    <3>1. Nth(gen, m) = [gen EXCEPT !.len = m]
      BY <1>1 DEF Nth
    <3> QED BY <1>1, <3>1 DEF Counting, Kinds
  <2>2. Updated(Nth(gen, m), 1).kind = "argc"
    BY <2>1, UpdatedCounts
  <2> QED BY <2>2 DEF More
<1> QED BY <1>3, <1>5, <1>6

\* The length of that argument.
LEMMA ArgvLenRound ==
  ASSUME NoneAssumption, Compares, DOMAIN solved = DOMAIN Input,
         gen = ArgvLenGenerator(1, 0, ArgvLenMax), brute!Round
  PROVE  outcome' = "Ok" /\ Len(answer'.argv) = 1 /\ Len(answer'.argv[1]) = Len(SecretArg)
<1> USE DEF ByLen, Lengths
<1>1. /\ gen.kind = "argvlen" /\ gen.len = 0 /\ gen.max = ArgvLenMax /\ gen.min = 0
      /\ gen.pos = 1 /\ gen.argc = 1
      /\ ArgvLenMax \in Nat /\ 2 <= ArgvLenMax
      /\ {"kind", "len", "max", "pos", "argc", "correct"} \subseteq DOMAIN gen
      /\ gen = [x \in DOMAIN gen |-> gen[x]]
  BY PipelineAssumption, TargetAssumption DEF ArgvLenGenerator
<1>2. OffersAll(gen) /\ Item(gen) = 0 /\ LastOf(gen) = ArgvLenMax
  BY <1>1 DEF OffersAll, Counting, Kinds, Item, LastOf
<1>3. ASSUME NEW n \in Nat
      PROVE  Nth(gen, n).kind = "argvlen" /\ Nth(gen, n).len = n
             /\ Nth(gen, n).pos = 1 /\ Nth(gen, n).argc = 1
             /\ {"kind", "pos", "argc"} \subseteq DOMAIN Nth(gen, n)
             /\ Nth(gen, n) = [x \in DOMAIN Nth(gen, n) |-> Nth(gen, n)[x]]
  BY <1>1 DEF Nth
<1>4. ASSUME NEW n \in Nat
      PROVE  Shot(n).argv = <<Pads(n)>> /\ Len(Pads(n)) = n
  <2>1. Guess(Nth(gen, n)).argv = [i \in 1..1 |-> Pads(n)]
    BY <1>3 DEF Guess, ArgvLenGuess, Input
  <2>2. [i \in 1..1 |-> Pads(n)] = <<Pads(n)>>
    OBVIOUS
  <2>3. Len(Pads(n)) = n
    BY PadLen DEF Pads
  <2> QED BY <2>1, <2>2, <2>3, Combined, NotNone DEF Shot, Or
<1>5. \A n \in Nat : /\ n # Len(SecretArg) => Part(gen.kind, Shot(n)) = 1
                     /\ n = Len(SecretArg) => 1 < Part(gen.kind, Shot(n))
  <2>1. \A x : Agree(x, SecretArg) \in Nat
    BY AgreeType, SecretTypes
  <2>2. \A n \in Nat : Part(gen.kind, Shot(n)) = 1 + Compared(Pads(n), SecretArg)
    <3>1. \A n \in Nat : Part(gen.kind, Shot(n)) = ArgvPassed(Shot(n).argv)
      BY <1>1 DEF Part
    <3>2. \A s : ArgvPassed(<<s>>) = 1 + Compared(s, SecretArg)
      BY NotNone DEF ArgvPassed
    <3> QED BY <1>4, <3>1, <3>2
  <2> QED BY <1>4, <2>1, <2>2 DEF Compared
<1>6. PICK m \in Nat :
        IF More(Nth(gen, m), Len(SecretArg))
          THEN outcome' = outcome /\ answer' = answer
          ELSE outcome' = "Ok" /\ answer' = Shot(Len(SecretArg))
  <2>1. /\ Item(gen) + 2 <= LastOf(gen) /\ Len(SecretArg) \in Item(gen)..LastOf(gen)
        /\ 1 \in Nat
    BY <1>1, <1>2, SecretTypes, TargetAssumption
  <2>2. \A n \in Item(gen)..LastOf(gen) :
          IF n = Len(SecretArg) THEN 1 < Part(gen.kind, Shot(n)) ELSE Part(gen.kind, Shot(n)) = 1
    BY <1>1, <1>2, <1>5
  <2> QED BY <1>2, <2>1, <2>2, StagePicks
<1>7. ~More(Nth(gen, m), Len(SecretArg))
  <2>1. PICK h : h = Nth(gen, m)
    OBVIOUS
  <2>2. h.kind = "argvlen" /\ {"kind", "pos", "argc"} \subseteq DOMAIN h /\ h.pos = 1 /\ h.argc = 1
    BY <1>3, <2>1
  <2> DEFINE u == ArgvLenUpdated(h, Len(SecretArg))
  <2>3. Updated(h, Len(SecretArg)) = u
    BY <2>2 DEF Updated
  <2>4. u.kind = h.kind /\ u.argc = h.argc
    BY DEF ArgvLenUpdated
  <2>5. u.pos = 2
    BY <2>2 DEF ArgvLenUpdated
  <2> HIDE DEF u
  <2>6. ~(u.pos <= u.argc) /\ u.kind = "argvlen"
    BY <2>2, <2>4, <2>5
  <2> QED BY <2>1, <2>3, <2>6 DEF More
<1>8. answer' = Shot(Len(SecretArg)) /\ outcome' = "Ok"
  BY <1>6, <1>7
<1>9. answer'.argv = <<Pads(Len(SecretArg))>> /\ Len(Pads(Len(SecretArg))) = Len(SecretArg)
  BY <1>4, <1>8, SecretTypes
<1> QED BY <1>8, <1>9, NotNone

\* The length of stdin.
LEMMA StdinLenRound ==
  ASSUME NoneAssumption, Compares, DOMAIN solved = DOMAIN Input,
         gen = LenGenerator("stdinlen", 0, StdinLenMax), brute!Round
  PROVE  outcome' = "Ok" /\ answer'.stdinlen = Len(SecretStdin)
<1> USE DEF ByLen, Lengths
<1>1. /\ gen.kind = "stdinlen" /\ gen.len = 0 /\ gen.max = StdinLenMax
      /\ StdinLenMax \in Nat /\ 2 <= StdinLenMax
      /\ {"kind", "len", "max"} \subseteq DOMAIN gen /\ gen = [x \in DOMAIN gen |-> gen[x]]
  BY PipelineAssumption, TargetAssumption DEF LenGenerator
<1>2. OffersAll(gen) /\ Item(gen) = 0 /\ LastOf(gen) = StdinLenMax
  BY <1>1 DEF OffersAll, Counting, Kinds, Item, LastOf
<1>3. ASSUME NEW n \in Nat
      PROVE  Shot(n).stdin = Pads(n) /\ Shot(n).stdinlen = n /\ Len(Pads(n)) = n
  <2>1. Nth(gen, n).kind = "stdinlen" /\ Nth(gen, n).len = n
    BY <1>1, <1>2, NthIs DEF Item
  <2>2. Guess(Nth(gen, n)).stdin = Pads(n) /\ Guess(Nth(gen, n)).stdinlen = n
    BY <2>1, GuessParts
  <2>3. Len(Pads(n)) = n /\ Pads(n) # Absent /\ n # Absent
    BY PadLen, PadsAreNotNone DEF Pads, NoneAssumption
  <2> QED BY <2>2, <2>3, Combined DEF Shot, Or
<1>4. \A n \in Nat : /\ n # Len(SecretStdin) => Part(gen.kind, Shot(n)) = 0
                     /\ n = Len(SecretStdin) => 0 < Part(gen.kind, Shot(n))
  <2>1. \A x : Agree(x, SecretStdin) \in Nat
    BY AgreeType, SecretTypes
  <2>2. \A n \in Nat : Part(gen.kind, Shot(n)) = Compared(Pads(n), SecretStdin)
    BY <1>1, <1>3, PadsAreNotNone DEF Part, StdinPassed, Pads
  <2> QED BY <1>3, <2>1, <2>2 DEF Compared
<1>5. PICK m \in Nat :
        IF More(Nth(gen, m), Len(SecretStdin))
          THEN outcome' = outcome /\ answer' = answer
          ELSE outcome' = "Ok" /\ answer' = Shot(Len(SecretStdin))
  <2>1. /\ Item(gen) + 2 <= LastOf(gen) /\ Len(SecretStdin) \in Item(gen)..LastOf(gen)
        /\ 0 \in Nat
    BY <1>1, <1>2, SecretTypes, TargetAssumption
  <2>2. \A n \in Item(gen)..LastOf(gen) :
          IF n = Len(SecretStdin) THEN 0 < Part(gen.kind, Shot(n)) ELSE Part(gen.kind, Shot(n)) = 0
    BY <1>1, <1>2, <1>4
  <2> QED BY <1>2, <2>1, <2>2, StagePicks
<1>6. ~More(Nth(gen, m), Len(SecretStdin))
  <2>1. Nth(gen, m).kind = "stdinlen" /\ Counting(Nth(gen, m))
    <3>1. Nth(gen, m) = [gen EXCEPT !.len = m]
      BY <1>1 DEF Nth
    <3> QED BY <1>1, <3>1 DEF Counting, Kinds
  <2>2. Updated(Nth(gen, m), Len(SecretStdin)).kind = "stdinlen"
    BY <2>1, UpdatedCounts
  <2> QED BY <2>2 DEF More
<1> QED BY <1>3, <1>5, <1>6, SecretTypes

(* A candidate behind what is found already.                                 *)
LEMMA Grows ==
  ASSUME NEW S, NEW s \in Seq(S), NEW k \in 0..Len(s)
  PROVE  /\ SubSeq(s, 1, k) \in Seq(S) /\ Len(SubSeq(s, 1, k)) = k
         /\ \A i \in 1..k : SubSeq(s, 1, k)[i] = s[i]
         /\ k = Len(s) => SubSeq(s, 1, k) = s
         /\ k < Len(s) => Append(SubSeq(s, 1, k), s[k + 1]) = SubSeq(s, 1, k + 1)
<1>1. Len(s) \in Nat /\ k \in Nat /\ DOMAIN s = 1..Len(s) /\ \A i \in 1..Len(s) : s[i] \in S
  OBVIOUS
<1>2. SubSeq(s, 1, k) \in Seq(S) /\ Len(SubSeq(s, 1, k)) = k
      /\ \A i \in 1..k : SubSeq(s, 1, k)[i] = s[i]
  BY <1>1
<1>3. k = Len(s) => SubSeq(s, 1, k) = s
  BY <1>1, <1>2
<1>4. ASSUME k < Len(s)
      PROVE  Append(SubSeq(s, 1, k), s[k + 1]) = SubSeq(s, 1, k + 1)
  BY <1>1, <1>2, <1>4
<1> QED BY <1>2, <1>3, <1>4

LEMMA CandidateAgrees ==
  ASSUME NEW S, NEW s \in Seq(S), NEW k \in 0..Len(s) - 1, NEW c,
         NEW x, \A i \in 1..k + 1 : i \in DOMAIN x /\ x[i] = Append(SubSeq(s, 1, k), c)[i]
  PROVE  /\ c # s[k + 1] => Agree(x, s) = k
         /\ c = s[k + 1] => k < Agree(x, s)
<1>1. Len(s) \in Nat /\ k \in Nat /\ k < Len(s)
  OBVIOUS
<1>2. /\ Len(SubSeq(s, 1, k)) = k /\ SubSeq(s, 1, k) \in Seq(S)
      /\ \A i \in 1..k : SubSeq(s, 1, k)[i] = s[i]
  BY <1>1, Grows
<1>3. /\ \A i \in 1..k : Append(SubSeq(s, 1, k), c)[i] = s[i]
      /\ Append(SubSeq(s, 1, k), c)[k + 1] = c
  BY <1>1, <1>2
<1>4. /\ \A i \in 1..k : i \in DOMAIN x /\ x[i] = s[i]
      /\ k + 1 \in DOMAIN x /\ x[k + 1] = c
  BY <1>1, <1>3
<1> QED BY <1>1, <1>4, AgreeUpTo

LEMMA CandidatePadded ==
  ASSUME NEW S, NEW s \in Seq(S), NEW k \in 0..Len(s) - 1, NEW c,
         NEW x, x = PadTo(Append(SubSeq(s, 1, k), c), Len(s))
  PROVE  /\ Len(x) = Len(s)
         /\ c # s[k + 1] => Agree(x, s) = k
         /\ c = s[k + 1] => k < Agree(x, s)
         /\ c = s[k + 1] /\ k + 1 = Len(s) => x = s
<1>1. Len(s) \in Nat /\ k \in Nat /\ k < Len(s) /\ DOMAIN s = 1..Len(s)
  OBVIOUS
<1> DEFINE a == Append(SubSeq(s, 1, k), c)
<1>2. Len(a) = k + 1
  <2>1. SubSeq(s, 1, k) \in Seq(S) /\ Len(SubSeq(s, 1, k)) = k
    BY <1>1, Grows
  <2> QED BY <1>1, <2>1
<1>3. Len(x) = Len(s)
  BY <1>1, PadLen
<1>4. DOMAIN x = 1..Len(s) /\ \A i \in 1..k + 1 : i \in DOMAIN x /\ x[i] = a[i]
  <2>1. x = PadTo(a, Len(s))
    OBVIOUS
  <2> HIDE DEF a
  <2>2. DOMAIN x = 1..Len(s) /\ \A i \in 1..Len(s) : i <= Len(a) => x[i] = a[i]
    BY <1>1, <2>1, Padded
  <2> QED BY <1>1, <1>2, <2>2
<1>5. /\ c # s[k + 1] => Agree(x, s) = k
      /\ c = s[k + 1] => k < Agree(x, s)
  <2>1. \A i \in 1..k + 1 : i \in DOMAIN x /\ x[i] = Append(SubSeq(s, 1, k), c)[i]
    BY <1>4
  <2>2. s \in Seq(S) /\ k \in 0..Len(s) - 1
    OBVIOUS
  <2> HIDE DEF a
  <2> QED BY ONLY <2>1, <2>2, CandidateAgrees
<1>6. ASSUME c = s[k + 1], k + 1 = Len(s)
      PROVE  x = s
  <2>1. a = s
    <3>1. a = SubSeq(s, 1, k + 1)
      BY <1>1, <1>6, Grows
    <3>2. k + 1 \in 0..Len(s)
      BY <1>1
    <3>3. SubSeq(s, 1, k + 1) = s
      BY <1>6, <3>2, Grows
    <3> QED BY <3>1, <3>3
  <2>2. x = [i \in 1..Len(s) |-> IF i <= Len(a) THEN a[i] ELSE PadChr]
    BY DEF PadTo
  <2> HIDE DEF a
  <2>3. x = [i \in 1..Len(s) |-> s[i]]
    BY <1>1, <1>2, <1>6, <2>1, <2>2
  <2>4. s = [i \in 1..Len(s) |-> s[i]]
    BY <1>1
  <2> QED BY <2>3, <2>4
<1> QED BY <1>3, <1>5, <1>6

\* The characters of the argument, the first length is its own.  The generator
\* after k of them:
ArgvAt(lens, k) ==
  [kind |-> "argv", len |-> lens, idx |-> k, min |-> MinChr, max |-> MaxChr,
   pos |-> 1, argc |-> 1, correct |-> <<SubSeq(SecretArg, 1, k)>>,
   current |-> SubSeq(SecretArg, 1, k), cur |-> MinChr]

LEMMA ArgvStarts ==
  ASSUME NEW lens
  PROVE  ArgvGenerator(1, lens, MinChr, MaxChr) = ArgvAt(lens, 0)
<1>1. SubSeq(SecretArg, 1, 0) = <<>>
  OBVIOUS
<1>2. [i \in 1..1 |-> <<>>] = <<<<>>>>
  OBVIOUS
<1> QED BY <1>1, <1>2 DEF ArgvGenerator, ArgvAt

LEMMA ArgvRound ==
  ASSUME NoneAssumption, Compares, DOMAIN solved = DOMAIN Input,
         NEW lens \in Seq(Nat), lens # <<>>, lens[1] = Len(SecretArg),
         NEW k \in 0..Len(SecretArg) - 1, gen = ArgvAt(lens, k), brute!Round
  PROVE  IF k + 1 < Len(SecretArg)
           THEN gen' = ArgvAt(lens, k + 1) /\ outcome' = outcome
           ELSE outcome' = "Ok" /\ answer'.argv = <<SecretArg>>
<1> USE DEF ByLen, Lengths
<1> DEFINE L == Len(SecretArg)
           right == SecretArg[k + 1]
           x(n) == PadTo(Append(SubSeq(SecretArg, 1, k), n), L)
<1>1. /\ SecretArg \in Seq(MinChr..MaxChr) /\ L \in Nat /\ k \in Nat /\ k < L
      /\ right \in MinChr..MaxChr /\ MinChr \in Nat /\ MaxChr \in Nat
      /\ MinChr + 2 <= MaxChr /\ MaxChr <= ByteMax /\ ByteMax \in Nat
  BY SecretTypes, TargetAssumption, PipelineAssumption, GeneratorAssumption
<1>2. /\ gen.kind = "argv" /\ gen.len = lens /\ gen.idx = k /\ gen.min = MinChr
      /\ gen.max = MaxChr /\ gen.pos = 1 /\ gen.argc = 1 /\ gen.cur = MinChr
      /\ gen.correct = <<SubSeq(SecretArg, 1, k)>> /\ gen.current = SubSeq(SecretArg, 1, k)
      /\ DOMAIN gen = {"kind", "len", "idx", "min", "max", "pos", "argc", "correct", "current", "cur"}
      /\ gen = [y \in DOMAIN gen |-> gen[y]]
      /\ gen.len[1] = L /\ 1 \in DOMAIN gen.len
  <2>1. lens[1] = L /\ 1 \in DOMAIN lens
    OBVIOUS
  <2>2. gen.len = lens
    BY DEF ArgvAt
  <2> HIDE DEF L, right
  <2> QED BY <2>1, <2>2 DEF ArgvAt
<1> HIDE DEF L
<1>3. OffersAll(gen) /\ Item(gen) = MinChr /\ LastOf(gen) = MaxChr
  <2> HIDE DEF right, x
  <2>1. Item(gen) = MinChr /\ LastOf(gen) = MaxChr
    BY <1>2 DEF Item, LastOf
  <2>2. Counting(gen)
    BY <1>1, <1>2 DEF Counting, Kinds, Item
  <2>3. /\ gen.len[gen.pos] = L /\ L # 0 /\ gen.argc # 0 /\ gen.pos <= gen.argc
        /\ gen.pos \in DOMAIN gen.len /\ HasLengths(gen)
    BY <1>1, <1>2 DEF HasLengths
  <2> QED BY <1>1, <1>2, <2>1, <2>2, <2>3 DEF OffersAll
<1>4. ASSUME NEW n \in Nat
      PROVE  /\ Nth(gen, n) = [gen EXCEPT !.cur = n]
             /\ SkipEmpty(Nth(gen, n)) = Nth(gen, n)
             /\ Nth(gen, n).kind = "argv" /\ Nth(gen, n).cur = n
             /\ Nth(gen, n).len = lens /\ Nth(gen, n).pos = 1 /\ Nth(gen, n).argc = 1
             /\ Nth(gen, n).current = SubSeq(SecretArg, 1, k)
  <2>1. Nth(gen, n) = [gen EXCEPT !.cur = n]
    BY <1>2 DEF Nth
  <2>2. /\ Nth(gen, n).kind = "argv" /\ Nth(gen, n).cur = n
        /\ Nth(gen, n).len = lens /\ Nth(gen, n).pos = 1 /\ Nth(gen, n).argc = 1
        /\ Nth(gen, n).current = SubSeq(SecretArg, 1, k)
    BY <1>2, <2>1
  <2>3. Nth(gen, n).len[1] # 0
    BY <1>1, <2>2
  <2>4. SkipEmpty(Nth(gen, n)) = Nth(gen, n)
    BY <2>2, <2>3 DEF SkipEmpty
  <2> QED BY <2>1, <2>2, <2>4
<1>5. ASSUME NEW n \in Nat
      PROVE  Shot(n).argv = <<x(n)>>
  <2>1. Guess(Nth(gen, n)) = ArgvGuess(Nth(gen, n))
    BY <1>4 DEF Guess
  <2>2. ArgvGuess(Nth(gen, n)).argv = [i \in 1..1 |-> x(n)]
    <3>1. PICK h : h = Nth(gen, n)
      OBVIOUS
    <3>2. /\ h.len[1] = L /\ h.pos = 1 /\ h.argc = 1 /\ h.cur = n /\ SkipEmpty(h) = h
          /\ h.current = SubSeq(SecretArg, 1, k)
      BY <1>2, <1>4, <3>1
    <3>3. PadTo(Append(h.current, h.cur), h.len[h.pos]) = x(n)
      BY <3>2
    <3> HIDE DEF x
    <3>4. ArgvGuess(h).argv = [i \in 1..h.argc |->
                                 CASE i = h.pos -> PadTo(Append(h.current, h.cur), h.len[h.pos])
                                   [] i < h.pos -> h.correct[i]
                                   [] i > h.pos -> Pads(h.len[i])]
      BY <3>2 DEF ArgvGuess, Input
    <3>5. \A i \in 1..1 : i = h.pos
      BY <3>2
    <3>6. ArgvGuess(h).argv = [i \in 1..1 |-> x(n)]
      BY <3>2, <3>3, <3>4, <3>5
    <3> QED BY <3>1, <3>6
  <2>3. [i \in 1..1 |-> x(n)] = <<x(n)>>
    OBVIOUS
  <2> QED BY <2>1, <2>2, <2>3, Combined, NotNone DEF Shot, Or
<1>6. \A n \in Nat : /\ n # right => Part(gen.kind, Shot(n)) = 2 + k
                     /\ n = right => 2 + k < Part(gen.kind, Shot(n))
  <2>1. \A n \in Nat : Part(gen.kind, Shot(n)) = ArgvPassed(Shot(n).argv)
    BY <1>2 DEF Part
  <2>2. \A s : ArgvPassed(<<s>>) = 1 + Compared(s, SecretArg)
    BY NotNone DEF ArgvPassed
  <2>3. ASSUME NEW n \in Nat
        PROVE  /\ Len(x(n)) = L
               /\ n # right => Agree(x(n), SecretArg) = k
               /\ n = right => k < Agree(x(n), SecretArg)
               /\ Agree(x(n), SecretArg) \in Nat
    <3>1. /\ SecretArg \in Seq(MinChr..MaxChr) /\ Len(SecretArg) = L /\ L \in Nat
          /\ k \in 0..Len(SecretArg) - 1
      BY <1>1 DEF L
    <3>2. x(n) = PadTo(Append(SubSeq(SecretArg, 1, k), n), Len(SecretArg))
      BY <3>1
    <3> HIDE DEF x
    <3>3. /\ Len(x(n)) = Len(SecretArg)
          /\ n # SecretArg[k + 1] => Agree(x(n), SecretArg) = k
          /\ n = SecretArg[k + 1] => k < Agree(x(n), SecretArg)
      BY ONLY <3>1, <3>2, CandidatePadded
    <3>4. Agree(x(n), SecretArg) \in 0..Len(SecretArg)
      BY <3>1, AgreeType
    <3> QED BY <3>1, <3>3, <3>4
  <2>4. \A n \in Nat : Compared(x(n), SecretArg) = 1 + Agree(x(n), SecretArg)
    BY <2>3 DEF Compared, L
  <2> HIDE DEF x, right
  <2> TAKE n \in Nat
  <2>5. Part(gen.kind, Shot(n)) = 1 + Compared(x(n), SecretArg)
    BY <1>5, <2>1, <2>2
  <2>6. Part(gen.kind, Shot(n)) = 1 + (1 + Agree(x(n), SecretArg))
    BY <2>4, <2>5
  <2>7. PICK a \in Nat : /\ a = Agree(x(n), SecretArg)
                         /\ n # right => a = k
                         /\ n = right => k < a
    BY <2>3
  <2>8. Part(gen.kind, Shot(n)) = 1 + (1 + a) /\ k \in Nat
    BY <1>1, <2>6, <2>7
  <2> QED BY <2>7, <2>8
<1>7. PICK m \in Nat :
        /\ gen' = Updated(Nth(gen, m), right)
        /\ IF More(Nth(gen, m), right)
             THEN outcome' = outcome /\ answer' = answer
             ELSE outcome' = "Ok" /\ answer' = Shot(right)
  <2>1. /\ Item(gen) + 2 <= LastOf(gen) /\ right \in Item(gen)..LastOf(gen)
        /\ 2 + k \in Nat
    BY <1>1, <1>3
  <2>2. \A n \in Item(gen)..LastOf(gen) :
          IF n = right THEN 2 + k < Part(gen.kind, Shot(n)) ELSE Part(gen.kind, Shot(n)) = 2 + k
    <3> HIDE DEF x, right
    <3> TAKE n \in Item(gen)..LastOf(gen)
    <3>1. n \in Nat
      BY <1>1, <1>3
    <3> QED BY <1>6, <3>1
  <2> HIDE DEF right
  <2> QED BY <1>3, <2>1, <2>2, StagePicks
<1>8. Updated(Nth(gen, m), right) =
        [ArgvAt(lens, k + 1) EXCEPT !.idx = IF k + 1 < L THEN k + 1 ELSE 0,
                              !.pos = IF k + 1 < L THEN 1 ELSE 2]
  <2>1. PICK h : h = Nth(gen, m)
    OBVIOUS
  <2>2. /\ h.kind = "argv" /\ h.len = lens /\ h.idx = k /\ h.min = MinChr
        /\ h.max = MaxChr /\ h.pos = 1 /\ h.argc = 1 /\ h.len[1] = L
        /\ h.correct = <<SubSeq(SecretArg, 1, k)>> /\ h.current = SubSeq(SecretArg, 1, k)
        /\ DOMAIN h = {"kind", "len", "idx", "min", "max", "pos", "argc", "correct", "current", "cur"}
    <3>1. DOMAIN h = DOMAIN gen /\ \A y \in DOMAIN gen \ {"cur"} : h[y] = gen[y]
      BY <1>4, <2>1
    <3> QED BY <1>2, <3>1
  <2>3. Append(SubSeq(SecretArg, 1, k), right) = SubSeq(SecretArg, 1, k + 1)
    <3>1. SecretArg \in Seq(MinChr..MaxChr) /\ k \in 0..Len(SecretArg) /\ k < Len(SecretArg)
      BY <1>1 DEF L
    <3> QED BY ONLY <3>1, Grows DEF right
  <2>4. [<<SubSeq(SecretArg, 1, k)>> EXCEPT ![1] = SubSeq(SecretArg, 1, k + 1)] =
          <<SubSeq(SecretArg, 1, k + 1)>>
    OBVIOUS
  <2> DEFINE u == ArgvUpdated(h, right)
  <2>5. Updated(h, right) = u
    BY <2>2 DEF Updated
  <2>6. /\ DOMAIN u = DOMAIN h /\ u = [y \in DOMAIN h |-> u[y]]
        /\ u.kind = "argv" /\ u.len = lens /\ u.min = MinChr /\ u.max = MaxChr /\ u.argc = 1
    <3>1. ~(h.pos > h.argc)
      BY <2>2
    <3>2. DOMAIN u = DOMAIN h /\ u = [y \in DOMAIN h |-> u[y]]
      BY <3>1 DEF ArgvUpdated
    <3>3. u.kind = h.kind /\ u.len = h.len /\ u.min = h.min /\ u.max = h.max /\ u.argc = h.argc
      BY <3>1 DEF ArgvUpdated
    <3> HIDE DEF u
    <3> QED BY <2>2, <3>2, <3>3
  <2>7. u.cur = MinChr /\ u.current = SubSeq(SecretArg, 1, k + 1)
    <3>1. ~(h.pos > h.argc) /\ {"cur", "current"} \subseteq DOMAIN h
      BY <2>2
    <3>2. u.cur = h.min /\ u.current = Append(h.current, right)
      BY <3>1 DEF ArgvUpdated
    <3> HIDE DEF u, right
    <3> QED BY <2>2, <2>3, <3>2
  <2>8. u.correct = <<SubSeq(SecretArg, 1, k + 1)>>
    <3>1. ~(h.pos > h.argc) /\ "correct" \in DOMAIN h
      BY <2>2
    <3>2. u.correct = [h.correct EXCEPT ![h.pos] = Append(h.correct[h.pos], right)]
      BY <3>1 DEF ArgvUpdated
    <3> HIDE DEF u, right
    <3>3. h.correct[h.pos] = SubSeq(SecretArg, 1, k)
      BY <2>2
    <3>4. u.correct = [<<SubSeq(SecretArg, 1, k)>> EXCEPT ![1] = SubSeq(SecretArg, 1, k + 1)]
      BY <2>2, <2>3, <3>2, <3>3
    <3> QED BY <2>4, <3>4
  <2>9. /\ u.idx = IF k + 1 < L THEN k + 1 ELSE 0
        /\ u.pos = IF k + 1 < L THEN 1 ELSE 2
    <3>1. /\ u.idx = IF h.idx + 1 >= h.len[h.pos] THEN 0 ELSE h.idx + 1
          /\ u.pos = IF h.idx + 1 >= h.len[h.pos] THEN h.pos + 1 ELSE h.pos
      <4>1. ~(h.pos > h.argc) /\ {"idx", "pos"} \subseteq DOMAIN h
        BY <2>2
      <4> QED BY <4>1 DEF ArgvUpdated
    <3> HIDE DEF u
    <3>2. h.idx = k /\ h.pos = 1 /\ h.len[h.pos] = L
      BY <2>2
    <3> QED BY <1>1, <3>1, <3>2
  <2> HIDE DEF u, right
  <2> DEFINE v == [ArgvAt(lens, k + 1) EXCEPT !.idx = IF k + 1 < L THEN k + 1 ELSE 0,
                                        !.pos = IF k + 1 < L THEN 1 ELSE 2]
  <2>10. /\ DOMAIN v = DOMAIN h /\ v = [y \in DOMAIN v |-> v[y]]
         /\ v.kind = "argv" /\ v.len = lens /\ v.min = MinChr /\ v.max = MaxChr /\ v.argc = 1
         /\ v.cur = MinChr /\ v.current = SubSeq(SecretArg, 1, k + 1)
         /\ v.correct = <<SubSeq(SecretArg, 1, k + 1)>>
         /\ v.idx = (IF k + 1 < L THEN k + 1 ELSE 0)
         /\ v.pos = (IF k + 1 < L THEN 1 ELSE 2)
    BY <2>2 DEF ArgvAt, L
  <2> HIDE DEF v
  <2>11. u = v
    <3>1. \A y \in DOMAIN h : u[y] = v[y]
      BY <2>2, <2>6, <2>7, <2>8, <2>9, <2>10
    <3> QED BY <2>6, <2>10, <3>1
  <2> QED BY <2>1, <2>5, <2>11 DEF v
<1> HIDE DEF right
<1>9. CASE k + 1 < L
  <2>1. Updated(Nth(gen, m), right) = ArgvAt(lens, k + 1)
    <3>1. Updated(Nth(gen, m), right) = [ArgvAt(lens, k + 1) EXCEPT !.idx = k + 1, !.pos = 1]
      BY <1>8, <1>9
    <3>2. PICK g : g = ArgvAt(lens, k + 1)
      OBVIOUS
    <3>3. g = [y \in DOMAIN g |-> g[y]] /\ g.idx = k + 1 /\ g.pos = 1
      BY <3>2 DEF ArgvAt
    <3>4. [g EXCEPT !.idx = k + 1, !.pos = 1] = g
      BY <3>3
    <3> QED BY <3>1, <3>2, <3>4
  <2>2. ArgvAt(lens, k + 1).kind = "argv" /\ ArgvAt(lens, k + 1).pos = 1 /\ ArgvAt(lens, k + 1).argc = 1
    BY DEF ArgvAt
  <2>3. More(Nth(gen, m), right)
    <3>1. PICK u : u = Updated(Nth(gen, m), right)
      OBVIOUS
    <3>2. u.kind = "argv" /\ u.pos <= u.argc
      BY <2>1, <2>2, <3>1
    <3> QED BY <3>1, <3>2 DEF More
  <2> QED BY <1>7, <1>9, <2>1, <2>3 DEF L
<1>10. CASE ~(k + 1 < L)
  <2>1. PICK u : u = Updated(Nth(gen, m), right)
    OBVIOUS
  <2>2. u.kind = "argv" /\ u.pos = 2 /\ u.argc = 1
    BY <1>8, <1>10, <2>1 DEF ArgvAt
  <2>3. ~More(Nth(gen, m), right)
    BY <2>1, <2>2 DEF More
  <2>4. Shot(right).argv = <<x(right)>> /\ x(right) = SecretArg
    <3>1. right \in Nat /\ k + 1 = L
      BY <1>1, <1>10
    <3>2. Shot(right).argv = <<x(right)>>
      BY <1>5, <3>1
    <3>3. x(right) = SecretArg
      BY <1>1, <3>1, CandidatePadded DEF L, right
    <3> QED BY <3>2, <3>3
  <2> QED BY <1>7, <1>10, <2>3, <2>4 DEF L
<1> QED BY <1>9, <1>10

\* The characters of stdin, behind a start that is right.
StdinAt(k) ==
  [kind |-> "stdinchar", padlen |-> Len(SecretStdin), prefix |-> Start, idx |-> k,
   cur |-> MinChr, correct |-> SubSeq(SecretStdin, Len(Start) + 1, k),
   min |-> MinChr, max |-> MaxChr]

LEMMA GrowsBehind ==
  ASSUME NEW S, NEW s \in Seq(S), NEW j \in Nat, NEW k \in j..Len(s)
  PROVE  /\ SubSeq(s, 1, j) \o SubSeq(s, j + 1, k) = SubSeq(s, 1, k)
         /\ k < Len(s) => Append(SubSeq(s, j + 1, k), s[k + 1]) = SubSeq(s, j + 1, k + 1)
<1>1. Len(s) \in Nat /\ k \in Nat /\ j <= k /\ k <= Len(s)
  OBVIOUS
<1>2. /\ SubSeq(s, 1, j) \in Seq(S) /\ Len(SubSeq(s, 1, j)) = j
      /\ \A i \in 1..j : SubSeq(s, 1, j)[i] = s[i]
  BY <1>1, Grows
<1>3. /\ SubSeq(s, 1, k) \in Seq(S) /\ Len(SubSeq(s, 1, k)) = k
      /\ \A i \in 1..k : SubSeq(s, 1, k)[i] = s[i]
  BY <1>1, Grows
<1>4. /\ SubSeq(s, j + 1, k) \in Seq(S) /\ Len(SubSeq(s, j + 1, k)) = k - j
      /\ \A i \in 1..k - j : SubSeq(s, j + 1, k)[i] = s[j + i]
  BY <1>1
<1>5. SubSeq(s, 1, j) \o SubSeq(s, j + 1, k) = SubSeq(s, 1, k)
  <2> DEFINE a == SubSeq(s, 1, j)
             b == SubSeq(s, j + 1, k)
             c == SubSeq(s, 1, k)
  <2>1. /\ a \in Seq(S) /\ Len(a) = j /\ b \in Seq(S) /\ Len(b) = k - j
        /\ c \in Seq(S) /\ Len(c) = k
    BY <1>2, <1>3, <1>4
  <2>2. \A i \in 1..k : c[i] = IF i <= j THEN a[i] ELSE b[i - j]
    BY <1>1, <1>2, <1>3, <1>4
  <2> HIDE DEF a, b, c
  <2>3. /\ a \o b \in Seq(S) /\ Len(a \o b) = Len(a) + Len(b)
        /\ \A i \in 1..Len(a) + Len(b) :
             (a \o b)[i] = IF i <= Len(a) THEN a[i] ELSE b[i - Len(a)]
    BY <2>1, ConcatProperties
  <2>4. Len(a) + Len(b) = k
    BY <1>1, <2>1
  <2>5. Len(a \o b) = k /\ \A i \in 1..k : (a \o b)[i] = c[i]
    BY <2>1, <2>2, <2>3, <2>4
  <2>6. a \o b = c
    BY <2>1, <2>3, <2>5, SeqEqual
  <2> QED BY <2>6 DEF a, b, c
<1>6. ASSUME k < Len(s)
      PROVE  Append(SubSeq(s, j + 1, k), s[k + 1]) = SubSeq(s, j + 1, k + 1)
  <2> DEFINE b == SubSeq(s, j + 1, k)
             c == SubSeq(s, j + 1, k + 1)
  <2>1. b \in Seq(S) /\ Len(b) = k - j /\ \A i \in 1..k - j : b[i] = s[j + i]
    BY <1>4
  <2>2. /\ c \in Seq(S) /\ Len(c) = k + 1 - j /\ \A i \in 1..k + 1 - j : c[i] = s[j + i]
        /\ s[k + 1] \in S
    BY <1>1, <1>6
  <2> HIDE DEF b, c
  <2>3. PICK d : d = Append(b, s[k + 1])
    OBVIOUS
  <2>4. /\ d \in Seq(S) /\ Len(d) = Len(b) + 1
        /\ \A i \in 1..Len(b) : d[i] = b[i]
        /\ d[Len(b) + 1] = s[k + 1]
    <3>1. PICK e \in S : e = s[k + 1]
      BY <2>2
    <3>2. /\ Append(b, e) \in Seq(S) /\ Len(Append(b, e)) = Len(b) + 1
          /\ \A i \in 1..Len(b) : Append(b, e)[i] = b[i]
          /\ Append(b, e)[Len(b) + 1] = e
      BY <2>1, AppendProperties
    <3> QED BY <2>3, <3>1, <3>2
  <2>5. Len(d) = k + 1 - j
    BY <1>1, <2>1, <2>4
  <2>6. ASSUME NEW i \in 1..k + 1 - j
        PROVE  d[i] = c[i]
    <3>1. CASE i \in 1..k - j
      BY <2>1, <2>2, <2>4, <3>1
    <3>2. CASE i = k + 1 - j
      <4>1. j + i = k + 1 /\ i = Len(b) + 1
        BY <1>1, <2>1, <3>2
      <4> QED BY <2>2, <2>4, <4>1
    <3> QED BY <1>1, <3>1, <3>2
  <2>7. d = c
    BY <2>2, <2>4, <2>5, <2>6, SeqEqual
  <2> QED BY <2>3, <2>7 DEF b, c
<1> QED BY <1>5, <1>6

LEMMA StdinStarts ==
  ASSUME Len(Start) \in Nat
  PROVE  StdinCharGenerator(Len(SecretStdin), MinChr, MaxChr, Start) = StdinAt(Len(Start))
<1>1. SubSeq(SecretStdin, Len(Start) + 1, Len(Start)) = <<>>
  OBVIOUS
<1> QED BY <1>1 DEF StdinCharGenerator, StdinAt

LEMMA StdinRound ==
  ASSUME NoneAssumption, Compares, DOMAIN solved = DOMAIN Input,
         Len(Start) \in Nat, Start = SubSeq(SecretStdin, 1, Len(Start)),
         NEW k \in Len(Start)..Len(SecretStdin) - 1, gen = StdinAt(k),
         opts' = opts, brute!Round
  PROVE  IF k + 1 < Len(SecretStdin)
           THEN gen' = StdinAt(k + 1)' /\ outcome' = outcome
           ELSE outcome' = "Ok" /\ answer'.stdin = SecretStdin
<1> USE DEF ByLen, Lengths
<1> DEFINE L == Len(SecretStdin)
           right == SecretStdin[k + 1]
           x(n) == PadTo(Append(SubSeq(SecretStdin, 1, k), n), L)
<1>1. /\ SecretStdin \in Seq(MinChr..MaxChr) /\ L \in Nat /\ k \in Nat /\ k < L
      /\ right \in MinChr..MaxChr /\ MinChr \in Nat /\ MaxChr \in Nat
      /\ MinChr + 2 <= MaxChr /\ MaxChr <= ByteMax /\ ByteMax \in Nat
      /\ k \in 0..L - 1
  BY SecretTypes, TargetAssumption, PipelineAssumption, GeneratorAssumption
<1>2. /\ gen.kind = "stdinchar" /\ gen.padlen = L /\ gen.prefix = Start /\ gen.idx = k
      /\ gen.min = MinChr /\ gen.max = MaxChr /\ gen.cur = MinChr
      /\ gen.correct = SubSeq(SecretStdin, Len(Start) + 1, k)
      /\ DOMAIN gen = {"kind", "padlen", "prefix", "idx", "cur", "correct", "min", "max"}
      /\ gen = [y \in DOMAIN gen |-> gen[y]]
  BY DEF StdinAt
<1>3. /\ Start \o SubSeq(SecretStdin, Len(Start) + 1, k) = SubSeq(SecretStdin, 1, k)
      /\ Append(SubSeq(SecretStdin, Len(Start) + 1, k), right) =
           SubSeq(SecretStdin, Len(Start) + 1, k + 1)
  <2>1. k \in Len(Start)..Len(SecretStdin)
    BY <1>1
  <2> QED BY <1>1, <2>1, GrowsBehind
<1> HIDE DEF L
<1>4. OffersAll(gen) /\ Item(gen) = MinChr /\ LastOf(gen) = MaxChr
  <2>1. L # Absent
    BY <1>1 DEF NoneAssumption
  <2> QED BY <1>1, <1>2, <2>1 DEF OffersAll, Counting, Kinds, Item, LastOf
<1>5. ASSUME NEW n \in Nat
      PROVE  /\ Nth(gen, n) = [gen EXCEPT !.cur = n]
             /\ DOMAIN Nth(gen, n) = DOMAIN gen /\ Nth(gen, n).cur = n
             /\ \A y \in DOMAIN gen \ {"cur"} : Nth(gen, n)[y] = gen[y]
  <2>1. Nth(gen, n) = [gen EXCEPT !.cur = n]
    BY <1>2 DEF Nth
  <2> QED BY <1>2, <2>1
<1>6. ASSUME NEW n \in Nat
      PROVE  Shot(n).stdin = x(n)
  <2>1. PICK h : h = Nth(gen, n)
    OBVIOUS
  <2>2. /\ h.kind = "stdinchar" /\ h.prefix = Start /\ h.cur = n /\ h.padlen = L
        /\ h.correct = SubSeq(SecretStdin, Len(Start) + 1, k)
    BY <1>2, <1>5, <2>1
  <2>3. Guess(h).stdin = PadTo(Append(h.prefix \o h.correct, h.cur), h.padlen)
    BY <2>2, GuessParts
  <2>4. Guess(h).stdin = x(n)
    BY <1>3, <2>2, <2>3
  <2> QED BY <2>1, <2>4, Combined, PadsAreNotNone DEF Shot, Or
<1>7. \A n \in Nat : /\ n # right => Part(gen.kind, Shot(n)) = 1 + k
                     /\ n = right => 1 + k < Part(gen.kind, Shot(n))
  <2>1. \A n \in Nat : Part(gen.kind, Shot(n)) = StdinPassed(Shot(n).stdin)
    BY <1>2 DEF Part
  <2>2. \A n : StdinPassed(x(n)) = Compared(x(n), SecretStdin)
    BY PadsAreNotNone DEF StdinPassed
  <2>3. ASSUME NEW n \in Nat
        PROVE  /\ Len(x(n)) = L
               /\ n # right => Agree(x(n), SecretStdin) = k
               /\ n = right => k < Agree(x(n), SecretStdin)
               /\ Agree(x(n), SecretStdin) \in Nat
    <3>1. /\ SecretStdin \in Seq(MinChr..MaxChr) /\ Len(SecretStdin) = L /\ L \in Nat
          /\ k \in 0..Len(SecretStdin) - 1
      BY <1>1 DEF L
    <3>2. x(n) = PadTo(Append(SubSeq(SecretStdin, 1, k), n), Len(SecretStdin))
      BY <3>1
    <3> HIDE DEF x
    <3>3. /\ Len(x(n)) = Len(SecretStdin)
          /\ n # SecretStdin[k + 1] => Agree(x(n), SecretStdin) = k
          /\ n = SecretStdin[k + 1] => k < Agree(x(n), SecretStdin)
      BY <3>1, <3>2, CandidatePadded
    <3>4. Agree(x(n), SecretStdin) \in 0..Len(SecretStdin)
      BY <3>1, AgreeType
    <3> QED BY <3>1, <3>3, <3>4
  <2>4. \A n \in Nat : Compared(x(n), SecretStdin) = 1 + Agree(x(n), SecretStdin)
    BY <2>3 DEF Compared, L
  <2> HIDE DEF x, right
  <2> TAKE n \in Nat
  <2>5. Part(gen.kind, Shot(n)) = 1 + Agree(x(n), SecretStdin)
    BY <1>6, <2>1, <2>2, <2>4
  <2>6. PICK a \in Nat : /\ a = Agree(x(n), SecretStdin)
                         /\ n # right => a = k
                         /\ n = right => k < a
    BY <2>3
  <2>7. Part(gen.kind, Shot(n)) = 1 + a /\ k \in Nat
    BY <1>1, <2>5, <2>6
  <2> QED BY <2>6, <2>7
<1>8. PICK m \in Nat :
        /\ gen' = Updated(Nth(gen, m), right)
        /\ IF More(Nth(gen, m), right)
             THEN outcome' = outcome /\ answer' = answer
             ELSE outcome' = "Ok" /\ answer' = Shot(right)
  <2>1. /\ Item(gen) + 2 <= LastOf(gen) /\ right \in Item(gen)..LastOf(gen)
        /\ 1 + k \in Nat
    <3> HIDE DEF x, right
    <3> QED BY <1>1, <1>4
  <2>2. \A n \in Item(gen)..LastOf(gen) :
          IF n = right THEN 1 + k < Part(gen.kind, Shot(n)) ELSE Part(gen.kind, Shot(n)) = 1 + k
    <3> HIDE DEF x, right
    <3> TAKE n \in Item(gen)..LastOf(gen)
    <3>1. n \in Nat
      BY <1>1, <1>4
    <3> QED BY <1>7, <3>1
  <2> HIDE DEF right
  <2> QED BY <1>4, <2>1, <2>2, StagePicks
<1>9. Updated(Nth(gen, m), right) = StdinAt(k + 1)
  <2>1. PICK h : h = Nth(gen, m)
    OBVIOUS
  <2>2. /\ h.kind = "stdinchar" /\ h.padlen = L /\ h.prefix = Start /\ h.idx = k
        /\ h.min = MinChr /\ h.max = MaxChr
        /\ h.correct = SubSeq(SecretStdin, Len(Start) + 1, k)
        /\ DOMAIN h = {"kind", "padlen", "prefix", "idx", "cur", "correct", "min", "max"}
    BY <1>2, <1>5, <2>1
  <2> DEFINE u == StdinCharUpdated(h, right)
             v == StdinAt(k + 1)
  <2>3. Updated(h, right) = u
    BY <2>2 DEF Updated
  <2>4. /\ DOMAIN u = DOMAIN h /\ u = [y \in DOMAIN h |-> u[y]]
        /\ u.kind = h.kind /\ u.padlen = h.padlen /\ u.prefix = h.prefix
        /\ u.min = h.min /\ u.max = h.max
    <3>1. DOMAIN u = DOMAIN h /\ u = [y \in DOMAIN h |-> u[y]]
      BY DEF StdinCharUpdated
    <3>2. u.kind = h.kind /\ u.padlen = h.padlen /\ u.prefix = h.prefix
      BY DEF StdinCharUpdated
    <3>3. u.min = h.min /\ u.max = h.max
      BY DEF StdinCharUpdated
    <3> HIDE DEF u
    <3> QED BY <3>1, <3>2, <3>3
  <2>5. u.cur = MinChr /\ u.idx = k + 1
    BY <2>2 DEF StdinCharUpdated
  <2>6. u.correct = SubSeq(SecretStdin, Len(Start) + 1, k + 1)
    BY <1>3, <2>2 DEF StdinCharUpdated
  <2>7. /\ DOMAIN v = DOMAIN h /\ v = [y \in DOMAIN v |-> v[y]]
        /\ v.kind = "stdinchar" /\ v.padlen = L /\ v.prefix = Start /\ v.idx = k + 1
        /\ v.min = MinChr /\ v.max = MaxChr /\ v.cur = MinChr
        /\ v.correct = SubSeq(SecretStdin, Len(Start) + 1, k + 1)
    BY <2>2 DEF StdinAt, L
  <2> HIDE DEF u, v, right
  <2>8. u = v
    <3>1. \A y \in DOMAIN h : u[y] = v[y]
      BY <2>2, <2>4, <2>5, <2>6, <2>7
    <3> QED BY <2>4, <2>7, <3>1
  <2> QED BY <2>1, <2>3, <2>8 DEF v
<1> HIDE DEF right
<1>10. More(Nth(gen, m), right) <=> k + 1 < L
  <2>1. PICK u : u = Updated(Nth(gen, m), right)
    OBVIOUS
  <2>2. u.kind = "stdinchar" /\ u.padlen = L /\ u.idx = k + 1
    BY <1>9, <2>1 DEF StdinAt, L
  <2>3. L # Absent
    BY <1>1 DEF NoneAssumption
  <2> QED BY <2>1, <2>2, <2>3 DEF More
<1>11. CASE k + 1 < L
  <2>1. Start' = Start
    BY DEF Start
  <2>2. StdinAt(k + 1)' = StdinAt(k + 1)
    BY <2>1 DEF StdinAt
  <2> QED BY <1>8, <1>9, <1>10, <1>11, <2>2 DEF L
<1>12. CASE ~(k + 1 < L)
  <2>1. right \in Nat /\ k + 1 = L
    BY <1>1, <1>12
  <2>2. Shot(right).stdin = x(right)
    BY <1>6, <2>1
  <2>3. x(right) = SecretStdin
    <3>1. /\ SecretStdin \in Seq(MinChr..MaxChr) /\ k \in 0..Len(SecretStdin) - 1
          /\ right = SecretStdin[k + 1] /\ k + 1 = Len(SecretStdin)
      BY <1>1, <2>1 DEF L, right
    <3>2. x(right) = PadTo(Append(SubSeq(SecretStdin, 1, k), right), Len(SecretStdin))
      BY DEF L
    <3> HIDE DEF x, right
    <3> QED BY <3>1, <3>2, CandidatePadded
  <2> QED BY <1>8, <1>10, <1>12, <2>2, <2>3 DEF L
<1> QED BY <1>11, <1>12

\* The bytes of a region.
MemAt(size, k) == MemGenerator(size, SubSeq(SecretBytes, 1, k))

MemDone(inp) ==
  /\ Len(inp.mem) = 1
  /\ inp.mem[1].bytes = SubSeq(SecretBytes, 1, inp.mem[1].size)

LEMMA MemRound ==
  ASSUME NoneAssumption, Compares, DOMAIN solved = DOMAIN Input,
         NEW size \in 1..Len(SecretBytes), NEW k \in 0..size - 1, gen = MemAt(size, k),
         brute!Round
  PROVE  IF k + 1 < size
           THEN gen' = MemAt(size, k + 1) /\ outcome' = outcome
           ELSE outcome' = "Ok" /\ MemDone(answer')
<1> USE DEF ByLen, Lengths
<1> DEFINE L == Len(SecretBytes)
           right == SecretBytes[k + 1]
           found == SubSeq(SecretBytes, 1, k)
           x(n) == [size |-> size, bytes |-> Append(found, n)]
<1>1. /\ SecretBytes \in Seq(0..ByteMax) /\ L \in Nat /\ k \in Nat /\ size \in Nat
      /\ k < size /\ size <= L /\ k \in 0..L - 1
      /\ right \in 0..ByteMax /\ ByteMax \in Nat /\ 2 <= ByteMax
  <2> HIDE DEF found, x
  <2>1. SecretBytes \in Seq(0..ByteMax) /\ L \in Nat
    BY SecretTypes, TargetAssumption
  <2>2. MinChr \in Nat /\ MaxChr \in Nat /\ ByteMax \in Nat
    BY PipelineAssumption, GeneratorAssumption
  <2>3. 2 <= ByteMax
    BY <2>2, TargetAssumption
  <2>4. k \in Nat /\ size \in Nat /\ k < size /\ size <= L /\ k \in 0..L - 1
    BY <2>1
  <2>5. right \in 0..ByteMax
    <3>1. k + 1 \in 1..L
      BY <2>1, <2>4
    <3> QED BY <3>1, SecretTypes
  <2> QED BY <2>1, <2>2, <2>3, <2>4, <2>5
<1>2. /\ Len(found) = k /\ found \in Seq(0..ByteMax)
      /\ Append(found, right) = SubSeq(SecretBytes, 1, k + 1)
  <2>1. SecretBytes \in Seq(0..ByteMax) /\ k \in 0..Len(SecretBytes) /\ k < Len(SecretBytes)
    BY <1>1
  <2> HIDE DEF x
  <2>2. SubSeq(SecretBytes, 1, k) \in Seq(0..ByteMax) /\ Len(SubSeq(SecretBytes, 1, k)) = k
    BY ONLY <2>1, Grows
  <2>3. Append(SubSeq(SecretBytes, 1, k), SecretBytes[k + 1]) = SubSeq(SecretBytes, 1, k + 1)
    BY ONLY <2>1, Grows
  <2> QED BY ONLY <2>2, <2>3
<1>3. /\ gen.kind = "mem" /\ gen.cur = 0 /\ gen.correct = [size |-> size, bytes |-> found]
      /\ DOMAIN gen = {"kind", "cur", "correct"}
      /\ gen = [y \in DOMAIN gen |-> gen[y]]
  BY DEF MemAt, MemGenerator
<1> HIDE DEF L
<1>4. OffersAll(gen) /\ Item(gen) = 0 /\ LastOf(gen) = ByteMax
  <2>1. ~finished(gen)
    <3>1. Len(gen.correct.bytes) = k /\ gen.correct.size = size
      BY <1>2, <1>3
    <3> QED BY <1>1, <3>1 DEF finished
  <2> HIDE DEF found
  <2> QED BY <1>1, <1>3, <2>1 DEF OffersAll, Counting, Kinds, Item, LastOf
<1>5. ASSUME NEW n \in Nat
      PROVE  /\ Nth(gen, n).kind = "mem" /\ Nth(gen, n).cur = n
             /\ Nth(gen, n).correct = [size |-> size, bytes |-> found]
             /\ DOMAIN Nth(gen, n) = {"kind", "cur", "correct"}
  <2> HIDE DEF found
  <2>1. Nth(gen, n) = [gen EXCEPT !.cur = n]
    BY <1>3 DEF Nth
  <2> QED BY <1>3, <2>1
<1>6. ASSUME NEW n \in Nat
      PROVE  Shot(n).mem = <<x(n)>>
  <2>1. PICK h : h = Nth(gen, n)
    OBVIOUS
  <2>2. h.kind = "mem" /\ h.cur = n /\ h.correct = [size |-> size, bytes |-> found]
    BY <1>5, <2>1
  <2> HIDE DEF found
  <2>3. [h.correct EXCEPT !.bytes = Append(@, h.cur)] = x(n)
    <3>1. PICK r : r = h.correct
      OBVIOUS
    <3>2. r = [size |-> size, bytes |-> found]
      BY <2>2, <3>1
    <3>3. PICK d : d = Append(found, n)
      OBVIOUS
    <3>4. [r EXCEPT !.bytes = d] = [size |-> size, bytes |-> d]
      BY <3>2
    <3>5. Append(r.bytes, n) = d
      BY <3>2, <3>3
    <3> QED BY <2>2, <3>1, <3>3, <3>4, <3>5, Zenon
  <2>4. Guess(h) = MemGuess(h)
    BY <2>2 DEF Guess
  <2>5. MemGuess(h).mem = <<x(n)>>
    BY <2>3 DEF MemGuess, Input
  <2> HIDE DEF x
  <2>6. Shot(n).mem = Or(Guess(h).mem, solved.mem)
    BY <2>1, Combined DEF Shot
  <2>7. <<x(n)>> # Absent
    BY NotNone
  <2> QED BY <2>4, <2>5, <2>6, <2>7 DEF Or
<1>7. \A n \in Nat : /\ n # right => Part(gen.kind, Shot(n)) = k
                     /\ n = right => k < Part(gen.kind, Shot(n))
  <2>1. \A n \in Nat : Part(gen.kind, Shot(n)) = MemPassed(Shot(n).mem)
    BY <1>3 DEF Part
  <2>2. \A r : MemPassed(<<r>>) = Agree(r.bytes, SecretBytes)
    BY NotNone DEF MemPassed
  <2>3. ASSUME NEW n \in Nat
        PROVE  /\ n # right => Agree(x(n).bytes, SecretBytes) = k
               /\ n = right => k < Agree(x(n).bytes, SecretBytes)
    <3>1. PICK b : b = Append(found, n)
      OBVIOUS
    <3>2. \A i \in 1..k + 1 : i \in DOMAIN b /\ b[i] = Append(found, n)[i]
      BY <1>1, <1>2, <3>1
    <3>3. /\ n # right => Agree(b, SecretBytes) = k
          /\ n = right => k < Agree(b, SecretBytes)
      BY <1>1, <3>2, CandidateAgrees DEF L
    <3> QED BY <3>1, <3>3
  <2> HIDE DEF x, right
  <2> QED BY <1>6, <2>1, <2>2, <2>3
<1>8. PICK m \in Nat :
        /\ gen' = Updated(Nth(gen, m), right)
        /\ IF More(Nth(gen, m), right)
             THEN outcome' = outcome /\ answer' = answer
             ELSE outcome' = "Ok" /\ answer' = Shot(right)
  <2>1. Item(gen) + 2 <= LastOf(gen) /\ right \in Item(gen)..LastOf(gen)
    BY <1>1, <1>4
  <2>2. \A n \in Item(gen)..LastOf(gen) :
          IF n = right THEN k < Part(gen.kind, Shot(n)) ELSE Part(gen.kind, Shot(n)) = k
    BY <1>1, <1>4, <1>7
  <2> HIDE DEF right
  <2> QED BY <1>1, <1>4, <2>1, <2>2, StagePicks
<1>9. Updated(Nth(gen, m), right) = MemAt(size, k + 1)
  <2>1. PICK h : h = Nth(gen, m)
    OBVIOUS
  <2>2. /\ h.kind = "mem" /\ h.correct = [size |-> size, bytes |-> found]
        /\ DOMAIN h = {"kind", "cur", "correct"}
    BY <1>5, <2>1
  <2> DEFINE u == MemUpdated(h, right)
             v == MemAt(size, k + 1)
  <2>3. Updated(h, right) = u
    BY <2>2 DEF Updated
  <2>4. [h.correct EXCEPT !.bytes = Append(@, right)] =
          [size |-> size, bytes |-> SubSeq(SecretBytes, 1, k + 1)]
    <3> HIDE DEF found, right
    <3>1. PICK r : r = h.correct
      OBVIOUS
    <3>2. r = [size |-> size, bytes |-> found]
      BY <2>2, <3>1
    <3>3. PICK d : d = SubSeq(SecretBytes, 1, k + 1)
      OBVIOUS
    <3>4. [r EXCEPT !.bytes = d] = [size |-> size, bytes |-> d]
      BY <3>2
    <3>5. Append(r.bytes, right) = d
      BY <1>2, <3>2, <3>3
    <3> QED BY <3>1, <3>3, <3>4, <3>5, Zenon
  <2>5. /\ DOMAIN u = DOMAIN h /\ u = [y \in DOMAIN h |-> u[y]]
        /\ u.kind = "mem" /\ u.cur = 0
        /\ u.correct = [h.correct EXCEPT !.bytes = Append(@, right)]
    BY <2>2 DEF MemUpdated
  <2>6. /\ DOMAIN v = DOMAIN h /\ v = [y \in DOMAIN v |-> v[y]]
        /\ v.kind = "mem" /\ v.cur = 0
        /\ v.correct = [size |-> size, bytes |-> SubSeq(SecretBytes, 1, k + 1)]
    BY <2>2 DEF MemAt, MemGenerator
  <2> HIDE DEF u, v, right, found
  <2>7. u = v
    <3>1. \A y \in DOMAIN h : u[y] = v[y]
      BY <2>2, <2>4, <2>5, <2>6
    <3> QED BY <2>5, <2>6, <3>1
  <2> QED BY <2>1, <2>3, <2>7 DEF v
<1>10. More(Nth(gen, m), right) <=> k + 1 < size
  <2>1. PICK u : u = Updated(Nth(gen, m), right)
    OBVIOUS
  <2>2. u.kind = "mem" /\ u.correct = [size |-> size, bytes |-> SubSeq(SecretBytes, 1, k + 1)]
    BY <1>9, <2>1 DEF MemAt, MemGenerator
  <2>3. Len(SubSeq(SecretBytes, 1, k + 1)) = k + 1
    <3>1. k + 1 \in 0..L
      BY <1>1
    <3> QED BY <1>1, <3>1, Grows DEF L
  <2>4. finished(u) <=> k + 1 = size
    BY <2>2, <2>3 DEF finished
  <2>5. More(Nth(gen, m), right) <=> ~finished(u)
    BY <2>1, <2>2 DEF More
  <2> QED BY <1>1, <2>4, <2>5
<1>11. CASE k + 1 < size
  BY <1>8, <1>9, <1>10, <1>11
<1>12. CASE ~(k + 1 < size)
  <2>1. right \in Nat /\ k + 1 = size
    BY <1>1, <1>12
  <2>2. Shot(right).mem = <<x(right)>> /\ x(right).size = size
        /\ x(right).bytes = SubSeq(SecretBytes, 1, k + 1)
    BY <1>2, <1>6, <2>1
  <2> HIDE DEF x, right, found
  <2>3. MemDone(Shot(right))
    BY <2>1, <2>2, NotNone DEF MemDone
  <2> QED BY <1>8, <1>10, <1>12, <2>3
<1> QED BY <1>11, <1>12

-----------------------------------------------------------------------------
(* The inductive invariant: in each call the generator is one of those that *)
(* the stage goes through, and what is found in a stage stays.              *)

ListGiven ==
  LET lens == opts.init_input.argvlens IN
  lens \in Seq(Nat) /\ lens # <<>> /\ lens[1] = Len(SecretArg)

Planned(g) ==
  \/ pc = "argc" /\ g = LenGenerator("argc", 0, ArgcMax)
  \/ pc = "argvlen" /\ g = ArgvLenGenerator(1, 0, ArgvLenMax)
  \/ /\ pc = "argv" /\ ListGiven
     /\ \E k \in 0..Len(SecretArg) - 1 : g = ArgvAt(opts.init_input.argvlens, k)
  \/ pc = "stdinlen" /\ g = LenGenerator("stdinlen", 0, StdinLenMax)
  \/ /\ pc = "stdinchar" /\ Start = SubSeq(SecretStdin, 1, Len(Start))
     /\ \E k \in Len(Start)..Len(SecretStdin) - 1 : g = StdinAt(k)
  \/ pc = "region" /\ \E size \in 1..Len(SecretBytes) : \E k \in 0..size - 1 : g = MemAt(size, k)

Found(inp) ==
  /\ pc = "argc" => Len(inp.argv) = 1
  /\ pc = "argvlen" => Len(inp.argv) = 1 /\ Len(inp.argv[1]) = Len(SecretArg)
  /\ pc = "argv" => inp.argv = <<SecretArg>>
  /\ pc = "stdinlen" => inp.stdinlen = Len(SecretStdin)
  /\ pc = "stdinchar" => inp.stdin = SecretStdin
  /\ pc = "region" => MemDone(inp)

CallFinds ==
  calling =>
    /\ outcome = "running" => ~Offers(gen) \/ Planned(gen)
    /\ outcome = "Ok" => Found(answer)

KnownArgv ==
  /\ pc # "argc" /\ opts.solve_argv => Len(input.argv) = 1
  /\ pc \notin {"argc", "argvlen"} /\ ArgvToSolve => Len(input.argv[1]) = Len(SecretArg)
  /\ pc \notin {"argc", "argvlen", "argv"} /\ ArgvToSolve /\ opts.init_input.argvlens # Absent =>
       input.argv = <<SecretArg>>

KnownStdin ==
  /\ pc \in {"argc", "argvlen", "argv", "stdinlen"} => input.stdinlen = opts.init_input.stdinlen
  /\ pc = "stdinlen" /\ calling => input.stdinlen = Absent
  /\ pc = "stdinchar" =>
       \/ input.stdinlen <= Len(Start)
       \/ /\ input.stdinlen = Len(SecretStdin) /\ Len(Start) < Len(SecretStdin)
          /\ Start = SubSeq(SecretStdin, 1, Len(Start))
  /\ pc \in {"mem", "region", "done"} /\ opts.solve_stdin => input.stdin = SecretStdin

KnownMem ==
  /\ pc = "region" /\ ~calling => left = opts.init_input.mem \/ MemDone(input)
  /\ pc = "done" /\ opts.init_input.mem \notin {Absent, <<>>} => MemDone(input)

Ended == at \in {"done", "closed"} \/ result = "Ok" => pc = "done"

TargetInv == CallFinds /\ KnownArgv /\ KnownStdin /\ KnownMem /\ Ended

LEMMA InitTarget == Init => TargetInv
<1> SUFFICES ASSUME Init PROVE TargetInv
  OBVIOUS
<1>1. /\ pc = "argc" /\ calling = FALSE /\ input = opts.init_input /\ result = "none"
      /\ TuiInit(opts.ui)
  BY DEF Init
<1>2. at = "idle"
  BY <1>1 DEF TuiInit
<1> QED BY <1>1, <1>2 DEF TargetInv, CallFinds, KnownArgv, KnownStdin, KnownMem, Ended

\* Steps that are not about the input.
LEMMA SameTarget ==
  ASSUME TargetInv, UNCHANGED <<opts, pc, input, left, gen, answer>>,
         calling' = calling, outcome' = outcome \/ outcome' \in {"Err", "panicked"},
         at' = at \/ at' \notin {"done", "closed"} \/ at = "done",
         result' = result \/ result' # "Ok" \/ at = "closed"
  PROVE  TargetInv'
<1>1. CallFinds'
  <2>1. Start' = Start
    BY DEF Start
  <2>2. Planned(gen) => Planned(gen)'
    BY <2>1 DEF Planned, ListGiven, StdinAt
  <2>3. Found(answer) => Found(answer)'
    BY DEF Found
  <2> QED BY <2>2, <2>3 DEF TargetInv, CallFinds
<1>2. KnownArgv' /\ KnownStdin' /\ KnownMem'
  BY DEF TargetInv, KnownArgv, KnownStdin, KnownMem, ArgvToSolve, Start
<1>3. Ended'
  BY DEF TargetInv, Ended
<1> QED BY <1>1, <1>2, <1>3 DEF TargetInv

\* The generator of a new call.
LEMMA CallTarget ==
  ASSUME TargetInv, InputInv, NEW g, Call(g), at' = at, pc # "done",
         ~Offers(g) \/ Planned(g),
         pc = "stdinlen" => input.stdinlen = Absent
  PROVE  TargetInv'
<1>1. /\ calling' = TRUE /\ gen' = g /\ outcome' = "running"
      /\ UNCHANGED <<opts, pc, input, result>>
  BY DEF Call
<1>2. CallFinds'
  <2>1. Start' = Start
    BY <1>1 DEF Start
  <2>2. Planned(g) => Planned(g)'
    BY <1>1, <2>1 DEF Planned, ListGiven, StdinAt
  <2> QED BY <1>1, <2>2 DEF CallFinds, Planned
<1>3. KnownArgv' /\ KnownStdin' /\ KnownMem'
  BY <1>1 DEF TargetInv, KnownArgv, KnownStdin, KnownMem, ArgvToSolve, Start
<1>4. Ended'
  BY <1>1 DEF TargetInv, Ended
<1> QED BY <1>2, <1>3, <1>4 DEF TargetInv

LEMMA NewArgvLen ==
  ASSUME Solvable({opts}), InputInv, ArgvToSolve
  PROVE  opts.init_input.argc = 1
BY DEF Solvable, InputInv, ArgvToSolve

LEMMA NewArgv ==
  ASSUME Solvable({opts}), InputInv, ArgvToSolve, pc = "argv",
         opts.init_input.argvlens # Absent,
         NEW g, g = ArgvGenerator(opts.init_input.argc, opts.init_input.argvlens, MinChr, MaxChr)
  PROVE  ~Offers(g) \/ Planned(g)
<1>1. PICK lens : lens = opts.init_input.argvlens
  OBVIOUS
<1>2. lens \in Seq(Nat) /\ lens # <<>> /\ lens[1] = Len(SecretArg)
  BY <1>1, GivenInput DEF Solvable, InputInv, ArgvToSolve
<1>3. g = ArgvAt(lens, 0) /\ Len(SecretArg) \in Nat
  BY <1>1, NewArgvLen, ArgvStarts, SecretTypes
<1>4. CASE Len(SecretArg) = 0
  <2>1. g.kind = "argv" /\ g.argc = 1 /\ g.pos = 1 /\ 1 \in DOMAIN g.len /\ g.len[1] = 0
    BY <1>2, <1>3, <1>4 DEF ArgvAt
  <2>2. SkipEmpty(g).pos = 2 /\ SkipEmpty(g).argc = 1
    BY <1>3, <2>1 DEF SkipEmpty, ArgvAt
  <2>3. ~ArgvOffers(g)
    BY <2>2 DEF ArgvOffers, ArgvTries
  <2> QED BY <2>1, <2>3 DEF Offers, ByLen, Lengths
<1>5. CASE Len(SecretArg) # 0
  <2>1. 0 \in 0..Len(SecretArg) - 1
    BY <1>3, <1>5
  <2> QED BY <1>1, <1>2, <1>3, <2>1 DEF Planned, ListGiven
<1> QED BY <1>4, <1>5

LEMMA NewStdin ==
  ASSUME TargetInv, InputInv, pc = "stdinchar",
         NEW g, g = StdinCharGenerator(input.stdinlen, MinChr, MaxChr, Start)
  PROVE  ~Offers(g) \/ Planned(g)
<1>1. input.stdinlen \in Nat /\ Len(Start) \in Nat
  BY GivenInput DEF InputInv
<1>2. CASE input.stdinlen <= Len(Start)
  <2>1. g.kind = "stdinchar" /\ g.idx = Len(Start) /\ g.padlen = input.stdinlen
    BY DEF StdinCharGenerator
  <2>2. ~(g.idx < g.padlen)
    BY <1>1, <1>2, <2>1
  <2> QED BY <2>1, <2>2 DEF Offers, StdinCharOffers, ByLen, Lengths
<1>3. CASE /\ input.stdinlen = Len(SecretStdin) /\ Len(Start) < Len(SecretStdin)
           /\ Start = SubSeq(SecretStdin, 1, Len(Start))
  <2>1. g = StdinAt(Len(Start))
    BY <1>1, <1>3, StdinStarts
  <2>2. Len(Start) \in Len(Start)..Len(SecretStdin) - 1
    BY <1>1, <1>3
  <2> QED BY <1>3, <2>1, <2>2 DEF Planned
<1> QED BY <1>2, <1>3 DEF TargetInv, KnownStdin

LEMMA NewRegion ==
  ASSUME Solvable({opts}), InputInv, pc = "region", left # <<>>,
         NEW g, g = MemGenerator(Head(left).size, Head(left).bytes)
  PROVE  ~Offers(g) \/ Planned(g)
<1>1. left \in Seq(Regions) /\ opts.init_input.mem # Absent
  BY DEF InputInv
<1>2. PICK i \in DOMAIN opts.init_input.mem : Head(left) = opts.init_input.mem[i]
  BY <1>1 DEF Regions
<1> DEFINE r == Head(left)
<1>3. /\ r.size \in 0..Len(SecretBytes) /\ Len(r.bytes) \in 0..r.size
      /\ r.bytes = SubSeq(SecretBytes, 1, Len(r.bytes))
  BY <1>1, <1>2 DEF Solvable, InputInv
<1>4. g = MemAt(r.size, Len(r.bytes))
  BY <1>3 DEF MemAt
<1> HIDE DEF r
<1>5. CASE Len(r.bytes) = r.size
  <2>1. g.kind = "mem" /\ finished(g)
    <3>1. g.kind = "mem" /\ g.correct.size = r.size /\ g.correct.bytes = r.bytes
      BY DEF MemGenerator, r
    <3> QED BY <1>5, <3>1 DEF finished
  <2> QED BY <2>1 DEF Offers, ByLen, Lengths
<1>6. CASE Len(r.bytes) # r.size
  <2>1. r.size \in 1..Len(SecretBytes) /\ Len(r.bytes) \in 0..r.size - 1
    BY <1>3, <1>6, SecretTypes
  <2> QED BY <1>4, <2>1 DEF Planned
<1> QED BY <1>5, <1>6

\* A round goes on to the next generator, or finds what the stage is for.
LEMMA RoundFinds ==
  ASSUME NoneAssumption, Compares, InputInv, calling, CallInv, Planned(gen),
         UNCHANGED <<opts, pc>>, outcome = "running", brute!Round
  PROVE  \/ outcome' = "running" /\ Planned(gen)'
         \/ outcome' = "Ok" /\ Found(answer)'
<1>1. DOMAIN solved = DOMAIN Input
  BY DEF InputInv, CallInv
<1>2. CASE pc = "argc"
  BY <1>1, <1>2, ArgcRound DEF Planned, Found
<1>3. CASE pc = "argvlen"
  BY <1>1, <1>3, ArgvLenRound DEF Planned, Found
<1>4. CASE pc = "argv"
  <2> DEFINE given == opts.init_input.argvlens
  <2>0. PICK lens : lens = given
    OBVIOUS
  <2>1. PICK k \in 0..Len(SecretArg) - 1 : gen = ArgvAt(lens, k)
    BY <1>4, <2>0 DEF Planned
  <2>2. IF k + 1 < Len(SecretArg)
          THEN gen' = ArgvAt(lens, k + 1) /\ outcome' = outcome
          ELSE outcome' = "Ok" /\ answer'.argv = <<SecretArg>>
    <3>1. lens \in Seq(Nat) /\ lens # <<>> /\ lens[1] = Len(SecretArg)
      BY <1>4, <2>0 DEF Planned, ListGiven
    <3> QED BY <1>1, <2>1, <3>1, ArgvRound
  <2>3. k + 1 < Len(SecretArg) => k + 1 \in 0..Len(SecretArg) - 1
    BY SecretTypes
  <2>4. given' = lens /\ (ListGiven => ListGiven')
    BY <2>0 DEF ListGiven
  <2> QED BY <1>4, <2>2, <2>3, <2>4 DEF Planned, Found
<1>5. CASE pc = "stdinlen"
  BY <1>1, <1>5, StdinLenRound DEF Planned, Found
<1>6. CASE pc = "stdinchar"
  <2>1. Start = SubSeq(SecretStdin, 1, Len(Start)) /\ Len(Start) \in Nat
    BY <1>6, GivenInput DEF Planned
  <2>2. PICK k \in Len(Start)..Len(SecretStdin) - 1 : gen = StdinAt(k)
    BY <1>6 DEF Planned
  <2>3. IF k + 1 < Len(SecretStdin)
          THEN gen' = StdinAt(k + 1)' /\ outcome' = outcome
          ELSE outcome' = "Ok" /\ answer'.stdin = SecretStdin
    BY <1>1, <2>1, <2>2, StdinRound
  <2>4. k + 1 < Len(SecretStdin) => k + 1 \in Len(Start)..Len(SecretStdin) - 1
    BY <2>1, SecretTypes
  <2>5. Start' = Start
    BY DEF Start
  <2> QED BY <1>6, <2>1, <2>3, <2>4, <2>5 DEF Planned, Found
<1>7. CASE pc = "region"
  <2>1. PICK size \in 1..Len(SecretBytes) : \E k \in 0..size - 1 : gen = MemAt(size, k)
    BY <1>7 DEF Planned
  <2>2. PICK k \in 0..size - 1 : gen = MemAt(size, k)
    BY <2>1
  <2>3. IF k + 1 < size
          THEN gen' = MemAt(size, k + 1) /\ outcome' = outcome
          ELSE outcome' = "Ok" /\ MemDone(answer')
    BY <1>1, <2>2, MemRound
  <2>4. k + 1 < size => k + 1 \in 0..size - 1
    BY SecretTypes
  <2>5. MemDone(answer') => MemDone(answer)'
    BY DEF MemDone
  <2> QED BY <1>7, <2>3, <2>4, <2>5 DEF Planned, Found
<1> QED BY <1>2, <1>3, <1>4, <1>5, <1>6, <1>7, FollowingIs DEF CallInv

LEMMA ChooseTarget ==
  ASSUME NoneAssumption, Compares, StageInv, TargetInv, Choose
  PROVE  TargetInv'
<1>1. /\ calling /\ outcome = "running"
      /\ UNCHANGED <<opts, pc, calling, input, left, result>>
  BY DEF Choose, runVars, brute!Round, NoTime, brute!NoResult
<1>2. at = "back" /\ at' = "idle"
  BY DEF Choose, resume
<1>3. KnownArgv' /\ KnownStdin' /\ KnownMem' /\ Ended'
  BY <1>1, <1>2 DEF TargetInv, KnownArgv, KnownStdin, KnownMem, Ended, ArgvToSolve, Start
<1>4. CASE brute!Round
  <2>1. Offers(gen)
    BY <1>1, <1>4, NoRound DEF StageInv, CallInv, OfStage
  <2>2. Planned(gen)
    BY <1>1, <2>1 DEF TargetInv, CallFinds
  <2>3. \/ outcome' = "running" /\ Planned(gen)'
        \/ outcome' = "Ok" /\ Found(answer)'
    BY <1>1, <1>4, <2>2, RoundFinds DEF StageInv
  <2>4. CallFinds'
    BY <2>3 DEF CallFinds, Planned, Found
  <2> QED BY <1>3, <2>4 DEF TargetInv
<1>5. CASE NoTime \/ brute!NoResult
  <2>1. outcome' = "Err"
    BY <1>5 DEF NoTime, brute!NoResult
  <2> QED BY <1>3, <2>1 DEF TargetInv, CallFinds
<1> QED BY <1>4, <1>5 DEF Choose

\* What an answer leaves as it was.
LEMMA AnswerKeeps ==
  ASSUME StageInv, BruteReturns
  PROVE  /\ pc # "stdinlen" => input'.stdinlen = input.stdinlen
         /\ pc \in {"stdinlen", "stdinchar", "region"} => input'.argv = input.argv
         /\ pc = "region" => input'.stdin = input.stdin
<1>1. PICK h : OfStage(h) /\ input' = combine(input, Guess(h)) /\ pc \in Stages
  BY Answered
<1>2. h.kind = Kind[pc] /\ DOMAIN input = DOMAIN Input
  BY <1>1 DEF OfStage, StageInv, InputInv
<1>3. /\ input'.argv = Or(Guess(h).argv, input.argv)
      /\ input'.stdinlen = Or(Guess(h).stdinlen, input.stdinlen)
      /\ input'.stdin = Or(Guess(h).stdin, input.stdin)
  BY <1>1, <1>2, Combined
<1>4. pc # "stdinlen" => input'.stdinlen = input.stdinlen
  BY <1>1, <1>2, <1>3, FollowingIs, GuessParts DEF Kind, Or
<1>5. pc \in {"stdinlen", "stdinchar", "region"} => input'.argv = input.argv
  BY <1>2, <1>3, GuessParts DEF Kind, Or
<1>6. pc = "region" => input'.stdin = input.stdin
  BY <1>2, <1>3, GuessParts DEF Kind, Or
<1> QED BY <1>4, <1>5, <1>6

LEMMA AnsweredTarget ==
  ASSUME NoneAssumption, Solvable({opts}), StageInv, TargetInv, BruteReturns
  PROVE  TargetInv'
<1>1. /\ calling /\ calling' = FALSE /\ pc' = Following[pc] /\ pc \in Stages
      /\ UNCHANGED <<opts, left, result, at>>
      /\ input' = answer /\ Found(input')
  BY DEF BruteReturns, tuiVars, StageInv, CallInv, TargetInv, CallFinds
<1>2. /\ pc # "stdinlen" => input'.stdinlen = input.stdinlen
      /\ pc \in {"stdinlen", "stdinchar", "region"} => input'.argv = input.argv
      /\ pc = "region" => input'.stdin = input.stdin
  BY AnswerKeeps
<1>3. /\ pc = "argc" => pc' = "argvlen"
      /\ pc = "argvlen" => pc' = "argv"
      /\ pc = "argv" => pc' = "stdinlen"
      /\ pc = "stdinlen" => pc' = "stdinchar"
      /\ pc = "stdinchar" => pc' = "mem"
      /\ pc = "region" => pc' = "region"
  BY <1>1 DEF Following
<1>4. pc \in {"argc", "argvlen", "argv", "stdinlen", "stdinchar", "region"}
  BY <1>1, FollowingIs
<1>5. CallFinds'
  BY <1>1 DEF CallFinds
<1>6. KnownArgv'
  <2>1. ArgvToSolve' = ArgvToSolve /\ KnownArgv
    BY <1>1 DEF ArgvToSolve, TargetInv
  <2>2. CASE pc \in {"argc", "argvlen"}
    BY <1>1, <1>3, <2>1, <2>2 DEF KnownArgv, Found
  <2>3. CASE pc = "argv"
    <3>1. input'.argv = <<SecretArg>> /\ Len(input'.argv) = 1 /\ input'.argv[1] = SecretArg
      BY <1>1, <2>3, NotNone DEF Found
    <3> QED BY <3>1 DEF KnownArgv
  <2>4. CASE pc \in {"stdinlen", "stdinchar", "region"}
    BY <1>1, <1>2, <2>1, <2>4 DEF KnownArgv
  <2> QED BY <1>4, <2>2, <2>3, <2>4
<1>7. KnownStdin'
  <2>1. Start' = Start /\ KnownStdin /\ Len(Start) \in Nat
    BY <1>1, GivenInput DEF Start, TargetInv, StageInv
  <2>2. CASE pc \in {"argc", "argvlen", "argv"}
    BY <1>1, <1>2, <1>3, <2>1, <2>2 DEF KnownStdin
  <2>3. CASE pc = "stdinlen"
    <3>1. input.stdinlen = Absent /\ opts.init_input.stdinlen = Absent
      BY <1>1, <2>1, <2>3 DEF KnownStdin
    <3>2. opts \in Programs /\ opts.solve_stdin
      BY <1>1, <2>3 DEF StageInv, InputInv
    <3>3. Len(Start) < Len(SecretStdin) => Start = SubSeq(SecretStdin, 1, Len(Start))
      BY <3>1, <3>2 DEF Solvable, Or, Start
    <3>4. input'.stdinlen = Len(SecretStdin) /\ Len(SecretStdin) \in Nat
      BY <1>1, <2>3, SecretTypes DEF Found
    <3>5. input'.stdinlen <= Len(Start) \/ Len(Start) < Len(SecretStdin)
      BY <2>1, <3>4
    <3> QED BY <1>1, <1>3, <2>1, <2>3, <3>3, <3>4, <3>5 DEF KnownStdin
  <2>4. CASE pc = "stdinchar"
    BY <1>1, <1>3, <2>4 DEF KnownStdin, Found
  <2>5. CASE pc = "region"
    BY <1>1, <1>2, <1>3, <2>1, <2>5 DEF KnownStdin
  <2> QED BY <1>4, <2>2, <2>3, <2>4, <2>5
<1>8. KnownMem'
  BY <1>1, <1>3, <1>4 DEF KnownMem, Found, MemDone
<1>9. Ended'
  BY <1>1, <1>4 DEF TargetInv, Ended
<1> QED BY <1>5, <1>6, <1>7, <1>8, <1>9 DEF TargetInv

\* run() goes on without a call.
LEMMA GoToTarget ==
  ASSUME Solvable({opts}), StageInv, TargetInv, At(pc), UNCHANGED <<opts, calling, input, result>>,
         \/ pc = "argc" /\ ~opts.solve_argv /\ pc' = "stdinlen" /\ at' = at
         \/ pc = "argvlen" /\ ~ArgvToSolve /\ pc' = "stdinlen" /\ at' = at
         \/ /\ pc = "argv" /\ (ArgvToSolve => opts.init_input.argvlens = Absent)
            /\ pc' = "stdinlen" /\ at' = at
         \/ /\ pc = "stdinlen" /\ opts.solve_stdin /\ input.stdinlen # Absent
            /\ pc' = "stdinchar" /\ at' = at
         \/ pc = "stdinlen" /\ ~opts.solve_stdin /\ pc' = "mem" /\ at' = at
         \/ pc = "mem" /\ pc' = "region" /\ left' = input.mem /\ at' = at
         \/ pc = "mem" /\ opts.init_input.mem = Absent /\ pc' = "done"
         \/ pc = "region" /\ left = <<>> /\ pc' = "done"
  PROVE  TargetInv'
<1>1. ~calling /\ ~calling' /\ result = "none"
  BY DEF At
<1>2. CallFinds'
  BY <1>1 DEF CallFinds
<1>3. ArgvToSolve' = ArgvToSolve /\ Start' = Start
  BY DEF ArgvToSolve, Start
<1>4. KnownArgv'
  BY <1>3 DEF TargetInv, KnownArgv, ArgvToSolve
<1>5. KnownStdin'
  <2>1. CASE pc = "stdinlen" /\ pc' = "stdinchar"
    <3>1. /\ input.stdinlen = opts.init_input.stdinlen /\ input.stdinlen \in Nat
          /\ opts \in Programs /\ opts.solve_stdin /\ Len(Start) \in Nat
      BY <2>1, GivenInput DEF StageInv, InputInv, TargetInv, KnownStdin
    <3>2. Len(Start) < input.stdinlen =>
            input.stdinlen = Len(SecretStdin) /\ Start = SubSeq(SecretStdin, 1, Len(Start))
      BY <2>1, <3>1 DEF Solvable, Or, Start
    <3>3. input.stdinlen <= Len(Start) \/ Len(Start) < input.stdinlen
      BY <3>1
    <3> QED BY <1>1, <1>3, <2>1, <3>2, <3>3 DEF KnownStdin
  <2>2. CASE ~(pc = "stdinlen" /\ pc' = "stdinchar")
    BY <1>1, <1>3, <2>2 DEF TargetInv, KnownStdin
  <2> QED BY <2>1, <2>2
<1>6. KnownMem'
  <2>1. pc = "mem" => input.mem = opts.init_input.mem
    BY DEF StageInv, InputInv
  <2> QED BY <1>1, <2>1 DEF TargetInv, KnownMem, MemDone
<1>7. Ended'
  BY <1>1 DEF TargetInv, Ended
<1> QED BY <1>2, <1>4, <1>5, <1>6, <1>7 DEF TargetInv

LEMMA NextTarget ==
  ASSUME NoneAssumption, Compares, Solvable({opts}), StageInv, TargetInv, [Next]_vars
  PROVE  TargetInv'
<1>1. CASE UNCHANGED vars \/ Returned
  BY <1>1, SameTarget DEF Returned, vars, runVars, bruteVars, tuiVars
<1>2. CASE (UserStep \/ LoopEnds) /\ UNCHANGED <<runVars, bruteVars>>
  <2>1. at' = at \/ at' \notin {"done", "closed"} \/ at = "done"
    BY <1>2 DEF UserStep, LoopEnds, Key, Right, Left, Continue, Quit, SwitchTab, Up, Down, Enter,
       EditKey, Edit, EndEdit, EndOfInput
  <2> QED BY <1>2, <2>1, SameTarget DEF runVars, bruteVars
<1>3. CASE RunStep
  <2> USE DEF At
  <2>1. CASE SolveArgc
    <3>1. /\ pc = "argc" /\ at' = at /\ Call(LenGenerator("argc", 0, ArgcMax))
      BY <2>1 DEF SolveArgc, set_timeout
    <3> QED BY <3>1, CallTarget DEF Planned, StageInv
  <2>2. CASE SolveArgvLen
    <3>1. /\ pc = "argvlen" /\ at' = at /\ ArgvToSolve
          /\ Call(ArgvLenGenerator(opts.init_input.argc, 0, ArgvLenMax))
      BY <2>2 DEF SolveArgvLen, tuiVars
    <3>2. opts.init_input.argc = 1
      BY <3>1, NewArgvLen DEF StageInv
    <3> QED BY <3>1, <3>2, CallTarget DEF Planned, StageInv
  <2>3. CASE SolveArgv
    <3>1. /\ pc = "argv" /\ at' = at /\ ArgvToSolve /\ opts.init_input.argvlens # Absent
          /\ Call(ArgvGenerator(opts.init_input.argc, opts.init_input.argvlens, MinChr, MaxChr))
      BY <2>3 DEF SolveArgv, tuiVars
    <3> QED BY <3>1, NewArgv, CallTarget DEF StageInv
  <2>4. CASE SolveStdinLen /\ input.stdinlen = Absent
    <3>1. /\ pc = "stdinlen" /\ at' = at /\ Call(LenGenerator("stdinlen", 0, StdinLenMax))
      BY <2>4 DEF SolveStdinLen, set_timeout
    <3> QED BY <2>4, <3>1, CallTarget DEF Planned, StageInv
  <2>5. CASE SolveStdin
    <3>1. /\ pc = "stdinchar" /\ at' = at
          /\ Call(StdinCharGenerator(input.stdinlen, MinChr, MaxChr, Start))
      BY <2>5 DEF SolveStdin, tuiVars
    <3> QED BY <3>1, NewStdin, CallTarget DEF StageInv
  <2>6. CASE SolveRegion
    <3>1. /\ pc = "region" /\ at' = at /\ left # <<>>
          /\ Call(MemGenerator(Head(left).size, Head(left).bytes))
      BY <2>6 DEF SolveRegion, tuiVars
    <3> QED BY <3>1, NewRegion, CallTarget DEF StageInv
  <2>7. CASE SkipArgv \/ SkipStdin \/ (SolveStdinLen /\ input.stdinlen # Absent)
    BY <2>7, GoToTarget DEF SkipArgv, SkipStdin, SolveStdinLen, GoTo, set_timeout, tuiVars
  <2>8. CASE SolveMem \/ Done
    BY <2>8, GoToTarget DEF SolveMem, Done, GoTo, set_timeout
  <2>9. CASE DropConflicts \/ CountPanics \/ CollectPanics
    BY <2>9, SameTarget DEF DropConflicts, CountPanics, CollectPanics, brute!Panic, brute!NextPanics, runVars, bruteVars, tuiVars
  <2>10. CASE Count
    <3>1. at' \notin {"done", "closed"}
      BY <2>10 DEF Count, update, Wait
    <3> QED BY <2>10, <3>1, SameTarget DEF Count, bruteVars
  <2>11. CASE RunFails \/ RunReturns
    BY <2>11, SameTarget DEF RunFails, RunReturns, bruteVars, tuiVars
  <2> QED BY <1>2, <1>3, <2>1, <2>2, <2>3, <2>4, <2>5, <2>6, <2>7, <2>8, <2>9, <2>10, <2>11,
             ChooseTarget, AnsweredTarget DEF RunStep
<1> QED BY <1>1, <1>2, <1>3 DEF Next

LEMMA OptsStay ==
  ASSUME [Next]_vars
  PROVE  opts' = opts
BY DEF Next, RunStep, Returned, vars, runVars, SolveArgc, SolveArgvLen, SolveArgv, SkipArgv,
   SolveStdinLen, SolveStdin, SkipStdin, DropConflicts, SolveMem, SolveRegion, Done, Count,
   CountPanics, CollectPanics, Choose, BruteReturns, RunFails, RunReturns, Call, GoTo

\* Whatever the program under test wants and however much more a check costs
\* that passes: if run() returns Ok, B7 has found it, as far as the options let
\* it look.  All other candidates of a round cost the same, one by one, and the
\* right one is the outlier; each round starts from what those before have found.
THEOREM FindsWhatIsWanted ==
  ASSUME NoneAssumption, Compares
  PROVE  Spec => []RunSolves
<1> DEFINE SolvedInv == Solvable({opts}) => TargetInv
<1>1. Init => SolvedInv
  BY InitTarget
<1>2. StageInv /\ SolvedInv /\ [Next]_vars => SolvedInv'
  <2> SUFFICES ASSUME StageInv, SolvedInv, [Next]_vars, Solvable({opts'})
               PROVE  TargetInv'
    BY DEF Solvable
  <2>1. opts' = opts
    BY OptsStay
  <2> QED BY <2>1, NextTarget
<1>3. SolvedInv => RunSolves
  <2> SUFFICES ASSUME TargetInv, result = "Ok", Solvable({opts}) PROVE RunSolves
    BY DEF RunSolves
  <2>1. pc = "done"
    BY DEF TargetInv, Ended
  <2>2. /\ opts.solve_argv => Len(input.argv) = 1
        /\ ArgvToSolve => Len(input.argv[1]) = Len(SecretArg)
        /\ ArgvToSolve /\ opts.init_input.argvlens # Absent => input.argv = <<SecretArg>>
    BY <2>1 DEF TargetInv, KnownArgv
  <2>3. opts.solve_stdin => input.stdin = SecretStdin
    BY <2>1 DEF TargetInv, KnownStdin
  <2>4. opts.init_input.mem \notin {Absent, <<>>} => MemDone(input)
    BY <2>1 DEF TargetInv, KnownMem
  <2> QED BY <2>2, <2>3, <2>4 DEF RunSolves, MemDone
<1> HIDE DEF SolvedInv
<1> QED BY StageInvariant, <1>1, <1>2, <1>3, PTL DEF Spec

=============================================================================
