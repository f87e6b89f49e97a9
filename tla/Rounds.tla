------------------------------- MODULE Rounds -------------------------------
(***************************************************************************)
(* What brute() in src/brute.rs promises, without the pool, the channel    *)
(* and the order in which counts come in: each round is one step.  It      *)
(* tries every input the generator offers, and tells the generator one of  *)
(* those that lie farthest from the average of what was counted.  Brute    *)
(* implements this module, and Pipeline calls it for its stages.           *)
(***************************************************************************)
EXTENDS Integers, Sequences, FiniteSets, Functions, Generators, Statistics

CONSTANTS
  CountsOf(_),   \* what get_inst_count may return on an Input: the instruction
                 \* counts the program may have, and Absent for an error
  Panics         \* may it panic?

VARIABLES
  gen,       \* the generator at the beginning of a round
  solved,    \* what is solved already
  outcome,   \* what brute() has returned: "Ok", "Err", or a panic
  answer     \* the Input it returned

vars == <<gen, solved, outcome, answer>>

\* A call of brute(), with any generator and any input.
Init == outcome = "running" /\ answer = Absent

\* The inputs of a round, each with its GenItem.
Tried(g) ==
  {[item |-> Item(h), inp |-> combine(solved, Guess(h))] : h \in {h \in Calls(g) : Offers(h)}}

\* The generator as next() returns None.
Last(g) == {h \in Calls(g) : Ends(h)}

\* The inputs that may be counted, some of them, and what is counted on each:
\* what the last of its runs gives, however often it is run.
Counts(T) ==
  LET outcomes == {f \in [T -> UNION {CountsOf(t.inp) : t \in T}] :
                     \A t \in T : f[t] \in CountsOf(t.inp)}
      counted(f) == Restrict(f, {t \in T : f[t] # Absent})
  IN {counted(f) : f \in outcomes} \ {<<>>}

\* The inputs whose count lies farthest from the average.
Outliers(f) ==
  LET average == Quotient(SumFunction(f), Cardinality(DOMAIN f))
  IN {t \in DOMAIN f : \A u \in DOMAIN f : Abs(f[u] - average) <= Abs(f[t] - average)}

\* A round, up to the last call of next(), and the next round or the return.
Round ==
  /\ outcome = "running"
  /\ \E t \in Tried(gen), last \in Last(gen) :
       /\ gen' = Updated(Stepped(last), t.item)
       /\ \E f \in Counts(Tried(gen)) : t \in Outliers(f)
       /\ IF More(Stepped(last), t.item)
            THEN UNCHANGED <<outcome, answer>>
            ELSE outcome' = "Ok" /\ answer' = t.inp
  /\ UNCHANGED solved

\* "No valid results found"
NoResult ==
  /\ outcome = "running"
  /\ Last(gen) # {}
  /\ \A t \in Tried(gen) : Absent \in CountsOf(t.inp)
  /\ outcome' = "Err"
  /\ UNCHANGED <<gen, solved, answer>>

\* A job panics.
Panic ==
  /\ outcome = "running"
  /\ Panics
  /\ Tried(gen) # {} /\ Last(gen) # {}
  /\ outcome' = "panicked"
  /\ UNCHANGED <<gen, solved, answer>>

\* next() panics.
NextPanics ==
  /\ outcome = "running"
  /\ \E h \in Calls(gen) : OutOfBounds(h)
  /\ outcome' = "panicked"
  /\ UNCHANGED <<gen, solved, answer>>

Next == Round \/ NoResult \/ Panic \/ NextPanics

Spec == Init /\ [][Next]_vars
=============================================================================
