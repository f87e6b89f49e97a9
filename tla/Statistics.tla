----------------------------- MODULE Statistics -----------------------------
(***************************************************************************)
(* src/statistics.rs: which of the counted inputs of a round stands out.   *)
(* Counts are i64 in the code; the model stays far from their bounds.      *)
(***************************************************************************)
EXTENDS Integers, Sequences, Functions

Abs(n) == IF n < 0 THEN -n ELSE n

\* `/` on integers truncates towards zero.
Quotient(n, d) == IF n < 0 THEN -((-n) \div d) ELSE n \div d

get_average(counts) == Quotient(SumFunction(counts), Len(counts))

SignedDistance(counts, i) == get_average(counts) - counts[i]    \* mutant: no abs()

Distance(counts, i) == Abs(counts[i] - get_average(counts))

\* mutant: later inputs win over equally distant earlier ones
last_outlier(counts) ==
  LET best[n \in 0..Len(counts)] ==
        IF n = 0 THEN [dist |-> -1, idx |-> 1]
        ELSE LET before == best[n - 1] IN
             IF Distance(counts, n) >= before.dist
               THEN [dist |-> Distance(counts, n), idx |-> n] ELSE before
  IN best[Len(counts)].idx

\* The index of the count farthest from the average, the first of equals.
find_outlier(counts) ==
  LET best[n \in 0..Len(counts)] ==   \* max_dist and max_idx after n counts
        IF n = 0 THEN [dist |-> -1, idx |-> 1]
        ELSE LET before == best[n - 1] IN
             IF Distance(counts, n) > before.dist
               THEN [dist |-> Distance(counts, n), idx |-> n] ELSE before
  IN best[Len(counts)].idx
=============================================================================
