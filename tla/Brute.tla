-------------------------------- MODULE Brute --------------------------------
(***************************************************************************)
(* src/brute.rs: the rounds of brute().  Each round collects the inputs a  *)
(* generator proposes, has the pool's threads count the instructions the   *)
(* program under test executes on each, takes the counts from a channel in *)
(* the order they were sent, and tells the generator which input stood out.*)
(*                                                                         *)
(* get_inst_count is an oracle here: the counts the program may have on an *)
(* input, an error, or a panic.  ProcessWaiter is about how it comes about.*)
(***************************************************************************)
EXTENDS Integers, Sequences, FiniteSets, Generators, Statistics

CONSTANTS
  Worker,        \* the threads of the pool
  Repeat,        \* `repeat`
  Cases,         \* generators to run, each with what is solved already
  CountsOf(_),   \* what get_inst_count may return on an Input: the instruction
                 \* counts the program may have, and Absent for an error
  Panics         \* may it panic?

ASSUME BruteAssumption ==
  /\ Worker # {}
  /\ Repeat \in Nat \ {0}
  /\ Panics \in BOOLEAN
  /\ \A c \in Cases : Counting(c.gen)

VARIABLES
  phase,     \* where brute() is
  gen,       \* `gen`
  began,     \* history: `gen` as it was when the round began
  solved,    \* `solved`
  more,      \* what gen.update() returned last
  data,      \* inputs of this round: [item, inp]
  next,      \* index of the first of them that no thread has taken
  job,       \* index of the input each thread is at, 0 for none
  runs,      \* what get_inst_count has returned for that input so far:
             \* a count, or Absent for an error
  panicked,  \* has a job of this round panicked?
  chan,      \* tx/rx: [count, job], in the order sent
  received,  \* how many messages the loop over rx has taken
  results,   \* counted inputs of this round: [count, job]
  answer     \* the Input that brute() returns

loopVars == <<phase, gen, began, solved, more, data, received, results, answer>>
poolVars == <<next, job, runs, panicked, chan>>
vars == <<loopVars, poolVars>>

Init ==
  /\ \E c \in Cases : gen = c.gen /\ solved = c.solved
  /\ began = gen
  /\ phase = "collect"
  /\ more = FALSE
  /\ data = <<>>
  /\ next = 1
  /\ job = [w \in Worker |-> 0]
  /\ runs = [w \in Worker |-> <<>>]
  /\ panicked = FALSE
  /\ chan = <<>>
  /\ received = 0
  /\ results = <<>>
  /\ answer = Absent

-----------------------------------------------------------------------------
(* The loop of brute()                                                     *)

\* for inp_pair in gen.by_ref()
Collect ==
  /\ phase = "collect"
  /\ Offers(gen)
  /\ data' = Append(data, [item |-> Item(gen), inp |-> combine(solved, Guess(gen))])
  /\ gen' = Stepped(gen)
  /\ UNCHANGED <<phase, solved, began, more, received, results, answer, poolVars>>

\* next() panics, on the main thread.
NextPanics ==
  /\ phase = "collect"
  /\ OutOfBounds(gen)
  /\ phase' = "panicked"
  /\ UNCHANGED <<gen, solved, began, more, data, received, results, answer, poolVars>>

\* next() returns None; pool.scoped begins with a channel of this round's own.
Scope ==
  /\ phase = "collect"
  /\ Ends(gen)
  /\ gen' = Stepped(gen)
  /\ phase' = "run"
  /\ next' = 1
  /\ chan' = <<>>
  /\ panicked' = FALSE
  /\ UNCHANGED <<solved, began, more, data, received, results, answer, job, runs>>

\* pool.scoped returns once every job is over, and panics if one of them has.
Join ==
  /\ phase = "run"
  /\ next > Len(data)
  /\ \A w \in Worker : job[w] = 0
  /\ phase' = IF panicked THEN "panicked" ELSE "receive"
  /\ UNCHANGED <<gen, solved, began, more, data, received, results, answer, poolVars>>

UntilError ==   \* mutant: `break` for `continue`
  /\ phase = "receive"
  /\ received < Len(data) /\ received < Len(chan)
  /\ LET m == chan[received + 1] IN
     IF m.count = Absent
       THEN received' = Len(data) /\ UNCHANGED results
       ELSE received' = received + 1 /\ results' = Append(results, m)
  /\ UNCHANGED <<phase, gen, solved, began, more, data, answer, poolVars>>

\* The loop over rx, once for each job; an input without a count is skipped.
\* Nothing more can come once the channel is empty: recv() would wait for good.
Receive ==
  /\ phase = "receive"
  /\ received < Len(data) /\ received < Len(chan)
  /\ received' = received + 1
  /\ LET m == chan[received + 1] IN
     results' = IF m.count = Absent THEN results ELSE Append(results, m)
  /\ UNCHANGED <<phase, gen, solved, began, more, data, answer, poolVars>>

AllReceived ==
  /\ phase = "receive"
  /\ received = Len(data)
  /\ phase' = "choose"
  /\ UNCHANGED <<gen, solved, began, more, data, received, results, answer, poolVars>>

NoResults ==
  /\ phase = "choose"
  /\ results = <<>>
  /\ phase' = "Err"
  /\ UNCHANGED <<gen, solved, began, more, data, received, results, answer, poolVars>>

Outlier == data[results[find_outlier([i \in DOMAIN results |-> results[i].count])].job]

\* find_outlier, gen.update, and the next round or break.
Choose ==
  /\ phase = "choose"
  /\ results # <<>>
  /\ gen' = Updated(gen, Outlier.item)
  /\ began' = gen'
  /\ more' = More(gen, Outlier.item)
  /\ IF more'
       THEN phase' = "collect" /\ UNCHANGED answer
       ELSE phase' = "Ok" /\ answer' = Outlier.inp
  /\ data' = <<>>
  /\ received' = 0
  /\ results' = <<>>
  /\ UNCHANGED <<solved, poolVars>>

-----------------------------------------------------------------------------
(* A thread of the pool                                                    *)

TakeOneMore(w) ==   \* mutant: off by one
  /\ phase = "run"
  /\ job[w] = 0
  /\ next <= Len(data) + 1
  /\ job' = [job EXCEPT ![w] = next]
  /\ next' = next + 1
  /\ UNCHANGED <<runs, panicked, chan, loopVars>>

TakeAllButLast(w) ==   \* mutant: off by one
  /\ phase = "run"
  /\ job[w] = 0
  /\ next < Len(data)
  /\ job' = [job EXCEPT ![w] = next]
  /\ next' = next + 1
  /\ UNCHANGED <<runs, panicked, chan, loopVars>>

Take(w) ==
  /\ phase = "run"
  /\ job[w] = 0
  /\ next <= Len(data)
  /\ job' = [job EXCEPT ![w] = next]
  /\ next' = next + 1
  /\ UNCHANGED <<runs, panicked, chan, loopVars>>

\* counter.get_inst_count(&data), `repeat` times.
Count(w) ==
  /\ job[w] # 0
  /\ Len(runs[w]) < Repeat
  /\ \E n \in CountsOf(data[job[w]].inp) :
       runs' = [runs EXCEPT ![w] = Append(@, n)]
  /\ UNCHANGED <<next, job, panicked, chan, loopVars>>

\* It panics: the job is lost, the pool replaces the thread.
CountPanics(w) ==
  /\ Panics
  /\ job[w] # 0
  /\ Len(runs[w]) < Repeat
  /\ panicked' = TRUE
  /\ job' = [job EXCEPT ![w] = 0]
  /\ runs' = [runs EXCEPT ![w] = <<>>]
  /\ UNCHANGED <<next, chan, loopVars>>

SendIfCounted(w) ==   \* mutant: `if let Ok(count)`, nothing is sent for an error
  /\ job[w] # 0
  /\ Len(runs[w]) = Repeat
  /\ chan' = IF runs[w][Repeat] = Absent THEN chan
              ELSE Append(chan, [count |-> runs[w][Repeat], job |-> job[w]])
  /\ job' = [job EXCEPT ![w] = 0]
  /\ runs' = [runs EXCEPT ![w] = <<>>]
  /\ UNCHANGED <<next, panicked, loopVars>>

\* tx.send: inst_count is what the last call returned.
Send(w) ==
  /\ job[w] # 0
  /\ Len(runs[w]) = Repeat
  /\ chan' = Append(chan, [count |-> runs[w][Repeat], job |-> job[w]])
  /\ job' = [job EXCEPT ![w] = 0]
  /\ runs' = [runs EXCEPT ![w] = <<>>]
  /\ UNCHANGED <<next, panicked, loopVars>>

-----------------------------------------------------------------------------
PoolStep(w) == Take(w) \/ Count(w) \/ CountPanics(w) \/ Send(w)

LoopStep ==
  \/ Collect \/ NextPanics \/ Scope \/ Join
  \/ Receive \/ AllReceived \/ NoResults \/ Choose

\* brute() has returned, or has panicked, by itself or along with a job.
Returned == phase \in {"Ok", "Err", "panicked"} /\ UNCHANGED vars

Next == LoopStep \/ (\E w \in Worker : PoolStep(w)) \/ Returned

Spec == Init /\ [][Next]_vars

\* The main thread and the threads of the pool get their turn.
FairSpec ==
  Spec /\ WF_vars(LoopStep) /\ \A w \in Worker : WF_vars(PoolStep(w))

-----------------------------------------------------------------------------
TypeOK ==
  /\ phase \in {"collect", "run", "receive", "choose", "Ok", "Err", "panicked"}
  /\ more \in BOOLEAN
  /\ next \in 1..Len(data) + 1 \/ phase \in {"collect", "Ok", "Err", "panicked"}
  /\ job \in [Worker -> 0..Len(data)]
  /\ \A w \in Worker : Len(runs[w]) <= Repeat
  /\ panicked \in BOOLEAN
  /\ received \in 0..Len(data)
  /\ phase = "Ok" <=> answer # Absent

\* "returns true, next round will return next inputs to try or false if done":
\* after an update() that asks for more the generator has an input to offer.
UpdateContract == phase = "collect" /\ more /\ data = <<>> => Offers(gen)

\* The inputs of a round are all different: there is something to tell apart.
GuessesDistinct ==
  \A i, j \in DOMAIN data : data[i].inp = data[j].inp => i = j

\* When brute() takes the counts, each input of the round has sent exactly one
\* message: rx.recv() neither blocks for good nor leaves a message behind.
EveryJobReports ==
  phase = "receive" =>
    /\ Len(chan) = Len(data)
    /\ \A i \in DOMAIN data : \E k \in DOMAIN chan : chan[k].job = i

\* The chosen input is the farthest from the average of the round, and of
\* equally distant ones the one whose count came first.
OutlierIsFarthest ==
  phase = "choose" /\ results # <<>> =>
    LET counts == [i \in DOMAIN results |-> results[i].count]
        best == find_outlier(counts)
    IN \A i \in DOMAIN counts :
         \/ Distance(counts, i) < Distance(counts, best)
         \/ Distance(counts, i) = Distance(counts, best) /\ best <= i

\* A round in which some input was counted does not end in "No valid results":
\* errors of single runs are skipped, whatever the order they come in.
ErrOnlyIfNothingCounted ==
  phase = "Err" => \A k \in DOMAIN chan : chan[k].count = Absent

\* The documentation of brute(): `repeat` tells how many runs to average for
\* each input.  What a job sends is the average of its runs, if all gave a count.
CountsAreAverages ==
  [][\A w \in Worker :
       Send(w) /\ Absent \notin {runs[w][i] : i \in DOMAIN runs[w]} =>
         chan'[Len(chan')].count = get_average(runs[w])]_vars

\* brute() comes to an end.
BruteReturns == <>(phase \in {"Ok", "Err", "panicked"})

-----------------------------------------------------------------------------
(* Brute implements Rounds.                                                *)

outcomeOf == IF phase \in {"Ok", "Err", "panicked"} THEN phase ELSE "running"

Abstract == INSTANCE Rounds WITH gen <- began, outcome <- outcomeOf

\* Whatever the pool does, a round is one choice: among inputs whose count
\* came through, and of one that is farthest from their average.  An input
\* counts as what the last of its runs has given, a count or an error: the runs
\* before are thrown away.  The order of the counts changes no more than which
\* of equally distant inputs is chosen.
RoundsSpec == Abstract!Spec
=============================================================================
