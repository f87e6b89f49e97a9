----------------------------- MODULE BruteProofs -----------------------------
(***************************************************************************)
(* Theorems about brute(), for any number of threads, any generators, any  *)
(* repetition and any program under test: what becomes of the jobs, of     *)
(* their counts and of the inputs of a round, and that Brute implements    *)
(* Rounds.                                                                 *)
(***************************************************************************)
EXTENDS Brute, Facts

(* A count is a number.                                                      *)
CountsAssumption == \A inp : CountsOf(inp) \subseteq Int \cup {Absent}

-----------------------------------------------------------------------------
(* The inductive invariant                                                 *)

(* Where an input of the round is: waiting to be taken, with one thread, or
   in the channel, once.  It can only get lost by a panic.                   *)
Jobs ==
  /\ next \in 1..Len(data) + 1
  /\ IsSeq(chan)
  /\ \A w \in Worker : job[w] # 0 => job[w] \in 1..next - 1
  /\ \A v, w \in Worker : job[v] # 0 /\ job[v] = job[w] => v = w
  /\ \A k \in 1..Len(chan) : chan[k].job \in 1..next - 1
  /\ \A k, l \in 1..Len(chan) : chan[k].job = chan[l].job => k = l
  /\ \A k \in 1..Len(chan), w \in Worker : chan[k].job # job[w]
  /\ ~panicked => \A i \in 1..next - 1 :
       (\E w \in Worker : job[w] = i) \/ (\E k \in 1..Len(chan) : chan[k].job = i)

PoolInv ==
  /\ IsSeq(data)
  /\ DOMAIN job = Worker /\ job = [w \in Worker |-> job[w]]
  /\ phase # "run" => \A w \in Worker : job[w] = 0
  /\ phase = "run" => Jobs
  /\ phase \in {"receive", "choose"} => OneForEach(chan, Len(data))
  /\ phase \in {"receive", "choose"} => next \in 1..Len(data) + 1

(* A count is one that the program may have on the input of its job.         *)
CountsInv ==
  /\ DOMAIN runs = Worker
  /\ \A w \in Worker :
       /\ IsSeq(runs[w]) /\ Len(runs[w]) <= Repeat
       /\ job[w] = 0 => runs[w] = <<>>
       /\ \A n \in 1..Len(runs[w]) : runs[w][n] \in CountsOf(data[job[w]].inp)
  /\ phase \in {"run", "receive", "choose"} =>
       \A k \in 1..Len(chan) : chan[k].count \in CountsOf(data[chan[k].job].inp)
  /\ phase = "run" /\ panicked => Panics /\ data # <<>>

(* The results are the counts among the messages taken so far.               *)
ResultsInv ==
  /\ IsSeq(results)
  /\ received \in 0..Len(data)
  /\ phase \in {"collect", "run"} => results = <<>> /\ received = 0
  /\ phase = "choose" => received = Len(data)
  /\ phase \in {"receive", "choose"} =>
       /\ \A i \in 1..Len(results) :
            \E k \in 1..received : results[i] = chan[k] /\ chan[k].count # Absent
       /\ \A i, j \in 1..Len(results) : results[i].job = results[j].job => i = j
       /\ \A k \in 1..received :
            chan[k].count = Absent \/ \E i \in 1..Len(results) : results[i] = chan[k]
  /\ phase = "Err" => IsSeq(chan) /\ \A k \in 1..Len(chan) : chan[k].count = Absent

(* What brute() makes of a call of next(): an input with its GenItem.        *)
Shot(h) == [item |-> Item(h), inp |-> combine(solved, Guess(h))]

Shots == {Shot(h) : h \in {h \in Calls(began) : Offers(h)}}

(* H has the calls of next() so far, the data what they returned.            *)
CallsSoFar(H) ==
  /\ began \in H /\ gen \in H /\ H \subseteq Calls(began)
  /\ \A h \in H : h # gen => /\ Offers(h) /\ Stepped(h) \in H
                             /\ \E i \in 1..Len(data) : data[i] = Shot(h)
  /\ \A i \in 1..Len(data) : \E h \in H : Offers(h) /\ data[i] = Shot(h)

(* All inputs of the round are in data, and gen is what next() left behind.  *)
AllCalled ==
  /\ {data[i] : i \in 1..Len(data)} = Shots
  /\ \E last \in Calls(began) : Ends(last) /\ gen = Stepped(last)

RoundInv ==
  /\ Counting(gen) /\ Counting(began)
  /\ \A i \in 1..Len(data) : data[i].item \in Nat
  /\ \A i, j \in 1..Len(data) : data[i].item = data[j].item => i = j
  /\ phase = "collect" => /\ \A i \in 1..Len(data) : data[i].item < Item(gen)
                          /\ \E H : CallsSoFar(H)
  /\ phase \in {"run", "receive", "choose"} => AllCalled

BruteInv == PoolInv /\ CountsInv /\ ResultsInv /\ RoundInv

-----------------------------------------------------------------------------
(* Jobs                                                                    *)

LEMMA InitPool == Init => PoolInv
BY EmptyIsSeq DEF Init, PoolInv

LEMMA SamePool ==
  ASSUME PoolInv, UNCHANGED <<phase, data, next, job, panicked, chan>>
  PROVE  PoolInv'
<1>1. Jobs => Jobs'
  BY DEF Jobs
<1> QED BY <1>1 DEF PoolInv

\* The steps of the main thread.
LEMMA LoopPool ==
  ASSUME PoolInv, LoopStep
  PROVE  PoolInv'
<1> USE DEF PoolInv, poolVars
<1>1. CASE Collect
  BY <1>1, Appended DEF Collect
<1>2. CASE Scope
  <2>1. UNCHANGED <<data, job>> /\ phase' = "run" /\ next' = 1 /\ chan' = <<>>
    BY <1>2 DEF Scope
  <2>2. \A w \in Worker : job'[w] = 0
    BY <1>2, <2>1 DEF Scope
  <2>3. Jobs'
    BY <2>1, <2>2, EmptyIsSeq, LenData DEF Jobs
  <2> QED BY <2>1, <2>3
<1>3. CASE Join
  <2>1. Jobs /\ next = Len(data) + 1 /\ Len(data) \in Nat /\ \A w \in Worker : job[w] = 0
    BY <1>3, LenData DEF Join, Jobs
  <2>2. UNCHANGED <<data, job, next, chan, panicked>> /\ phase' \in {"receive", "panicked"}
    BY <1>3 DEF Join
  <2>3. ASSUME phase' = "receive"
        PROVE  OneForEach(chan, Len(data))
    <3>1. ~panicked
      BY <1>3, <2>3 DEF Join
    <3>2. next - 1 = Len(data)
      BY <2>1
    <3> QED BY <2>1, <3>1, <3>2 DEF Jobs, OneForEach
  <2> QED BY <2>1, <2>2, <2>3 DEF Jobs
<1>4. CASE Receive \/ AllReceived \/ NoResults
  BY <1>4 DEF Receive, AllReceived, NoResults
<1>5. CASE Choose
  BY <1>5, EmptyIsSeq DEF Choose
<1>6. CASE NextPanics
  BY <1>6 DEF NextPanics
<1> QED BY <1>1, <1>2, <1>3, <1>4, <1>5, <1>6 DEF LoopStep

\* The steps of a thread of the pool.
LEMMA ThreadPool ==
  ASSUME PoolInv, NEW w \in Worker, PoolStep(w)
  PROVE  PoolInv'
<1> USE DEF PoolInv, loopVars
<1>1. Len(data) \in Nat
  BY LenData
<1>2. CASE Take(w)
  <2>1. /\ phase = "run" /\ job[w] = 0 /\ next <= Len(data) /\ Jobs
        /\ next' = next + 1
        /\ job'[w] = next /\ \A v \in Worker : v # w => job'[v] = job[v]
        /\ DOMAIN job' = Worker /\ job' = [v \in Worker |-> job'[v]]
        /\ UNCHANGED <<phase, data, panicked, chan>>
    BY <1>2 DEF Take
  <2>2. next \in Nat /\ next >= 1
    BY <1>1, <2>1 DEF Jobs
  <2>3. \A v \in Worker : job'[v] # 0 => job'[v] \in 1..next' - 1
    BY <2>1, <2>2 DEF Jobs
  <2>4. \A u, v \in Worker : job'[u] # 0 /\ job'[u] = job'[v] => u = v
    BY <2>1, <2>2 DEF Jobs
  <2>5. \A k \in 1..Len(chan') : chan'[k].job \in 1..next' - 1
    BY <2>1, <2>2 DEF Jobs
  <2>6. \A k \in 1..Len(chan'), v \in Worker : chan'[k].job # job'[v]
    BY <2>1, <2>2 DEF Jobs
  <2>7. ASSUME ~panicked', NEW i \in 1..next' - 1
        PROVE  \/ \E v \in Worker : job'[v] = i
               \/ \E k \in 1..Len(chan') : chan'[k].job = i
    <3>1. CASE i = next
      BY <2>1, <3>1
    <3>2. CASE i # next
      BY <2>1, <2>2, <2>7, <3>2 DEF Jobs
    <3> QED BY <3>1, <3>2
  <2>8. Jobs'
    BY <1>1, <2>1, <2>2, <2>3, <2>4, <2>5, <2>6, <2>7 DEF Jobs
  <2> QED BY <2>1, <2>8
<1>3. CASE Count(w)
  BY <1>3, SamePool DEF Count
<1>4. CASE CountPanics(w)
  <2>1. /\ phase = "run" /\ Jobs
        /\ panicked' = TRUE
        /\ job'[w] = 0 /\ \A v \in Worker : v # w => job'[v] = job[v]
        /\ DOMAIN job' = Worker /\ job' = [v \in Worker |-> job'[v]]
        /\ UNCHANGED <<phase, data, next, chan>>
    BY <1>4 DEF CountPanics
  <2>2. \A k \in 1..Len(chan) : chan[k].job # 0
    BY <2>1, <1>1 DEF Jobs
  <2>3. Jobs'
    BY <2>1, <2>2 DEF Jobs
  <2> QED BY <2>1, <2>3
<1>5. CASE Send(w)
  <2>1. PICK m : m.job = job[w] /\ chan' = Append(chan, m)
    BY <1>5 DEF Send
  <2>2. /\ phase = "run" /\ Jobs /\ job[w] # 0 /\ job[w] \in 1..next - 1
        /\ job'[w] = 0 /\ \A v \in Worker : v # w => job'[v] = job[v]
        /\ DOMAIN job' = Worker /\ job' = [v \in Worker |-> job'[v]]
        /\ UNCHANGED <<phase, data, next, panicked>>
    <3>1. /\ job[w] # 0 /\ job' = [job EXCEPT ![w] = 0]
          /\ UNCHANGED <<phase, data, next, panicked>>
      BY <1>5 DEF Send
    <3>2. phase = "run" /\ Jobs /\ job[w] \in 1..next - 1
      BY <3>1 DEF Jobs
    <3> QED BY <3>1, <3>2
  <2>3. /\ Len(chan) \in Nat /\ IsSeq(chan') /\ Len(chan') = Len(chan) + 1
        /\ \A k \in 1..Len(chan) : chan'[k] = chan[k]
        /\ chan'[Len(chan) + 1] = m
    BY <2>1, <2>2, Appended DEF Jobs
  <2>4. next \in Nat
    BY <1>1, <2>2 DEF Jobs
  <2>5. \A k \in 1..Len(chan') : chan'[k].job \in 1..next' - 1
    BY <2>1, <2>2, <2>3 DEF Jobs
  <2>6. ASSUME NEW k \in 1..Len(chan'), NEW l \in 1..Len(chan'), chan'[k].job = chan'[l].job
        PROVE  k = l
    <3>1. k \in 1..Len(chan) \/ k = Len(chan) + 1
      BY <2>3
    <3>2. l \in 1..Len(chan) \/ l = Len(chan) + 1
      BY <2>3
    <3> QED BY <2>1, <2>2, <2>3, <2>6, <3>1, <3>2 DEF Jobs
  <2>7. ASSUME NEW k \in 1..Len(chan'), NEW v \in Worker
        PROVE  chan'[k].job # job'[v]
    <3>1. k \in 1..Len(chan) \/ k = Len(chan) + 1
      BY <2>3
    <3>2. chan'[k].job \in 1..next - 1
      BY <2>2, <2>5
    <3>3. CASE v = w
      BY <2>2, <2>4, <3>2, <3>3
    <3>4. CASE v # w
      BY <2>1, <2>2, <2>3, <3>1, <3>4 DEF Jobs
    <3> QED BY <3>3, <3>4
  <2>8. ASSUME ~panicked', NEW i \in 1..next' - 1
        PROVE  \/ \E v \in Worker : job'[v] = i
               \/ \E k \in 1..Len(chan') : chan'[k].job = i
    <3>1. \/ \E v \in Worker : job[v] = i
          \/ \E k \in 1..Len(chan) : chan[k].job = i
      BY <2>2, <2>8 DEF Jobs
    <3>2. CASE job[w] = i
      <4>1. Len(chan) + 1 \in 1..Len(chan') /\ chan'[Len(chan) + 1].job = i
        BY <2>1, <2>3, <3>2
      <4> QED BY <4>1
    <3>3. ASSUME NEW v \in Worker, v # w, job[v] = i
          PROVE  job'[v] = i
      BY <2>2, <3>3
    <3>4. ASSUME NEW k \in 1..Len(chan), chan[k].job = i
          PROVE  k \in 1..Len(chan') /\ chan'[k].job = i
      BY <2>3, <3>4
    <3> QED BY <3>1, <3>2, <3>3, <3>4
  <2>9. /\ next' \in 1..Len(data') + 1
        /\ \A v \in Worker : job'[v] # 0 => job'[v] \in 1..next' - 1
        /\ \A u, v \in Worker : job'[u] # 0 /\ job'[u] = job'[v] => u = v
    BY <2>2 DEF Jobs
  <2>10. Jobs'
    BY <2>3, <2>5, <2>6, <2>7, <2>8, <2>9 DEF Jobs
  <2> QED BY <2>2, <2>10
<1> QED BY <1>2, <1>3, <1>4, <1>5 DEF PoolStep

-----------------------------------------------------------------------------
(* Counts                                                                  *)

LEMMA InitCounts == Init => CountsInv
<1> USE EmptyIsSeq, BruteAssumption
<1> QED BY DEF Init, CountsInv

LEMMA LoopCounts ==
  ASSUME PoolInv, CountsInv, LoopStep
  PROVE  CountsInv'
<1> USE EmptyIsSeq DEF CountsInv, poolVars
<1>1. CASE Collect \/ NextPanics \/ Choose
  <2>1. \A w \in Worker : job[w] = 0 /\ runs[w] = <<>>
    BY <1>1 DEF Collect, NextPanics, Choose, PoolInv
  <2>2. UNCHANGED <<job, runs>> /\ phase' \notin {"run", "receive", "choose"}
    BY <1>1 DEF Collect, NextPanics, Choose
  <2> QED BY <2>1, <2>2
<1>2. CASE Scope
  BY <1>2 DEF Scope
<1>3. CASE Join \/ Receive \/ AllReceived \/ NoResults
  <2>1. /\ UNCHANGED <<data, job, runs, chan>> /\ phase' # "run"
        /\ phase' \in {"receive", "choose"} => phase \in {"run", "receive", "choose"}
    BY <1>3 DEF Join, Receive, AllReceived, NoResults
  <2> QED BY <2>1
<1> QED BY <1>1, <1>2, <1>3 DEF LoopStep

LEMMA ThreadCounts ==
  ASSUME PoolInv, CountsInv, NEW w \in Worker, PoolStep(w)
  PROVE  CountsInv'
<1> USE DEF loopVars
<1>1. Len(data) \in Nat /\ (job[w] # 0 => phase = "run")
  BY LenData DEF PoolInv
<1>2. CASE Take(w)
  <2>1. /\ job[w] = 0 /\ \A v \in Worker : v # w => job'[v] = job[v]
        /\ UNCHANGED <<phase, data, runs, chan, panicked>>
    BY <1>2 DEF Take, PoolInv
  <2>2. next # 0 /\ job'[w] = next
    BY <1>1, <1>2 DEF Take, PoolInv, Jobs
  <2>3. \A v \in Worker : job'[v] = 0 => runs[v] = <<>>
    BY <2>1, <2>2 DEF CountsInv
  <2>4. runs[w] = <<>> /\ Len(runs[w]) = 0
    BY <2>1, EmptyIsSeq DEF CountsInv
  <2>5. \A v \in Worker : \A n \in 1..Len(runs[v]) : runs[v][n] \in CountsOf(data[job'[v]].inp)
    BY <2>1, <2>4 DEF CountsInv
  <2> QED BY <2>1, <2>3, <2>5 DEF CountsInv
<1>3. CASE Count(w)
  <2>1. PICK n \in CountsOf(data[job[w]].inp) : runs' = [runs EXCEPT ![w] = Append(@, n)]
    BY <1>3 DEF Count
  <2>2. /\ runs'[w] = Append(runs[w], n) /\ \A v \in Worker : v # w => runs'[v] = runs[v]
        /\ DOMAIN runs' = Worker
    BY <2>1 DEF CountsInv
  <2>3. UNCHANGED <<phase, data, job, chan, panicked>> /\ job[w] # 0 /\ Len(runs[w]) < Repeat
    BY <1>3 DEF Count
  <2>4. /\ IsSeq(runs'[w]) /\ Len(runs[w]) \in Nat /\ Len(runs'[w]) = Len(runs[w]) + 1
        /\ \A i \in 1..Len(runs[w]) : runs'[w][i] = runs[w][i]
        /\ runs'[w][Len(runs[w]) + 1] = n
    BY <2>2, Appended DEF CountsInv
  <2>5. Len(runs'[w]) <= Repeat
    BY <2>3, <2>4, BruteAssumption
  <2>6. \A i \in 1..Len(runs'[w]) : runs'[w][i] \in CountsOf(data[job[w]].inp)
    <3>1. \A i \in 1..Len(runs'[w]) : i \in 1..Len(runs[w]) \/ i = Len(runs[w]) + 1
      BY <2>4
    <3> QED BY <2>4, <3>1 DEF CountsInv
  <2> QED BY <2>2, <2>3, <2>4, <2>5, <2>6 DEF CountsInv
<1>4. CASE CountPanics(w)
  <2>1. /\ runs'[w] = <<>> /\ job'[w] = 0
        /\ \A v \in Worker : v # w => runs'[v] = runs[v] /\ job'[v] = job[v]
        /\ DOMAIN runs' = Worker
    BY <1>4 DEF CountPanics, CountsInv, PoolInv
  <2>2. UNCHANGED <<phase, data, chan>> /\ Panics /\ job[w] # 0
    BY <1>4 DEF CountPanics
  <2>3. data # <<>>
    BY <1>1, <2>2, EmptyIsSeq DEF PoolInv, Jobs
  <2> QED BY <2>1, <2>2, <2>3, EmptyIsSeq, BruteAssumption DEF CountsInv
<1>5. CASE Send(w)
  <2>1. /\ runs'[w] = <<>> /\ job'[w] = 0
        /\ \A v \in Worker : v # w => runs'[v] = runs[v] /\ job'[v] = job[v]
        /\ DOMAIN runs' = Worker
    BY <1>5 DEF Send, CountsInv, PoolInv
  <2>2. UNCHANGED <<phase, data, panicked>> /\ job[w] # 0 /\ Len(runs[w]) = Repeat
    BY <1>5 DEF Send
  <2> DEFINE m == [count |-> runs[w][Repeat], job |-> job[w]]
  <2>3. chan' = Append(chan, m)
    BY <1>5 DEF Send
  <2>4. m.count \in CountsOf(data[m.job].inp)
    BY <2>2, BruteAssumption DEF CountsInv
  <2> HIDE DEF m
  <2>5. /\ Len(chan') = Len(chan) + 1 /\ Len(chan) \in Nat /\ chan'[Len(chan) + 1] = m
        /\ \A k \in 1..Len(chan) : chan'[k] = chan[k]
    BY <1>1, <2>2, <2>3, Appended DEF PoolInv, Jobs
  <2>6. ASSUME NEW k \in 1..Len(chan')
        PROVE  chan'[k].count \in CountsOf(data[chan'[k].job].inp)
    <3>1. k \in 1..Len(chan) \/ k = Len(chan) + 1
      BY <2>5
    <3> QED BY <1>1, <2>2, <2>4, <2>5, <3>1 DEF CountsInv
  <2>7. \A v \in Worker : /\ IsSeq(runs'[v]) /\ Len(runs'[v]) <= Repeat
                          /\ job'[v] = 0 => runs'[v] = <<>>
                          /\ \A n \in 1..Len(runs'[v]) : runs'[v][n] \in CountsOf(data[job'[v]].inp)
    BY <2>1, EmptyIsSeq, BruteAssumption DEF CountsInv
  <2> QED BY <2>1, <2>2, <2>6, <2>7 DEF CountsInv
<1> QED BY <1>2, <1>3, <1>4, <1>5 DEF PoolStep

-----------------------------------------------------------------------------
(* Results                                                                 *)

LEMMA InitResults == Init => ResultsInv
BY EmptyIsSeq DEF Init, ResultsInv

LEMMA ThreadResults ==
  ASSUME PoolInv, ResultsInv, NEW w \in Worker, PoolStep(w)
  PROVE  ResultsInv'
<1>1. phase = "run" /\ UNCHANGED loopVars
  BY DEF PoolStep, Take, Count, CountPanics, Send, PoolInv
<1> QED BY <1>1 DEF ResultsInv, loopVars

LEMMA LoopResults ==
  ASSUME PoolInv, ResultsInv, LoopStep
  PROVE  ResultsInv'
<1> USE DEF poolVars
<1>0. Len(data) \in Nat /\ IsSeq(data)
  BY LenData DEF PoolInv
<1>1. CASE Collect
  <2>1. Len(data') = Len(data) + 1
    BY <1>0, <1>1, Appended DEF Collect
  <2> QED BY <1>0, <1>1, <2>1 DEF Collect, ResultsInv
<1>2. CASE Scope
  BY <1>0, <1>2, EmptyIsSeq DEF Scope, ResultsInv
<1>3. CASE Join
  BY <1>0, <1>3, EmptyIsSeq DEF Join, ResultsInv
<1>4. CASE Receive
  <2> DEFINE m == chan[received + 1]
  <2>1. /\ phase = "receive" /\ UNCHANGED <<phase, data, chan>>
        /\ received < Len(data) /\ received' = received + 1
        /\ results' = IF m.count = Absent THEN results ELSE Append(results, m)
    BY <1>4 DEF Receive
  <2>2. received \in Nat /\ Len(results) \in Nat /\ received' \in 0..Len(data)
    BY <1>0, <2>1, LenData DEF ResultsInv
  <2>3. \A k \in 1..received' : k \in 1..received \/ k = received + 1
    BY <2>1, <2>2
  <2>4. 1..received \subseteq 1..received' /\ received + 1 \in 1..received'
    BY <2>1, <2>2
  <2>5. CASE m.count = Absent
    BY <2>1, <2>2, <2>3, <2>4, <2>5 DEF ResultsInv
  <2>6. CASE m.count # Absent
    <3>1. /\ results' = Append(results, m) /\ IsSeq(results')
          /\ Len(results') = Len(results) + 1
          /\ \A i \in 1..Len(results) : results'[i] = results[i]
          /\ results'[Len(results) + 1] = m
      BY <2>1, <2>6, Appended DEF ResultsInv
    <3>2. \A i \in 1..Len(results') : i \in 1..Len(results) \/ i = Len(results) + 1
      BY <2>2, <3>1
    <3>3. 1..Len(results) \subseteq 1..Len(results') /\ Len(results) + 1 \in 1..Len(results')
      BY <2>2, <3>1
    <3>4. ASSUME NEW i \in 1..Len(results')
          PROVE  \E k \in 1..received' : results'[i] = chan[k] /\ chan[k].count # Absent
      <4>1. CASE i \in 1..Len(results)
        BY <2>1, <2>4, <3>1, <4>1 DEF ResultsInv
      <4>2. CASE i = Len(results) + 1
        BY <2>4, <2>6, <3>1, <4>2
      <4> QED BY <3>2, <4>1, <4>2
    <3>5. ASSUME NEW i \in 1..Len(results)
          PROVE  results[i].job # m.job
      <4>1. PICK k \in 1..received : results[i] = chan[k]
        BY <2>1 DEF ResultsInv
      <4>2. OneForEach(chan, Len(data)) /\ Len(chan) = Len(data)
        BY <1>0, <2>1, OneEach DEF PoolInv
      <4>3. k \in 1..Len(chan) /\ received + 1 \in 1..Len(chan) /\ k # received + 1
        BY <1>0, <2>1, <2>2, <4>2
      <4> HIDE DEF m
      <4> QED BY <4>1, <4>2, <4>3 DEF OneForEach, m
    <3>6. \A i, j \in 1..Len(results') : results'[i].job = results'[j].job => i = j
      <4> HIDE DEF m
      <4> QED BY <2>1, <3>1, <3>2, <3>5 DEF ResultsInv
    <3>7. ASSUME NEW k \in 1..received'
          PROVE  chan[k].count = Absent \/ \E i \in 1..Len(results') : results'[i] = chan[k]
      <4>1. CASE k \in 1..received
        BY <2>1, <3>1, <3>3, <4>1 DEF ResultsInv
      <4>2. CASE k = received + 1
        BY <3>1, <3>3, <4>2
      <4> QED BY <2>3, <4>1, <4>2
    <3>8. /\ received' \in 0..Len(data') /\ chan' = chan
          /\ phase' \notin {"collect", "run", "choose", "Err"}
      BY <2>1, <2>2
    <3> HIDE DEF m
    <3> QED BY <3>1, <3>4, <3>6, <3>7, <3>8 DEF ResultsInv
  <2> QED BY <2>5, <2>6
<1>5. CASE AllReceived
  BY <1>5 DEF AllReceived, ResultsInv
<1>6. CASE NoResults
  <2>1. /\ phase = "choose" /\ results = <<>> /\ phase' = "Err"
        /\ UNCHANGED <<data, chan, received, results>>
    BY <1>6 DEF NoResults
  <2>2. IsSeq(chan) /\ Len(chan) = Len(data)
    BY <1>0, <2>1, OneEach DEF PoolInv, OneForEach
  <2>3. \A k \in 1..Len(chan) : chan[k].count = Absent
    BY <1>0, <2>1, <2>2, EmptyIsSeq DEF ResultsInv
  <2> QED BY <2>1, <2>2, <2>3 DEF ResultsInv
<1>7. CASE Choose
  BY <1>7, EmptyIsSeq DEF Choose, ResultsInv
<1>8. CASE NextPanics
  BY <1>8 DEF NextPanics, ResultsInv
<1> QED BY <1>1, <1>2, <1>3, <1>4, <1>5, <1>6, <1>7, <1>8 DEF LoopStep

-----------------------------------------------------------------------------
(* Inputs of a round                                                       *)

LEMMA InitRound == Init => RoundInv
<1> SUFFICES ASSUME Init PROVE RoundInv
  OBVIOUS
<1>1. Counting(gen) /\ began = gen /\ data = <<>> /\ Len(data) = 0 /\ phase = "collect"
  BY BruteAssumption, EmptyIsSeq DEF Init
<1>2. CallsSoFar({gen})
  BY <1>1, CallsClosed DEF CallsSoFar
<1> QED BY <1>1, <1>2 DEF RoundInv

LEMMA SameRound ==
  ASSUME RoundInv, UNCHANGED <<gen, began, solved, data>>,
         phase' = phase \/ phase' \notin {"collect", "run", "receive", "choose"}
           \/ {phase, phase'} \subseteq {"run", "receive", "choose"}
  PROVE  RoundInv'
<1>1. AllCalled => AllCalled'
  BY DEF AllCalled, Shots, Shot
<1>2. ASSUME NEW H, CallsSoFar(H)
      PROVE  CallsSoFar(H)'
  BY <1>2 DEF CallsSoFar, Shot
<1> QED BY <1>1, <1>2 DEF RoundInv

LEMMA CollectRound ==
  ASSUME IsSeq(data), RoundInv, Collect
  PROVE  RoundInv'
<1>1. /\ phase = "collect" /\ Offers(gen)
      /\ data' = Append(data, Shot(gen)) /\ gen' = Stepped(gen)
      /\ UNCHANGED <<phase, solved, began>>
  BY DEF Collect, Shot
<1> DEFINE n == Len(data)
<1>2. /\ n \in Nat /\ Len(data') = n + 1 /\ data'[n + 1] = Shot(gen)
      /\ \A i \in 1..n : data'[i] = data[i]
  BY <1>1, Appended
<1>3. \A i \in 1..Len(data') : i \in 1..n \/ i = n + 1
  BY <1>2
<1>4. 1..n \subseteq 1..Len(data') /\ n + 1 \in 1..Len(data')
  BY <1>2
<1> HIDE DEF n
<1>5. /\ Counting(gen') /\ Item(gen) \in Nat /\ Item(gen)' = Item(gen) + 1
      /\ Counting(began')
  BY <1>1, SteppedCounts DEF RoundInv, Item
<1>6. data'[n + 1].item = Item(gen)
  BY <1>2 DEF Shot
<1>7. /\ \A i \in 1..Len(data') : data'[i].item \in Nat /\ data'[i].item < Item(gen)'
      /\ \A i, j \in 1..Len(data') : data'[i].item = data'[j].item => i = j
  <2>1. \A i \in 1..n : data[i].item \in Nat /\ data[i].item < Item(gen)
    BY <1>1 DEF RoundInv, n
  <2>2. \A i, j \in 1..n : data[i].item = data[j].item => i = j
    BY DEF RoundInv, n
  <2> QED BY <1>2, <1>3, <1>5, <1>6, <2>1, <2>2
<1>8. PICK H : CallsSoFar(H)
  BY <1>1 DEF RoundInv
<1> DEFINE G == H \cup {Stepped(gen)}
<1>9. Stepped(gen) \in Calls(began)
  BY <1>1, <1>8, CallsClosed DEF RoundInv, After, CallsSoFar
<1>10. ASSUME NEW h \in G, h # gen'
       PROVE  Offers(h) /\ Stepped(h) \in G /\ \E i \in 1..Len(data') : data'[i] = Shot(h)
  <2>1. h \in H
    BY <1>1, <1>10
  <2>2. CASE h = gen
    BY <1>1, <1>2, <1>4, <2>2
  <2>3. CASE h # gen
    BY <1>2, <1>4, <1>8, <2>1, <2>3 DEF CallsSoFar, n
  <2> QED BY <2>2, <2>3
<1>11. ASSUME NEW i \in 1..Len(data')
       PROVE  \E h \in G : Offers(h) /\ data'[i] = Shot(h)
  <2>1. CASE i \in 1..n
    BY <1>2, <1>8, <2>1 DEF CallsSoFar, n
  <2>2. CASE i = n + 1
    BY <1>1, <1>2, <1>8, <2>2 DEF CallsSoFar
  <2> QED BY <1>3, <2>1, <2>2
<1>12. \A h : Shot(h)' = Shot(h)
  BY <1>1 DEF Shot
<1>13. began' \in G /\ gen' \in G /\ G \subseteq Calls(began')
  BY <1>1, <1>8, <1>9 DEF CallsSoFar
<1>14. ASSUME NEW K, K = G
       PROVE  CallsSoFar(K)'
  <2> HIDE DEF G
  <2> QED BY <1>10, <1>11, <1>12, <1>13, <1>14 DEF CallsSoFar
<1> QED BY <1>1, <1>5, <1>7, <1>14 DEF RoundInv

LEMMA ScopeRound ==
  ASSUME RoundInv, Scope
  PROVE  RoundInv'
<1>1. /\ phase = "collect" /\ Ends(gen) /\ phase' = "run" /\ gen' = Stepped(gen)
      /\ UNCHANGED <<data, solved, began>>
  BY DEF Scope
<1>2. PICK H : CallsSoFar(H)
  BY <1>1 DEF RoundInv
<1>3. MostOffers(began) \in Nat
  BY SteppedCounts DEF RoundInv
<1>4. H = Calls(began)
  <2>1. After(H) \subseteq H
    BY <1>1, <1>2 DEF CallsSoFar, After, Ends
  <2> QED BY <1>2, <1>3, <2>1, CallsWithin DEF CallsSoFar
<1>5. {data[i] : i \in 1..Len(data)} = Shots
  BY <1>1, <1>2, <1>4 DEF CallsSoFar, Shots, Ends
<1>6. Shots' = Shots
  BY <1>1 DEF Shots, Shot
<1>7. gen \in Calls(began)
  BY <1>2 DEF CallsSoFar
<1>8. AllCalled'
  BY <1>1, <1>5, <1>6, <1>7 DEF AllCalled
<1>9. Counting(gen')
  BY <1>1, SteppedCounts DEF RoundInv
<1> QED BY <1>1, <1>8, <1>9 DEF RoundInv

LEMMA ChooseRound ==
  ASSUME RoundInv, Choose
  PROVE  RoundInv'
<1>1. /\ gen' = Updated(gen, Outlier.item) /\ began' = gen'
      /\ data' = <<>> /\ Len(data') = 0 /\ phase' \in {"collect", "Ok"}
  BY EmptyIsSeq DEF Choose
<1>2. Counting(gen')
  BY <1>1, UpdatedCounts DEF RoundInv
<1>3. gen' \in Calls(began')
  BY <1>1, <1>2, CallsClosed
<1>4. ASSUME NEW K, K = {gen'}
      PROVE  CallsSoFar(K)'
  BY <1>1, <1>3, <1>4 DEF CallsSoFar
<1>5. \E K : CallsSoFar(K)'
  BY <1>4
<1>6. Counting(gen') /\ Counting(began')
  BY <1>1, <1>2
<1>7. 1..Len(data') = {}
  BY <1>1
<1> QED BY <1>1, <1>5, <1>6, <1>7 DEF RoundInv

-----------------------------------------------------------------------------
(* The invariant                                                           *)

LEMMA InitBrute == Init => BruteInv
BY InitPool, InitCounts, InitResults, InitRound DEF BruteInv

LEMMA NextBrute ==
  ASSUME BruteInv, [Next]_vars
  PROVE  BruteInv'
<1> USE DEF BruteInv
<1>1. CASE UNCHANGED vars \/ Returned
  <2>1. UNCHANGED <<loopVars, poolVars>>
    BY <1>1 DEF Returned, vars
  <2>2. PoolInv'
    BY <2>1, SamePool DEF loopVars, poolVars
  <2>3. RoundInv'
    BY <2>1, SameRound DEF loopVars
  <2>4. CountsInv' /\ ResultsInv'
    BY <2>1 DEF CountsInv, ResultsInv, loopVars, poolVars
  <2> QED BY <2>2, <2>3, <2>4
<1>2. CASE LoopStep
  <2>1. PoolInv' /\ CountsInv' /\ ResultsInv'
    BY <1>2, LoopPool, LoopCounts, LoopResults
  <2>2. CASE NextPanics \/ Join \/ Receive \/ AllReceived \/ NoResults
    <3>1. /\ UNCHANGED <<gen, began, solved, data>>
          /\ \/ phase' = phase \/ phase' \notin {"collect", "run", "receive", "choose"}
             \/ {phase, phase'} \subseteq {"run", "receive", "choose"}
      BY <2>2 DEF NextPanics, Join, Receive, AllReceived, NoResults
    <3> QED BY <2>1, <3>1, SameRound
  <2>3. CASE Collect \/ Scope \/ Choose
    BY <2>1, <2>3, CollectRound, ScopeRound, ChooseRound DEF PoolInv
  <2> QED BY <1>2, <2>2, <2>3 DEF LoopStep
<1>3. ASSUME NEW w \in Worker, PoolStep(w)
      PROVE  BruteInv'
  <2>1. PoolInv' /\ CountsInv' /\ ResultsInv'
    BY <1>3, ThreadPool, ThreadCounts, ThreadResults
  <2>2. UNCHANGED loopVars
    BY <1>3 DEF PoolStep, Take, Count, CountPanics, Send
  <2>3. RoundInv'
    BY <2>2, SameRound DEF loopVars
  <2> QED BY <2>1, <2>3
<1> QED BY <1>1, <1>2, <1>3 DEF Next

LEMMA BruteInvariant == Spec => []BruteInv
<1>1. BruteInv /\ [Next]_vars => BruteInv'
  BY NextBrute
<1> QED BY InitBrute, <1>1, PTL DEF Spec

-----------------------------------------------------------------------------
(* Theorems                                                                *)

\* When brute() takes the counts each input of the round has sent its message,
\* and none has sent two, however many threads there are and however long each
\* run takes: rx.recv() does not block for good.
THEOREM NoJobIsLost == Spec => []EveryJobReports
<1>1. BruteInv => EveryJobReports
  <2> SUFFICES ASSUME PoolInv, phase = "receive"
               PROVE  /\ Len(chan) = Len(data)
                      /\ \A i \in DOMAIN data : \E k \in DOMAIN chan : chan[k].job = i
    BY DEF BruteInv, EveryJobReports
  <2>1. OneForEach(chan, Len(data)) /\ IsSeq(data)
    BY DEF PoolInv
  <2>2. Len(data) \in Nat /\ DOMAIN data = 1..Len(data) /\ DOMAIN chan = 1..Len(chan)
    BY <2>1, LenData DEF OneForEach
  <2>3. Len(chan) = Len(data)
    BY <2>1, <2>2, OneEach
  <2> QED BY <2>1, <2>2, <2>3 DEF OneForEach
<1> QED BY BruteInvariant, <1>1, PTL

\* brute() says "No valid results found" only if get_inst_count has failed on
\* every input of the round: no count is lost on the way through the channel,
\* whatever the order in which counts and errors come in.
THEOREM CountsAreUsed == Spec => []ErrOnlyIfNothingCounted
<1>1. BruteInv => ErrOnlyIfNothingCounted
  <2> SUFFICES ASSUME ResultsInv, phase = "Err"
               PROVE  \A k \in DOMAIN chan : chan[k].count = Absent
    BY DEF BruteInv, ErrOnlyIfNothingCounted
  <2> QED BY LenData DEF ResultsInv
<1> QED BY BruteInvariant, <1>1, PTL

\* Results are numbers that find_outlier can work on.
LEMMA ResultCounts ==
  ASSUME CountsAssumption, BruteInv, phase = "choose", results # <<>>
  PROVE  /\ AreCounts([i \in DOMAIN results |-> results[i].count])
         /\ Len([i \in DOMAIN results |-> results[i].count]) = Len(results)
         /\ Len(results) \in Nat /\ DOMAIN results = 1..Len(results)
<1> DEFINE counts == [i \in 1..Len(results) |-> results[i].count]
<1>1. PICK S : results \in Seq(S)
  BY DEF BruteInv, ResultsInv, IsSeq
<1>2. /\ Len(results) \in Nat /\ DOMAIN results = 1..Len(results)
      /\ Len(results) # 0
  BY <1>1
<1>3. ASSUME NEW i \in 1..Len(results)
      PROVE  results[i].count \in Int
  <2>1. Len(chan) = Len(data) /\ Len(data) \in Nat
    BY OneEach, LenData DEF BruteInv, PoolInv
  <2>2. PICK k \in 1..Len(chan) : results[i] = chan[k] /\ chan[k].count # Absent
    BY <2>1 DEF BruteInv, ResultsInv
  <2> QED BY <2>2 DEF BruteInv, CountsInv, CountsAssumption
<1>4. counts \in Seq(Int)
  BY <1>2, <1>3
<1>5. Len(counts) = Len(results)
  BY <1>2, <1>4
<1> QED BY <1>2, <1>3, <1>5 DEF AreCounts

\* Of the counts that came through, brute() chooses one that lies farthest from
\* their average, the first of equals: find_outlier and the order of the
\* channel say which.
THEOREM OutlierStandsOut ==
  ASSUME CountsAssumption
  PROVE  Spec => []OutlierIsFarthest
<1>1. BruteInv => OutlierIsFarthest
  <2> DEFINE counts == [i \in DOMAIN results |-> results[i].count]
  <2> SUFFICES ASSUME BruteInv, phase = "choose", results # <<>>
               PROVE  LET best == find_outlier(counts)
                      IN \A i \in DOMAIN counts :
                           \/ Distance(counts, i) < Distance(counts, best)
                           \/ Distance(counts, i) = Distance(counts, best) /\ best <= i
    BY DEF OutlierIsFarthest
  <2>1. AreCounts(counts) /\ DOMAIN counts = 1..Len(counts)
    BY ResultCounts DEF AreCounts
  <2> HIDE DEF counts
  <2> QED BY <2>1, FindsOutlier
<1> QED BY BruteInvariant, <1>1, PTL

\* The chosen input is one that a job of this round has counted.
LEMMA Chosen ==
  ASSUME CountsAssumption, BruteInv, phase = "choose", results # <<>>
  PROVE  LET best == find_outlier([i \in DOMAIN results |-> results[i].count])
         IN /\ best \in 1..Len(results)
            /\ results[best].job \in 1..Len(data)
            /\ Outlier = data[results[best].job] /\ Outlier \in Shots
<1> DEFINE counts == [i \in DOMAIN results |-> results[i].count]
           best == find_outlier(counts)
<1>1. best \in 1..Len(results)
  <2>1. AreCounts(counts) /\ Len(counts) = Len(results)
    BY ResultCounts
  <2> HIDE DEF counts
  <2> QED BY <2>1, FindsOutlier
<1>2. Outlier = data[results[best].job]
  BY DEF Outlier
<1> HIDE DEF best
<1>3. OneForEach(chan, Len(data)) /\ Len(data) \in Nat /\ Len(chan) = Len(data)
  BY LenData, OneEach DEF BruteInv, PoolInv
<1>4. PICK k \in 1..Len(data) : results[best] = chan[k]
  BY <1>1, <1>3 DEF BruteInv, ResultsInv
<1>5. results[best].job \in 1..Len(data)
  BY <1>3, <1>4 DEF OneForEach
<1>6. data[results[best].job] \in Shots
  BY <1>5 DEF BruteInv, RoundInv, AllCalled
<1> QED BY <1>1, <1>2, <1>5, <1>6 DEF best

LEMMA MoreType ==
  ASSUME NEW g, NEW chosen, Updated(g, chosen).kind \in Kinds
  PROVE  More(g, chosen) \in BOOLEAN
<1> DEFINE h == Updated(g, chosen)
<1> USE DEF Lengths
<1>1. CASE h.kind \in Lengths
  <2>1. More(g, chosen) = FALSE
    BY <1>1 DEF More
  <2> QED BY <2>1
<1>2. CASE h.kind = "stdinchar"
  <2>1. More(g, chosen) = (h.padlen # Absent /\ h.idx < h.padlen)
    BY <1>2 DEF More
  <2> QED BY <2>1
<1>3. CASE h.kind \in {"argvlen", "argv"}
  <2>1. More(g, chosen) = (h.pos <= h.argc)
    BY <1>3 DEF More
  <2>2. (h.pos <= h.argc) \in BOOLEAN
    OBVIOUS
  <2> QED BY <2>1, <2>2
<1>4. CASE h.kind = "mem"
  <2>1. More(g, chosen) = ~finished(h)
    BY <1>4 DEF More
  <2> QED BY <2>1
<1> QED BY <1>1, <1>2, <1>3, <1>4 DEF Kinds, ByLen

AnswerInv ==
  /\ phase = "Ok" <=> answer # Absent
  /\ more \in BOOLEAN
  /\ phase \in {"collect", "run", "receive", "choose", "Ok", "Err", "panicked"}
  /\ panicked \in BOOLEAN

LEMMA ChooseAnswer ==
  ASSUME CountsAssumption, NoneAssumption, BruteInv, AnswerInv, Choose
  PROVE  AnswerInv'
<1>1. /\ phase = "choose" /\ results # <<>> /\ UNCHANGED panicked
      /\ more' = More(gen, Outlier.item)
      /\ IF more' THEN phase' = "collect" /\ answer' = answer
                  ELSE phase' = "Ok" /\ answer' = Outlier.inp
  BY DEF Choose, poolVars
<1>2. \E h : Outlier.inp = combine(solved, Guess(h))
  <2>1. Outlier \in Shots
    BY <1>1, Chosen
  <2> HIDE DEF Outlier
  <2> QED BY <2>1 DEF Shots, Shot
<1>3. ASSUME NEW s, NEW t
      PROVE  combine(s, t) = [x \in DOMAIN combine(s, t) |-> combine(s, t)[x]]
  BY DEF combine
<1>4. Outlier.inp # Absent
  <2> HIDE DEF Outlier
  <2> QED BY <1>2, <1>3 DEF NoneAssumption
<1>5. More(gen, Outlier.item) \in BOOLEAN
  <2>1. Updated(gen, Outlier.item).kind \in Kinds
    BY UpdatedCounts DEF BruteInv, RoundInv, Counting
  <2> QED BY <2>1, MoreType
<1> HIDE DEF Outlier
<1> QED BY <1>1, <1>4, <1>5 DEF AnswerInv

LEMMA NextAnswer ==
  ASSUME CountsAssumption, NoneAssumption, BruteInv, AnswerInv, [Next]_vars
  PROVE  AnswerInv'
<1> USE DEF AnswerInv, loopVars, poolVars
<1>1. CASE UNCHANGED vars \/ Returned
  BY <1>1 DEF Returned, vars
<1>2. CASE LoopStep
  <2>1. CASE Collect \/ NextPanics
    BY <2>1 DEF Collect, NextPanics
  <2>2. CASE Scope
    BY <2>2 DEF Scope
  <2>3. CASE Join
    BY <2>3 DEF Join
  <2>4. CASE Receive \/ AllReceived \/ NoResults
    BY <2>4 DEF Receive, AllReceived, NoResults
  <2>5. CASE Choose
    BY <2>5, ChooseAnswer
  <2> QED BY <1>2, <2>1, <2>2, <2>3, <2>4, <2>5 DEF LoopStep
<1>3. ASSUME NEW w \in Worker, PoolStep(w)
      PROVE  AnswerInv'
  BY <1>3 DEF PoolStep, Take, Count, CountPanics, Send
<1> QED BY <1>1, <1>2, <1>3 DEF Next

\* The types of brute()'s state.  That its answer is an Input if and only if it
\* has returned Ok needs the other invariants: an index of find_outlier leads
\* through the results and the channel to one of the inputs.
THEOREM BruteTypes ==
  ASSUME CountsAssumption, NoneAssumption
  PROVE  Spec => []TypeOK
<1>1. Init => AnswerInv
  BY DEF Init, AnswerInv
<1>2. BruteInv /\ AnswerInv /\ [Next]_vars => AnswerInv'
  BY NextAnswer
<1>3. BruteInv /\ AnswerInv => TypeOK
  <2> SUFFICES ASSUME BruteInv, AnswerInv PROVE TypeOK
    OBVIOUS
  <2>1. Len(data) \in Nat
    BY LenData DEF BruteInv, PoolInv
  <2>2. next \in 1..Len(data) + 1 \/ phase \in {"collect", "Ok", "Err", "panicked"}
    BY DEF BruteInv, PoolInv, AnswerInv, Jobs
  <2>3. job \in [Worker -> 0..Len(data)]
    <3>1. ASSUME NEW w \in Worker, job[w] # 0 PROVE job[w] \in 0..Len(data)
      <4>1. job[w] \in 1..next - 1 /\ next \in 1..Len(data) + 1
        BY <3>1 DEF BruteInv, PoolInv, Jobs
      <4> QED BY <2>1, <4>1
    <3>2. job = [w \in Worker |-> job[w]] /\ 0 \in 0..Len(data)
      BY <2>1 DEF BruteInv, PoolInv
    <3>3. \A w \in Worker : job[w] \in 0..Len(data)
      BY <3>1, <3>2
    <3> QED BY <3>2, <3>3
  <2>4. (\A w \in Worker : Len(runs[w]) <= Repeat) /\ received \in 0..Len(data)
    BY DEF BruteInv, CountsInv, ResultsInv
  <2> QED BY <2>2, <2>3, <2>4 DEF AnswerInv, TypeOK
<1> QED BY BruteInvariant, <1>1, <1>2, <1>3, PTL DEF Spec

-----------------------------------------------------------------------------
(* The generators' part in it                                              *)

(* The generators can keep what update() promises.                           *)
CasesFit == \A c \in Cases : Fits(c.gen)

\* "returns true, next round will return next inputs to try": if update() says
\* so next() has one, round after round, for generators with a character to try
\* and a length for each argument, no two of them zero in a row or at the end.
THEOREM UpdateKeepsItsWord ==
  ASSUME CasesFit
  PROVE  Spec => []UpdateContract
<1> DEFINE Kept == Fits(gen) /\ UpdateContract
<1>1. Init => Kept
  BY DEF Init, CasesFit, UpdateContract
<1>2. BruteInv /\ Kept /\ [Next]_vars => Kept'
  <2> SUFFICES ASSUME BruteInv, Kept, [Next]_vars PROVE Kept'
    OBVIOUS
  <2>0. Counting(gen)
    BY DEF BruteInv, RoundInv
  <2>1. CASE Collect
    <3>1. phase' = "collect" /\ gen' = Stepped(gen) /\ data' # <<>>
      <4>1. IsSeq(data)
        BY DEF BruteInv, PoolInv
      <4>2. Len(data') = Len(data) + 1 /\ Len(data) \in Nat
        BY <2>1, <4>1, Appended DEF Collect
      <4>3. Len(data') # 0
        BY <4>2
      <4> QED BY <2>1, <4>3, EmptyIsSeq DEF Collect
    <3> QED BY <2>0, <3>1, SteppedFits DEF UpdateContract
  <2>2. CASE Scope
    BY <2>0, <2>2, SteppedFits DEF Scope, UpdateContract
  <2>3. CASE Choose
    <3>1. /\ gen' = Updated(gen, Outlier.item) /\ more' = More(gen, Outlier.item)
      BY <2>3 DEF Choose
    <3> HIDE DEF Outlier
    <3>2. Fits(gen') /\ (more' => Offers(gen'))
      BY <2>0, <3>1, UpdatedFits, MoreMeansOffers
    <3>3. UpdateContract'
      <4>1. more' => Offers(gen)'
        BY <3>2 DEF Offers, StdinCharOffers, ArgvOffers, ArgvTries, HasLengths, SkipEmpty,
                    finished
      <4> QED BY <4>1 DEF UpdateContract
    <3> QED BY <3>2, <3>3 DEF Fits
  <2>4. CASE NextPanics \/ Join \/ Receive \/ AllReceived \/ NoResults
    <3>1. UNCHANGED gen /\ phase' # "collect"
      BY <2>4 DEF NextPanics, Join, Receive, AllReceived, NoResults
    <3> QED BY <3>1 DEF UpdateContract
  <2>5. ASSUME \/ UNCHANGED vars \/ Returned
               \/ \E w \in Worker : PoolStep(w)
        PROVE  Kept'
    <3>1. UNCHANGED <<phase, gen, more, data>>
      BY <2>5 DEF PoolStep, Take, Count, CountPanics, Send, Returned, vars, loopVars
    <3> QED BY <3>1 DEF UpdateContract
  <2> QED BY <2>1, <2>2, <2>3, <2>4, <2>5 DEF Next, LoopStep
<1>3. Kept => UpdateContract
  OBVIOUS
<1> QED BY BruteInvariant, <1>1, <1>2, <1>3, PTL DEF Spec

(* The guesses of a round differ in one place, what is solved is an Input.   *)
CasesTell == \A c \in Cases : TellsApart(c.gen) /\ DOMAIN c.solved = DOMAIN Input

\* A round is going on.
Going == phase \in {"collect", "run", "receive", "choose"}

TellInv ==
  /\ DOMAIN solved = DOMAIN Input
  /\ Going => TellsApart(began)

\* As long as a round goes on its inputs are shots.
LEMMA ShotsDiffer ==
  ASSUME NoneAssumption, BruteInv, TellInv, Going
  PROVE  GuessesDistinct
<1>0. DOMAIN solved = DOMAIN Input /\ TellsApart(began)
  BY DEF TellInv
<1>1. DOMAIN data = 1..Len(data) /\ Counting(began)
  BY LenData DEF BruteInv, PoolInv, RoundInv
<1>2. \A i \in 1..Len(data) : \E h \in Calls(began) : Offers(h) /\ data[i] = Shot(h)
  <2>1. CASE phase = "collect"
    BY <2>1 DEF BruteInv, RoundInv, CallsSoFar
  <2>2. CASE phase # "collect"
    BY <2>2 DEF BruteInv, RoundInv, AllCalled, Shots, Going
  <2> QED BY <2>1, <2>2
<1>3. ASSUME NEW i \in 1..Len(data), NEW j \in 1..Len(data), data[i].inp = data[j].inp
      PROVE  i = j
  <2>1. PICK h \in Calls(began) : Offers(h) /\ data[i] = Shot(h)
    BY <1>2
  <2>2. PICK k \in Calls(began) : Offers(k) /\ data[j] = Shot(k)
    BY <1>2
  <2>3. combine(solved, Guess(h)) = combine(solved, Guess(k))
    BY <1>3, <2>1, <2>2 DEF Shot
  <2>4. Item(h) = Item(k)
    BY <1>0, <1>1, <2>1, <2>2, <2>3, ItemsTell
  <2>5. data[i].item = data[j].item
    BY <2>1, <2>2, <2>4 DEF Shot
  <2> QED BY <2>5 DEF BruteInv, RoundInv
<1> QED BY <1>1, <1>3 DEF GuessesDistinct

LEMMA NextTell ==
  ASSUME NoneAssumption, CountsAssumption, BruteInv, TellInv, [Next]_vars
  PROVE  TellInv'
<1>1. UNCHANGED solved
  BY DEF Next, LoopStep, Collect, NextPanics, Scope, Join, Receive, AllReceived, NoResults,
         Choose, PoolStep, Take, Count, CountPanics, Send, Returned, vars, loopVars
<1>2. ASSUME Going'
      PROVE  TellsApart(began')
  <2>1. CASE Choose
    <3>1. /\ phase = "choose" /\ results # <<>> /\ began' = Updated(gen, Outlier.item)
          /\ More(gen, Outlier.item)
      BY <1>2, <2>1 DEF Choose, Going
    <3>2. PICK last \in Calls(began) : Ends(last) /\ gen = Stepped(last)
      BY <3>1 DEF BruteInv, RoundInv, AllCalled
    <3>3. Outlier \in Shots
      BY <3>1, Chosen
    <3> HIDE DEF Outlier
    <3>4. PICK h \in Calls(began) : Offers(h) /\ Outlier = Shot(h)
      BY <3>3 DEF Shots
    <3>5. Counting(began) /\ TellsApart(began)
      BY <3>1 DEF BruteInv, RoundInv, TellInv, Going
    <3>6. Outlier.item \in Nat
      <4>1. Item(h) \in Nat
        BY <3>5, CallsClosed, SteppedCounts
      <4> QED BY <3>4, <4>1 DEF Shot
    <3> QED BY <3>1, <3>2, <3>4, <3>5, <3>6, UpdatedTells DEF Ends
  <2>2. CASE ~Choose
    <3>1. UNCHANGED began /\ Going
      BY <1>2, <2>2
         DEF Going, Next, LoopStep, Collect, NextPanics, Scope, Join, Receive, AllReceived,
             NoResults, PoolStep, Take, Count, CountPanics, Send, Returned, vars, loopVars
    <3> QED BY <3>1 DEF TellInv
  <2> QED BY <2>1, <2>2
<1>3. DOMAIN solved' = DOMAIN Input
  BY <1>1 DEF TellInv
<1> QED BY <1>2, <1>3 DEF TellInv, TellsApart, Input

\* No two inputs of a round are the same, so that their counts say something
\* about the number that was tried, for generators that put it somewhere:
\* ArgvGenerator does so for one argument with characters.
THEOREM InputsDiffer ==
  ASSUME NoneAssumption, CountsAssumption, CasesTell
  PROVE  Spec => []GuessesDistinct
<1>1. Init => TellInv /\ Going
  BY DEF Init, TellInv, CasesTell, Going
<1>2. BruteInv /\ TellInv /\ [Next]_vars => TellInv'
  BY NextTell
<1>3. BruteInv /\ TellInv => (Going => GuessesDistinct)
  BY ShotsDiffer
<1>4. GuessesDistinct /\ [Next]_vars => GuessesDistinct' \/ Going'
  <2> SUFFICES ASSUME GuessesDistinct, [Next]_vars, ~Going' PROVE GuessesDistinct'
    OBVIOUS
  <2>1. UNCHANGED data \/ data' = <<>>
    BY DEF Going, Next, LoopStep, Collect, NextPanics, Scope, Join, Receive, AllReceived,
           NoResults, Choose, PoolStep, Take, Count, CountPanics, Send, Returned, vars, loopVars
  <2> QED BY <2>1 DEF GuessesDistinct
<1> QED BY BruteInvariant, <1>1, <1>2, <1>3, <1>4, PTL DEF Spec
-----------------------------------------------------------------------------
(* Brute implements Rounds.  The operators of Generators and Statistics, as *)
(* the instance sees them, are those that Brute has.                       *)

LEMMA SameOffers == \A g : Abstract!Offers(g) = Offers(g)
BY DEF Abstract!Offers, Offers, Abstract!StdinCharOffers, StdinCharOffers,
       Abstract!ArgvOffers, ArgvOffers, Abstract!ArgvTries, ArgvTries,
       Abstract!HasLengths, HasLengths, Abstract!SkipEmpty, SkipEmpty,
       Abstract!finished, finished, Abstract!ByLen, ByLen, Abstract!Lengths, Lengths

LEMMA SameOutOfBounds == \A g : Abstract!OutOfBounds(g) = OutOfBounds(g)
BY DEF Abstract!OutOfBounds, OutOfBounds, Abstract!ArgvOutOfBounds, ArgvOutOfBounds,
       Abstract!ArgvTries, ArgvTries, Abstract!HasLengths, HasLengths,
       Abstract!SkipEmpty, SkipEmpty

LEMMA SameEnds == \A g : Abstract!Ends(g) = Ends(g)
BY SameOffers, SameOutOfBounds DEF Abstract!Ends, Ends

LEMMA SameStepped == \A g : Abstract!Stepped(g) = Stepped(g)
BY SameOffers DEF Abstract!Stepped, Stepped, Abstract!SkipEmpty, SkipEmpty,
                  Abstract!ByLen, ByLen, Abstract!Lengths, Lengths

LEMMA SameGuess == \A g : Abstract!Guess(g) = Guess(g)
BY DEF Abstract!Guess, Guess, Abstract!StdinLenGuess, StdinLenGuess,
       Abstract!ArgcGuess, ArgcGuess, Abstract!StdinCharGuess, StdinCharGuess,
       Abstract!ArgvLenGuess, ArgvLenGuess, Abstract!ArgvGuess, ArgvGuess,
       Abstract!MemGuess, MemGuess, Abstract!SkipEmpty, SkipEmpty,
       Abstract!Input, Input, Abstract!Pads, Pads, Abstract!PadTo, PadTo

LEMMA SameUpdated == \A g, i : Abstract!Updated(g, i) = Updated(g, i)
BY DEF Abstract!Updated, Updated, Abstract!StdinCharUpdated, StdinCharUpdated,
       Abstract!ArgvLenUpdated, ArgvLenUpdated, Abstract!ArgvUpdated, ArgvUpdated,
       Abstract!MemUpdated, MemUpdated, Abstract!Lengths, Lengths

LEMMA SameMore == \A g, i : Abstract!More(g, i) = More(g, i)
BY SameUpdated DEF Abstract!More, More, Abstract!finished, finished, Abstract!Lengths, Lengths

LEMMA SameCalls == \A g : Abstract!Calls(g) = Calls(g)
<1> TAKE g
<1>1. Abstract!MostOffers(g) = MostOffers(g)
  BY DEF Abstract!MostOffers, MostOffers, Abstract!ByLen, ByLen, Abstract!Lengths, Lengths
<1>2. \A G : {Abstract!Stepped(h) : h \in {h \in G : Abstract!Offers(h)}} =
               {Stepped(h) : h \in {h \in G : Offers(h)}}
  BY SameOffers, SameStepped
<1> QED BY <1>1, <1>2 DEF Abstract!Calls, Calls

LEMMA LastCall == \A h \in Calls(began) : Ends(h) => h \in Abstract!Last(began)
BY SameCalls, SameEnds DEF Abstract!Last

LEMMA TriedShots == Abstract!Tried(began) = Shots
<1>1. \A g : Abstract!Item(g) = Item(g)
  BY DEF Abstract!Item, Item, Abstract!ByLen, ByLen, Abstract!Lengths, Lengths
<1>2. \A s, t : Abstract!combine(s, t) = combine(s, t)
  BY DEF Abstract!combine, combine, Abstract!Or, Or
<1> QED BY <1>1, <1>2, SameCalls, SameOffers, SameGuess DEF Abstract!Tried, Shots, Shot

LEMMA SameSum == \A f : Abstract!SumFunction(f) = SumFunction(f)
BY DEF Abstract!SumFunction, SumFunction, Abstract!SumFunctionOnSet, SumFunctionOnSet,
       Abstract!FoldFunctionOnSet, FoldFunctionOnSet,
       Abstract!MapThenFoldSet, MapThenFoldSet

LEMMA SameNumbers == \A n, d : Abstract!Quotient(n, d) = Quotient(n, d) /\ Abstract!Abs(n) = Abs(n)
BY DEF Abstract!Quotient, Quotient, Abstract!Abs, Abs

\* The message about an input, and what each input has been counted with.
Message(t) == CHOOSE k \in 1..Len(chan) : data[chan[k].job] = t
CountOf == [t \in Shots |-> chan[Message(t)].count]
Counted == [t \in {t \in Shots : CountOf[t] # Absent} |-> CountOf[t]]

LEMMA MessageIs ==
  ASSUME BruteInv, phase = "choose"
  PROVE  /\ \A t \in Shots : /\ Message(t) \in 1..Len(chan)
                             /\ data[chan[Message(t)].job] = t
         /\ \A k \in 1..Len(chan) : /\ data[chan[k].job] \in Shots
                                    /\ Message(data[chan[k].job]) = k
<1>1. OneForEach(chan, Len(data)) /\ {data[i] : i \in 1..Len(data)} = Shots
  BY DEF BruteInv, PoolInv, RoundInv, AllCalled
<1>2. \A i, j \in 1..Len(data) : data[i] = data[j] => i = j
  BY DEF BruteInv, RoundInv
<1>3. \A t \in Shots : Message(t) \in 1..Len(chan) /\ data[chan[Message(t)].job] = t
  <2> TAKE t \in Shots
  <2>1. \E k \in 1..Len(chan) : data[chan[k].job] = t
    BY <1>1 DEF OneForEach
  <2> QED BY <2>1 DEF Message
<1>4. ASSUME NEW k \in 1..Len(chan)
      PROVE  data[chan[k].job] \in Shots /\ Message(data[chan[k].job]) = k
  <2>1. data[chan[k].job] \in Shots
    BY <1>1 DEF OneForEach
  <2> DEFINE m == Message(data[chan[k].job])
  <2>2. m \in 1..Len(chan) /\ data[chan[m].job] = data[chan[k].job]
    BY <1>3, <2>1
  <2> HIDE DEF m
  <2>3. chan[m].job \in 1..Len(data) /\ chan[k].job \in 1..Len(data)
    BY <1>1, <2>2 DEF OneForEach
  <2>4. chan[m].job = chan[k].job
    BY <1>2, <2>2, <2>3
  <2>5. m = k
    BY <1>1, <2>2, <2>4 DEF OneForEach
  <2> QED BY <2>1, <2>5 DEF m
<1> QED BY <1>3, <1>4

\* What is counted is one of the outcomes that Rounds has for the round.
LEMMA CountedIsPossible ==
  ASSUME BruteInv, phase = "choose", results # <<>>
  PROVE  Counted \in Abstract!Counts(Shots)
<1>1. \A t \in Shots : CountOf[t] \in CountsOf(t.inp)
  <2> TAKE t \in Shots
  <2>1. Message(t) \in 1..Len(chan) /\ data[chan[Message(t)].job] = t
    BY MessageIs
  <2>2. chan[Message(t)].count \in CountsOf(t.inp)
    BY <2>1 DEF BruteInv, CountsInv
  <2> QED BY <2>2 DEF CountOf
<1>2. CountOf \in [Shots -> UNION {CountsOf(t.inp) : t \in Shots}]
  <2>1. CountOf = [t \in Shots |-> CountOf[t]]
    BY DEF CountOf
  <2> QED BY <1>1, <2>1
<1>3. Counted = Abstract!Restrict(CountOf, {t \in Shots : CountOf[t] # Absent})
  BY DEF Counted, Abstract!Restrict
<1>4. Counted # <<>>
  <2>1. Len(results) \in Nat /\ Len(results) # 0
    <3>1. PICK S : results \in Seq(S)
      BY DEF BruteInv, ResultsInv, IsSeq
    <3> QED BY <3>1
  <2>2. Len(chan) = Len(data) /\ Len(data) \in Nat
    BY LenData, OneEach DEF BruteInv, PoolInv
  <2>3. PICK k \in 1..Len(chan) : chan[k].count # Absent
    BY <2>1, <2>2 DEF BruteInv, ResultsInv
  <2>4. data[chan[k].job] \in Shots /\ Message(data[chan[k].job]) = k
    BY <2>3, MessageIs
  <2>5. data[chan[k].job] \in DOMAIN Counted
    BY <2>3, <2>4 DEF Counted, CountOf
  <2> QED BY <2>5
<1> QED BY <1>1, <1>2, <1>3, <1>4 DEF Abstract!Counts

\* The results list what is counted, each input once.
LEMMA ResultsAreCounted ==
  ASSUME BruteInv, phase = "choose", results # <<>>
  PROVE  LET shot == [i \in 1..Len(results) |-> data[results[i].job]]
         IN /\ DOMAIN Counted = {shot[i] : i \in 1..Len(results)}
            /\ \A i, j \in 1..Len(results) : shot[i] = shot[j] => i = j
            /\ \A i \in 1..Len(results) : Counted[shot[i]] = results[i].count
<1> DEFINE shot == [i \in 1..Len(results) |-> data[results[i].job]]
<1>1. /\ OneForEach(chan, Len(data)) /\ Len(chan) = Len(data) /\ Len(data) \in Nat
      /\ received = Len(data)
  BY LenData, OneEach DEF BruteInv, PoolInv, ResultsInv
<1>2. ASSUME NEW i \in 1..Len(results)
      PROVE  /\ results[i].job \in 1..Len(data)
             /\ shot[i] \in DOMAIN Counted
             /\ Counted[shot[i]] = results[i].count
  <2>1. PICK k \in 1..Len(chan) : results[i] = chan[k] /\ chan[k].count # Absent
    BY <1>1 DEF BruteInv, ResultsInv
  <2>2. /\ data[chan[k].job] \in Shots /\ Message(data[chan[k].job]) = k
        /\ chan[k].job \in 1..Len(data)
    BY <1>1, MessageIs DEF OneForEach
  <2>3. shot[i] = data[chan[k].job]
    BY <2>1
  <2> HIDE DEF shot
  <2> QED BY <2>1, <2>2, <2>3 DEF Counted, CountOf
<1>3. ASSUME NEW i \in 1..Len(results), NEW j \in 1..Len(results), shot[i] = shot[j]
      PROVE  i = j
  <2>1. results[i].job = results[j].job
    BY <1>2, <1>3 DEF BruteInv, RoundInv
  <2> QED BY <2>1 DEF BruteInv, ResultsInv
<1>4. ASSUME NEW t \in DOMAIN Counted
      PROVE  \E i \in 1..Len(results) : t = shot[i]
  <2>1. t \in Shots /\ chan[Message(t)].count # Absent
    BY DEF Counted, CountOf
  <2>2. Message(t) \in 1..Len(chan) /\ data[chan[Message(t)].job] = t
    BY <2>1, MessageIs
  <2>3. PICK i \in 1..Len(results) : results[i] = chan[Message(t)]
    BY <1>1, <2>1, <2>2 DEF BruteInv, ResultsInv
  <2> QED BY <2>2, <2>3
<1>5. DOMAIN Counted = {shot[i] : i \in 1..Len(results)}
  BY <1>2, <1>4
<1> QED BY <1>2, <1>3, <1>5

\* What find_outlier chooses lies farthest from the average, whatever the order.
LEMMA ChosenIsOutlier ==
  ASSUME CountsAssumption, BruteInv, phase = "choose", results # <<>>
  PROVE  Outlier \in Abstract!Outliers(Counted)
<1> DEFINE N == Len(results)
           shot == [i \in 1..N |-> data[results[i].job]]
           counts == [i \in DOMAIN results |-> results[i].count]
           best == find_outlier(counts)
<1>1. /\ AreCounts(counts) /\ Len(counts) = N /\ N \in Nat
      /\ counts = [i \in 1..N |-> results[i].count]
  BY ResultCounts
<1>2. /\ DOMAIN Counted = {shot[i] : i \in 1..N}
      /\ \A i, j \in 1..N : shot[i] = shot[j] => i = j
      /\ \A i \in 1..N : Counted[shot[i]] = counts[i]
  <2>1. \A i \in 1..N : counts[i] = results[i].count
    BY <1>1
  <2> QED BY <2>1, ResultsAreCounted
<1>3. best \in 1..N /\ Outlier = shot[best]
  BY Chosen
<1>4. \A i \in 1..N : /\ Distance(counts, i) <= Distance(counts, best)
                      /\ Distance(counts, i) \in Nat
  <2> HIDE DEF counts
  <2>1. \A i \in 1..N : Distance(counts, i) \in Nat
    BY <1>1, DistanceType
  <2>2. \A i \in 1..N : \/ Distance(counts, i) < Distance(counts, best)
                        \/ Distance(counts, i) = Distance(counts, best)
    BY <1>1, FindsOutlier
  <2> QED BY <1>3, <2>1, <2>2
<1> HIDE DEF shot, counts, best, N
<1>5. IsFiniteSet(1..N) /\ Cardinality(1..N) = N
  BY <1>1, FS_Interval
<1>6. DOMAIN counts = 1..N /\ \A i \in 1..N : counts[i] \in Int
  BY <1>1 DEF AreCounts
<1>7. SumFunction(Counted) = SumFunction(counts)
  <2>1. SumFunctionOnSet(Counted, DOMAIN Counted) = SumFunctionOnSet(counts, 1..N)
    <3> DEFINE I == 1..N
               R == DOMAIN Counted
    <3>1. /\ IsFiniteSet(I) /\ \A i \in I : counts[i] \in Int
          /\ \A i, j \in I : shot[i] = shot[j] => i = j
          /\ \A i \in I : Counted[shot[i]] = counts[i]
          /\ R = {shot[i] : i \in I}
      BY <1>2, <1>5, <1>6
    <3> HIDE DEF I, R
    <3>2. SumFunctionOnSet(Counted, R) = SumFunctionOnSet(counts, I)
      BY <3>1, SumRenamed
    <3> QED BY <3>2 DEF I, R
  <2> QED BY <1>2, <1>6, <2>1 DEF SumFunction
<1>8. Cardinality(DOMAIN Counted) = Len(counts)
  BY <1>1, <1>2, <1>5, SizeRenamed
<1> DEFINE average == Abstract!Quotient(Abstract!SumFunction(Counted), Cardinality(DOMAIN Counted))
<1>9. average = get_average(counts)
  <2>1. average = Quotient(SumFunction(Counted), Cardinality(DOMAIN Counted))
    BY SameSum, SameNumbers
  <2> HIDE DEF average
  <2> QED BY <1>7, <1>8, <2>1 DEF get_average
<1>10. \A i \in 1..N : Abstract!Abs(Counted[shot[i]] - average) = Distance(counts, i)
  <2> HIDE DEF average
  <2> QED BY <1>2, <1>9, SameNumbers DEF Distance
<1>11. \A u \in DOMAIN Counted :
         Abstract!Abs(Counted[u] - average) <= Abstract!Abs(Counted[Outlier] - average)
  <2> HIDE DEF average
  <2> QED BY <1>2, <1>3, <1>4, <1>10
<1>12. Outlier \in DOMAIN Counted
  BY <1>2, <1>3
<1>13. Abstract!Cardinality(DOMAIN Counted) = Cardinality(DOMAIN Counted)
  BY DEF Abstract!Cardinality, Cardinality
<1>14. Abstract!Outliers(Counted) =
         {t \in DOMAIN Counted : \A u \in DOMAIN Counted :
            Abstract!Abs(Counted[u] - average) <= Abstract!Abs(Counted[t] - average)}
  BY <1>13 DEF Abstract!Outliers
<1> HIDE DEF average
<1> QED BY <1>11, <1>12, <1>14

\* Choose is a round.
LEMMA ChooseImplements ==
  ASSUME CountsAssumption, BruteInv, Choose
  PROVE  Abstract!Round
<1>1. phase = "choose" /\ results # <<>> /\ UNCHANGED solved
  BY DEF Choose
<1>2. PICK last \in Calls(began) : Ends(last) /\ gen = Stepped(last)
  BY <1>1 DEF BruteInv, RoundInv, AllCalled
<1>3. Outlier \in Abstract!Tried(began)
  BY <1>1, Chosen, TriedShots
<1>4. Counted \in Abstract!Counts(Abstract!Tried(began)) /\ Outlier \in Abstract!Outliers(Counted)
  BY <1>1, CountedIsPossible, ChosenIsOutlier, TriedShots
<1>5. last \in Abstract!Last(began)
  BY <1>2, LastCall
<1>6. began' = Abstract!Updated(Abstract!Stepped(last), Outlier.item)
  BY <1>2, SameUpdated, SameStepped DEF Choose
<1>7. /\ outcomeOf = "running"
      /\ IF Abstract!More(Abstract!Stepped(last), Outlier.item)
           THEN UNCHANGED <<outcomeOf, answer>>
           ELSE outcomeOf' = "Ok" /\ answer' = Outlier.inp
  <2>1. more' = Abstract!More(Abstract!Stepped(last), Outlier.item)
    BY <1>2, SameMore, SameStepped DEF Choose
  <2>2. /\ more' => phase' = "collect" /\ UNCHANGED answer
        /\ ~more' => phase' = "Ok" /\ answer' = Outlier.inp
    BY DEF Choose
  <2> HIDE DEF Outlier
  <2> QED BY <1>1, <2>1, <2>2 DEF outcomeOf
<1> HIDE DEF Outlier, Counted
<1> QED BY <1>1, <1>3, <1>4, <1>5, <1>6, <1>7 DEF Abstract!Round

LEMMA NextImplementsRounds ==
  ASSUME CountsAssumption, BruteInv, [Next]_vars
  PROVE  [Abstract!Next]_(Abstract!vars)
<1> USE DEF Abstract!vars, outcomeOf
<1>1. CASE UNCHANGED vars \/ Returned
  BY <1>1 DEF Returned, vars, loopVars
<1>2. CASE LoopStep
  <2>1. CASE Collect \/ Scope \/ Receive \/ AllReceived
    BY <2>1 DEF Collect, Scope, Receive, AllReceived
  <2>2. CASE Join
    <3>1. /\ phase = "run" /\ UNCHANGED <<began, solved, answer>>
          /\ phase' = IF panicked THEN "panicked" ELSE "receive"
      BY <2>2 DEF Join
    <3>2. CASE panicked
      <4>1. Panics /\ data # <<>>
        BY <3>1, <3>2 DEF BruteInv, CountsInv
      <4>2. Abstract!Tried(began) # {}
        <5>1. PICK S : data \in Seq(S)
          BY DEF BruteInv, PoolInv, IsSeq
        <5>2. 1 \in 1..Len(data)
          BY <4>1, <5>1
        <5>3. data[1] \in Shots
          BY <3>1, <5>2 DEF BruteInv, RoundInv, AllCalled
        <5> QED BY <5>3, TriedShots
      <4>3. Abstract!Last(began) # {}
        BY <3>1, LastCall DEF BruteInv, RoundInv, AllCalled
      <4> QED BY <3>1, <3>2, <4>1, <4>2, <4>3 DEF Abstract!Next, Abstract!Panic
    <3>3. CASE ~panicked
      BY <3>1, <3>3
    <3> QED BY <3>2, <3>3
  <2>3. CASE NoResults
    <3>1. /\ phase = "choose" /\ results = <<>> /\ phase' = "Err"
          /\ UNCHANGED <<began, solved, answer>>
      BY <2>3 DEF NoResults
    <3>2. ASSUME NEW t \in Shots
          PROVE  Absent \in CountsOf(t.inp)
      <4>1. Message(t) \in 1..Len(chan) /\ data[chan[Message(t)].job] = t
        BY <3>1, MessageIs
      <4>2. /\ Len(chan) = Len(data) /\ Len(data) \in Nat
        BY <3>1, LenData, OneEach DEF BruteInv, PoolInv
      <4>3. chan[Message(t)].count = Absent
        BY <3>1, <4>1, <4>2, EmptyIsSeq DEF BruteInv, ResultsInv
      <4> QED BY <3>1, <4>1, <4>3 DEF BruteInv, CountsInv
    <3>3. \A t \in Abstract!Tried(began) : Absent \in CountsOf(t.inp)
      BY <3>2, TriedShots
    <3>4. Abstract!Last(began) # {}
      BY <3>1, LastCall DEF BruteInv, RoundInv, AllCalled
    <3> QED BY <3>1, <3>3, <3>4 DEF Abstract!Next, Abstract!NoResult
  <2>4. CASE Choose
    BY <2>4, ChooseImplements DEF Abstract!Next
  <2>5. CASE NextPanics
    <3>1. /\ phase = "collect" /\ OutOfBounds(gen) /\ phase' = "panicked"
          /\ UNCHANGED <<began, solved, answer>>
      BY <2>5 DEF NextPanics
    <3>2. gen \in Abstract!Calls(began)
      BY <3>1, SameCalls DEF BruteInv, RoundInv, CallsSoFar
    <3>3. Abstract!OutOfBounds(gen)
      BY <3>1, SameOutOfBounds
    <3> QED BY <3>1, <3>2, <3>3 DEF Abstract!Next, Abstract!NextPanics
  <2> QED BY <1>2, <2>1, <2>2, <2>3, <2>4, <2>5 DEF LoopStep
<1>3. ASSUME NEW w \in Worker, PoolStep(w)
      PROVE  UNCHANGED <<began, solved, phase, answer>>
  BY <1>3 DEF PoolStep, Take, Count, CountPanics, Send, loopVars
<1> QED BY <1>1, <1>2, <1>3 DEF Next

\* brute() with its pool, channel and threads is what Rounds says: in each round
\* it chooses an input that lies farthest from the average of what came through.
THEOREM BruteImplementsRounds ==
  ASSUME CountsAssumption
  PROVE  Spec => RoundsSpec
<1>1. Init => Abstract!Init
  BY DEF Init, Abstract!Init, outcomeOf
<1>2. BruteInv /\ [Next]_vars => [Abstract!Next]_(Abstract!vars)
  BY NextImplementsRounds
<1> QED BY BruteInvariant, <1>1, <1>2, PTL DEF Spec, RoundsSpec, Abstract!Spec

=============================================================================
