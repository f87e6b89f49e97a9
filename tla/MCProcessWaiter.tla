--------------------------- MODULE MCProcessWaiter ---------------------------
(***************************************************************************)
(* Instances of ProcessWaiter for TLC: which runs there are, how each is   *)
(* traced, how much it writes to its child, how much the child prints, and *)
(* what may go wrong.                                                      *)
(***************************************************************************)
EXTENDS ProcessWaiter, TLC

CONSTANTS c1, c2, c3, p1, p2, p3

\* Threads of the pool are alike, and so are process ids.
WorkersAndPids == Permutations(Worker) \cup Permutations(Pid)

OneOfEachMode == c1 :> "Always" @@ c2 :> "Drop" @@ c3 :> "Never"
Modes(m, n) == c1 :> m @@ c2 :> n

All(x) == [c \in Child |-> x]
OnlyFirst(x, y) == [c \in Child |-> IF c = c1 THEN x ELSE y]

Runs(mode, faults) ==
  [mode |-> mode, stdin |-> OnlyFirst("empty", "fits"), stdout |-> All("fits"),
   faults |-> faults]

\* Three runs, one of each mode.
FaultyRuns == {Runs(OneOfEachMode, {"timeout", "perf", "kill", "output"})}

\* Two runs with each kind of surroundings; input for those under ptrace.
CleanRuns ==
  {[Runs(Modes(m, n), {}) EXCEPT !.stdin = IF n = "Never" THEN All("empty") ELSE @] :
     m \in {"Always", "Drop"}, n \in {"Drop", "Never"}}
FailingRuns ==
  {Runs(Modes("Always", "Drop"), {"timeout", "perf", "kill"}),
   Runs(Modes("Always", "Never"), {"timeout", "output", "kill"})}
\* The first child prints more than a pipe holds.
TalkingChild ==
  {[Runs(Modes(m, "Never"), {"timeout"}) EXCEPT !.stdout = OnlyFirst("exceeds", "fits")] :
     m \in {"Always", "Drop", "Never"}}

\* The id of a run that has ended, or failed, may come round again.
ReusedIds == {Runs(Modes("Always", "Never"), {"timeout", "kill", "pid_reuse"})}

TwoRuns == CleanRuns \cup FailingRuns \cup TalkingChild \cup ReusedIds

\* More input than a pipe holds, for the first run.
LongInput ==
  {[Runs(Modes("Always", "Drop"), {"timeout"}) EXCEPT !.stdin = OnlyFirst("exceeds", "empty")]}
FailingPerf == {Runs(Modes("Always", "Drop"), {"perf"})}
NoFaults == {Runs(Modes("Always", "Drop"), {})}
=============================================================================
