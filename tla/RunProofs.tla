------------------------------ MODULE RunProofs ------------------------------
(***************************************************************************)
(* Theorems about single runs: what a run that returned has seen, and what *)
(* it has left behind.                                                     *)
(***************************************************************************)
EXTENDS ProcessWaiterProofs

Failed(c) == result[c] \in {"Err", "panic"}

(* A child belongs to one run, and a run returns once.                      *)
OneRunEach ==
  /\ \A c \in Child : kst[c] = "unborn" => result[c] = "none"
  /\ \A w \in Worker : pc[w] # "idle" => result[cur[w]] = "none" /\ kst[cur[w]] # "unborn"
  /\ \A v, w \in Worker : pc[v] # "idle" /\ pc[w] # "idle" /\ cur[v] = cur[w] => v = w

RunInv == TypeInv /\ OneRunEach

LEMMA InitRun == Init => RunInv
<1> SUFFICES ASSUME Init PROVE OneRunEach
  BY InitTypeInv DEF RunInv
<1> QED BY DEF Init, OneRunEach

\* A step of one worker within its run, or of another actor.
LEMMA SameRuns ==
  ASSUME RunInv, result' = result, cur' = cur,
         \A w \in Worker : pc'[w] # "idle" => pc[w] # "idle",
         \A c \in Child : kst[c] # "unborn" <=> kst'[c] # "unborn"
  PROVE  OneRunEach'
BY DEF RunInv, TypeInv, Shape, OneRunEach

\* The step of a worker that returns from its run.
LEMMA RunOver ==
  ASSUME RunInv, NEW w \in Worker, pc[w] # "idle", NEW r, EndRun(w, r),
         \A c \in Child : kst[c] # "unborn" <=> kst'[c] # "unborn"
  PROVE  /\ OneRunEach'
         /\ \A c \in Child : result'[c] = IF c = cur[w] THEN r ELSE result[c]
         /\ \A v \in Worker : v # w => pc'[v] = pc[v] /\ cur'[v] = cur[v]
         /\ pc'[w] = "idle"
<1> USE DEF RunInv, TypeInv, TypeOK, EndRun
<1>1. cur[w] \in Child
  BY DEF Shape
<1>2. \A c \in Child : result'[c] = IF c = cur[w] THEN r ELSE result[c]
  BY <1>1
<1>3. \A v \in Worker : v # w => pc'[v] = pc[v] /\ cur'[v] = cur[v]
  OBVIOUS
<1>4. pc'[w] = "idle"
  OBVIOUS
<1>5. OneRunEach'
  BY <1>1, <1>2, <1>3, <1>4 DEF OneRunEach, Shape
<1> QED BY <1>2, <1>3, <1>4, <1>5

LEMMA ChildOneRun ==
  ASSUME RunInv, NEW c \in Child, ChildStep(c)
  PROVE  OneRunEach'
<1> USE DEF RunInv, TypeInv, TypeOK
<1>1. PICK state \in {"stopped", "exited", "killed"}, s \in Status :
        kst[c] # "unborn" /\ Change(c, state, s)
  BY DEF ChildStep, ExecTrap, SignalStop, Exit, Kill, Status, Alive
<1>2. \A d \in Child : kst[d] # "unborn" <=> kst'[d] # "unborn"
  BY <1>1 DEF Change
<1> QED BY <1>1, <1>2, SameRuns DEF Change, workerVars

LEMMA PanicStates ==
  ASSUME TypeInv, NEW w \in Worker, Panic(w)
  PROVE  \A c \in Child : kst[c] # "unborn" <=> kst'[c] # "unborn"
BY DEF Panic, TypeInv, TypeOK

LEMMA NextOneRun == RunInv /\ [Next]_vars => RunInv'
<1> SUFFICES ASSUME RunInv, [Next]_vars PROVE OneRunEach'
  BY NextTypeInv DEF RunInv
<1> USE DEF kernelVars, waiterVars, workerVars
<1>1. CASE UNCHANGED vars
  BY <1>1, SameRuns DEF vars
<1>2. CASE Finished
  BY <1>1, <1>2 DEF Finished
<1>3. ASSUME NEW c \in Child, ChildStep(c)
      PROVE  OneRunEach'
  BY <1>3, ChildOneRun
<1>4. CASE WaiterStep
  BY <1>4, SameRuns DEF WaiterStep, SigWait, Lock, Reap, Drained
<1>5. ASSUME NEW w \in Worker, WorkerStep(w)
      PROVE  OneRunEach'
  <2> USE <1>5 DEF RunInv, TypeInv, TypeOK
  <2>1. CASE StartWaiter(w)
    BY <2>1, SameRuns DEF StartWaiter
  <2>2. ASSUME NEW c \in Child, NEW p \in Pid, Start(w, c, p)
        PROVE  OneRunEach'
    <3>1. kst[c] = "unborn" /\ pc[w] = "idle" /\ result' = result
      BY <2>2 DEF Start
    <3>2. \A d \in Child : d # c => kst'[d] = kst[d]
      BY <2>2 DEF Start
    <3>3. kst'[c] # "unborn"
      BY <2>2 DEF Start
    <3>4. \A v \in Worker : v # w => pc'[v] = pc[v] /\ cur'[v] = cur[v]
      BY <2>2 DEF Start
    <3>5. cur'[w] = c /\ pc'[w] # "idle"
      BY <2>2 DEF Start
    <3>6. \A d \in Child : kst'[d] = "unborn" => result'[d] = "none"
      BY <3>1, <3>2, <3>3 DEF OneRunEach
    <3>7. \A v \in Worker : v # w /\ pc[v] # "idle" => cur[v] \in Child /\ cur[v] # c
      BY <3>1 DEF OneRunEach, Shape
    <3>8. ASSUME NEW v \in Worker, pc'[v] # "idle"
          PROVE  result'[cur'[v]] = "none" /\ kst'[cur'[v]] # "unborn"
      <4>1. CASE v = w
        BY <3>1, <3>3, <3>5, <4>1 DEF OneRunEach
      <4>2. CASE v # w
        BY <3>1, <3>2, <3>4, <3>7, <3>8, <4>2 DEF OneRunEach
      <4> QED BY <4>1, <4>2
    <3>9. ASSUME NEW u \in Worker, NEW v \in Worker,
                 pc'[u] # "idle", pc'[v] # "idle", cur'[u] = cur'[v]
          PROVE  u = v
      <4>1. CASE u = w /\ v # w
        BY <3>4, <3>5, <3>7, <3>9, <4>1
      <4>2. CASE u # w /\ v = w
        BY <3>4, <3>5, <3>7, <3>9, <4>2
      <4>3. CASE u # w /\ v # w
        BY <3>4, <3>9, <4>3 DEF OneRunEach
      <4> QED BY <4>1, <4>2, <4>3
    <3>10. \A v \in Worker : pc'[v] # "idle" =>
             result'[cur'[v]] = "none" /\ kst'[cur'[v]] # "unborn"
      BY <3>8
    <3>11. \A u, v \in Worker : pc'[u] # "idle" /\ pc'[v] # "idle" /\ cur'[u] = cur'[v]
             => u = v
      BY <3>9
    <3> QED BY <3>6, <3>10, <3>11, Zenon DEF OneRunEach
  <2>3. CASE WriteInput(w) \/ TakeReceiver(w) \/ OpenPerf(w) \/ Receive(w)
    BY <2>3, SameRuns DEF WriteInput, TakeReceiver, OpenPerf, Receive
  <2>4. CASE HandlePtraceStop(w) \/ IgnoreStatus(w) \/ Unlink(w)
    BY <2>4, SameRuns DEF HandlePtraceStop, IgnoreStatus, Unlink
  <2>5. CASE Continue(w) \/ Detach(w)
    <3>1. cur[w] \in Child
      BY <2>5 DEF Continue, Detach, Shape
    <3>2. /\ \A d \in Child : kst[d] # "unborn" <=> kst'[d] # "unborn"
          /\ \A v \in Worker : pc'[v] # "idle" => pc[v] # "idle"
          /\ result' = result /\ cur' = cur
      BY <2>5, <3>1 DEF Continue, Detach
    <3> QED BY <3>2, SameRuns
  <2>6. CASE OpenPerfFails(w) \/ HandleStopFails(w)
    BY <2>6, RunOver DEF OpenPerfFails, HandleStopFails, Fail
  <2>7. CASE ReadCount(w) \/ ReadOutput(w)
    BY <2>7, RunOver DEF ReadCount, ReadOutput
  <2>8. CASE BrokenPipe(w) \/ TakeReceiverPanics(w) \/ ReceivePanics(w)
             \/ ContinuePanics(w) \/ UnlinkPanics(w)
    <3>1. pc[w] # "idle" /\ Panic(w)
      BY <2>8 DEF BrokenPipe, TakeReceiverPanics, ReceivePanics, ContinuePanics, UnlinkPanics
    <3> QED BY <3>1, RunOver, PanicStates DEF Panic
  <2> QED
    BY <2>1, <2>2, <2>3, <2>4, <2>5, <2>6, <2>7, <2>8 DEF WorkerStep
<1> QED BY <1>1, <1>2, <1>3, <1>4, <1>5 DEF Next

-----------------------------------------------------------------------------
(* DeathFollowsFailure.  A channel loses its receiver only when a run gives
   up, and what a run returned does not change.                              *)
Blame ==
  (\E c \in Child : rx[c] = "dropped") \/ waiter = "dead" \/ poisoned =>
    \E c \in Child : Failed(c)

BlameInv == RunInv /\ Blame

LEMMA InitBlame == Init => BlameInv
<1> SUFFICES ASSUME Init PROVE Blame
  BY InitRun DEF BlameInv
<1> QED BY DEF Init, Blame

\* A step after which there is no more to blame anybody for.
LEMMA NoMoreBlame ==
  ASSUME BlameInv, result' = result,
         \A c \in Child : rx'[c] = "dropped" => rx[c] = "dropped",
         waiter' = "dead" => waiter = "dead" \/ poisoned
                            \/ \E c \in Child : rx[c] = "dropped",
         poisoned' => poisoned \/ waiter' = "dead"
  PROVE  Blame'
BY DEF BlameInv, Blame, Failed

\* A run that gives up takes the blame.
LEMMA TakesBlame ==
  ASSUME BlameInv, NEW w \in Worker, pc[w] # "idle", NEW r \in {"Err", "panic"},
         EndRun(w, r)
  PROVE  Blame'
BY DEF BlameInv, RunInv, TypeInv, TypeOK, Shape, EndRun, Blame, Failed

LEMMA NextBlame == BlameInv /\ [Next]_vars => BlameInv'
<1> SUFFICES ASSUME BlameInv, [Next]_vars PROVE Blame'
  BY NextOneRun DEF BlameInv
<1> USE DEF kernelVars, waiterVars, workerVars
<1>1. CASE UNCHANGED vars
  BY <1>1, NoMoreBlame DEF vars
<1>2. CASE Finished
  BY <1>1, <1>2 DEF Finished
<1>3. ASSUME NEW c \in Child, ChildStep(c)
      PROVE  Blame'
  BY <1>3, NoMoreBlame DEF ChildStep, ExecTrap, SignalStop, Exit, Kill, Change
<1>4. CASE WaiterStep
  <2>1. CASE SigWait \/ Lock \/ Drained
    BY <2>1, NoMoreBlame DEF SigWait, Lock, Drained
  <2>2. ASSUME NEW c \in Child, Reap(c)
        PROVE  Blame'
    <3> DEFINE ch == ChannelFor(c)
    <3>1. ch \in Child
      BY <2>2 DEF Reap, ChannelFor, BlameInv, RunInv, TypeInv, TypeOK, Shape
    <3>2. CASE rx[ch] = "dropped"
      BY <2>2, <3>1, <3>2, NoMoreBlame DEF Reap
    <3>3. CASE rx[ch] # "dropped"
      <4>1. \A d \in Child : rx'[d] = "dropped" => rx[d] = "dropped"
        BY <2>2, <3>1, <3>3 DEF Reap, BlameInv, RunInv, TypeInv, TypeOK
      <4> QED BY <2>2, <3>3, <4>1, NoMoreBlame DEF Reap
    <3> QED BY <3>2, <3>3
  <2> QED BY <1>4, <2>1, <2>2 DEF WaiterStep
<1>5. ASSUME NEW w \in Worker, WorkerStep(w)
      PROVE  Blame'
  <2>1. CASE StartWaiter(w) \/ \E c \in Child, p \in Pid : Start(w, c, p)
    BY <2>1, NoMoreBlame DEF StartWaiter, Start
  <2>2. CASE WriteInput(w) \/ OpenPerf(w) \/ Receive(w) \/ HandlePtraceStop(w)
             \/ Continue(w) \/ Detach(w) \/ IgnoreStatus(w)
    BY <2>2, NoMoreBlame
       DEF WriteInput, OpenPerf, Receive, HandlePtraceStop, Continue, Detach, IgnoreStatus
  <2>3. CASE TakeReceiver(w)
    <3>1. \A d \in Child : rx'[d] = "dropped" => rx[d] = "dropped"
      BY <2>3 DEF TakeReceiver, BlameInv, RunInv, TypeInv, TypeOK
    <3> QED BY <2>3, <3>1, NoMoreBlame DEF TakeReceiver
  <2>4. CASE Unlink(w)
    <3>1. \A d \in Child : rx'[d] = "dropped" => rx[d] = "dropped"
      BY <2>4 DEF Unlink, BlameInv, RunInv, TypeInv, TypeOK
    <3> QED BY <2>4, <3>1, NoMoreBlame DEF Unlink
  <2>5. CASE ReadCount(w) \/ ReadOutput(w)
    <3>1. PICK r : pc[w] # "idle" /\ EndRun(w, r)
      BY <2>5 DEF ReadCount, ReadOutput
    <3>2. \A c \in Child : kst[c] # "unborn" <=> kst'[c] # "unborn"
      BY <2>5 DEF ReadCount, ReadOutput
    <3>3. \A c \in Child : result'[c] = IF c = cur[w] THEN r ELSE result[c]
      BY <3>1, <3>2, RunOver DEF BlameInv
    <3>4. result[cur[w]] = "none"
      BY <3>1 DEF BlameInv, RunInv, OneRunEach
    <3>5. \A c \in Child : Failed(c) => Failed(c)'
      BY <3>3, <3>4 DEF Failed
    <3> QED BY <2>5, <3>5 DEF ReadCount, ReadOutput, BlameInv, Blame
  <2>6. CASE OpenPerfFails(w) \/ HandleStopFails(w)
    BY <2>6, TakesBlame DEF OpenPerfFails, HandleStopFails, Fail
  <2>7. CASE BrokenPipe(w) \/ TakeReceiverPanics(w) \/ ReceivePanics(w)
             \/ ContinuePanics(w) \/ UnlinkPanics(w)
    BY <2>7, TakesBlame DEF BrokenPipe, TakeReceiverPanics, ReceivePanics,
       ContinuePanics, UnlinkPanics, Panic
  <2> QED
    BY <1>5, <2>1, <2>2, <2>3, <2>4, <2>5, <2>6, <2>7 DEF WorkerStep
<1> QED BY <1>1, <1>2, <1>3, <1>4, <1>5 DEF Next

\* Whatever the schedule and the faults, the thread everybody depends on dies,
\* and the lock is poisoned, only after a run has given up.
THEOREM DeathIsBlamed == Spec => []DeathFollowsFailure
<1>1. BlameInv => DeathFollowsFailure
  BY DEF BlameInv, Blame, Failed, DeathFollowsFailure
<1> QED BY InitBlame, NextBlame, <1>1, PTL DEF Spec

-----------------------------------------------------------------------------
(* CountedFromStart.  A traced child stands still until the worker of its run
   has opened the counter: nobody else lets it go, since a worker that gives
   up lets go of its own children only.                                      *)
Counted ==
  /\ \A w \in Worker :
       pc[w] \in {"receiving", "handling", "continuing", "unlinking", "reading"}
         /\ Traced(cur[w]) => cur[w] \in fds
  /\ \A c \in Child, w \in Worker :
       tracer[c] = w /\ result[c] = "none" => pc[w] # "idle" /\ cur[w] = c
  /\ CountedFromStart

CountedInv == RunInv /\ Counted

LEMMA InitCounted == Init => CountedInv
<1> SUFFICES ASSUME Init PROVE Counted
  BY InitRun DEF CountedInv
<1> QED BY ConstantsAssumption DEF Init, Counted, CountedFromStart

\* A worker that returns: its child is not asked about any more.
LEMMA ReturnCounted ==
  ASSUME CountedInv, NEW w \in Worker, pc[w] # "idle", NEW r, r # "none", EndRun(w, r),
         fds \ {cur[w]} \subseteq fds', fds' \subseteq fds, setting' = setting,
         \A c \in Child : kst[c] # "unborn" <=> kst'[c] # "unborn",
         \A c \in Child : tracer'[c] \in {tracer[c], None},
         \A c \in Child : kst'[c] = kst[c] \/ tracer[c] = w
  PROVE  Counted'
<1> USE DEF CountedInv
<1>1. /\ \A c \in Child : result'[c] = IF c = cur[w] THEN r ELSE result[c]
      /\ \A v \in Worker : v # w => pc'[v] = pc[v] /\ cur'[v] = cur[v]
      /\ pc'[w] = "idle"
  BY RunOver
<1>2. \A v \in Worker : v # w /\ pc[v] # "idle" => cur[v] # cur[w]
  BY DEF RunInv, OneRunEach
<1>3. \A v \in Worker :
        pc'[v] \in {"receiving", "handling", "continuing", "unlinking", "reading"}
          /\ Traced(cur[v])' => cur'[v] \in fds'
  BY <1>1, <1>2 DEF Counted, Traced
<1>4. ASSUME NEW c \in Child, NEW v \in Worker, tracer'[c] = v, result'[c] = "none"
      PROVE  pc'[v] # "idle" /\ cur'[v] = c
  <2>1. tracer[c] = v /\ c # cur[w] /\ result[c] = "none"
    BY <1>1, <1>4, ConstantsAssumption
  <2>2. v # w
    BY <2>1 DEF Counted
  <2> QED BY <1>1, <2>1, <2>2 DEF Counted
<1>5. ASSUME NEW c \in Child, setting'.mode[c] # "Never",
             kst'[c] \in {"running", "exited"}, result'[c] = "none"
      PROVE  c \in fds'
  <2>1. c # cur[w] /\ result[c] = "none"
    BY <1>1, <1>5
  <2>2. kst'[c] = kst[c]
    BY <2>1 DEF Counted
  <2> QED BY <1>5, <2>1, <2>2 DEF Counted, CountedFromStart
<1>6. CountedFromStart'
  BY <1>5 DEF CountedFromStart
<1> QED BY <1>3, <1>4, <1>6 DEF Counted

LEMMA ChildCounted ==
  ASSUME CountedInv, NEW c \in Child, ChildStep(c)
  PROVE  Counted'
<1> USE DEF CountedInv, RunInv, TypeInv, TypeOK, Change, waiterVars, workerVars
<1>1. CASE ExecTrap(c)
  BY <1>1 DEF ExecTrap, Counted, CountedFromStart, Traced
<1>2. CASE SignalStop(c)
  BY <1>2 DEF SignalStop, Counted, CountedFromStart, Traced
<1>3. CASE Exit(c)
  BY <1>3 DEF Exit, Counted, CountedFromStart, Traced
<1>4. CASE Kill(c)
  BY <1>4 DEF Kill, Counted, CountedFromStart, Traced
<1> QED BY <1>1, <1>2, <1>3, <1>4 DEF ChildStep

LEMMA NextCounted == CountedInv /\ [Next]_vars => CountedInv'
<1> SUFFICES ASSUME CountedInv, [Next]_vars PROVE Counted'
  BY NextOneRun DEF CountedInv
<1> USE DEF kernelVars, waiterVars
<1>1. CASE UNCHANGED vars
  BY <1>1 DEF vars, workerVars, CountedInv, Counted, CountedFromStart, Traced
<1>2. CASE Finished
  BY <1>1, <1>2 DEF Finished
<1>3. ASSUME NEW c \in Child, ChildStep(c)
      PROVE  Counted'
  BY <1>3, ChildCounted
<1>4. CASE WaiterStep
  BY <1>4 DEF WaiterStep, SigWait, Lock, Reap, Drained, workerVars,
     CountedInv, Counted, CountedFromStart, Traced
<1>5. ASSUME NEW w \in Worker, WorkerStep(w)
      PROVE  Counted'
  <2> USE DEF CountedInv, RunInv, TypeInv, TypeOK
  <2>1. CASE StartWaiter(w)
    BY <2>1 DEF StartWaiter, workerVars, Counted, CountedFromStart, Traced
  <2>2. ASSUME NEW c \in Child, NEW p \in Pid, Start(w, c, p)
        PROVE  Counted'
    <3>1. /\ \A d \in Child : d # c => kst'[d] = kst[d] /\ tracer'[d] = tracer[d]
          /\ kst'[c] = IF Traced(c) THEN "exec" ELSE "running"
          /\ tracer'[c] = IF Traced(c) THEN w ELSE None
          /\ pc'[w] = "writing" /\ cur'[w] = c /\ pc[w] = "idle"
          /\ \A v \in Worker : v # w => pc'[v] = pc[v] /\ cur'[v] = cur[v]
          /\ result' = result /\ fds' = fds /\ setting' = setting
      BY <2>2 DEF Start, TracerOf
    <3>2. \A v \in Worker :
            pc'[v] \in {"receiving", "handling", "continuing", "unlinking", "reading"}
              /\ Traced(cur[v])' => cur'[v] \in fds'
      BY <3>1 DEF Counted, Traced
    <3>3. ASSUME NEW d \in Child, NEW v \in Worker, tracer'[d] = v, result'[d] = "none"
          PROVE  pc'[v] # "idle" /\ cur'[v] = d
      <4>1. CASE d = c
        BY <3>1, <3>3, <4>1, ConstantsAssumption
      <4>2. CASE d # c
        <5>1. pc[v] # "idle" /\ cur[v] = d
          BY <3>1, <3>3, <4>2 DEF Counted
        <5> QED BY <3>1, <5>1
      <4> QED BY <4>1, <4>2
    <3>4. CountedFromStart'
      BY <3>1 DEF Counted, CountedFromStart, Traced
    <3> QED BY <3>2, <3>3, <3>4 DEF Counted
  <2>3. CASE WriteInput(w) \/ TakeReceiver(w)
    BY <2>3 DEF WriteInput, TakeReceiver, Counted, CountedFromStart, Traced
  <2>4. CASE OpenPerf(w)
    BY <2>4 DEF OpenPerf, Counted, CountedFromStart, Traced
  <2>5. CASE Receive(w)
    BY <2>5 DEF Receive, AfterStatus, Counted, CountedFromStart, Traced
  <2>6. CASE HandlePtraceStop(w) \/ IgnoreStatus(w) \/ Unlink(w)
    BY <2>6 DEF HandlePtraceStop, IgnoreStatus, Unlink, Counted, CountedFromStart, Traced
  <2>7. CASE Continue(w) \/ Detach(w)
    <3>1. cur[w] \in Child /\ pc[w] \in {"handling", "continuing"}
      BY <2>7 DEF Continue, Detach, Shape
    <3>2. /\ \A d \in Child : d # cur[w] => kst'[d] = kst[d]
          /\ \A d \in Child : tracer'[d] \in {tracer[d], None}
          /\ \A v \in Worker : v # w => pc'[v] = pc[v]
          /\ pc'[w] = "receiving"
          /\ cur' = cur /\ result' = result /\ fds' = fds /\ setting' = setting
      BY <2>7, <3>1 DEF Continue, Detach
    <3>3. \A v \in Worker :
            pc'[v] \in {"receiving", "handling", "continuing", "unlinking", "reading"}
              /\ Traced(cur[v])' => cur'[v] \in fds'
      BY <3>1, <3>2 DEF Counted, Traced
    <3>4. ASSUME NEW d \in Child, NEW v \in Worker, tracer'[d] = v, result'[d] = "none"
          PROVE  pc'[v] # "idle" /\ cur'[v] = d
      <4>1. tracer[d] = v /\ result[d] = "none"
        BY <3>2, <3>4, ConstantsAssumption
      <4>2. pc[v] # "idle" /\ cur[v] = d
        BY <4>1 DEF Counted
      <4> QED BY <3>2, <4>2
    <3>5. ASSUME NEW d \in Child, setting'.mode[d] # "Never",
                 kst'[d] \in {"running", "exited"}, result'[d] = "none"
          PROVE  d \in fds'
      <4>1. CASE d = cur[w]
        BY <3>1, <3>2, <3>5, <4>1 DEF Counted, Traced
      <4>2. CASE d # cur[w]
        <5>1. kst'[d] = kst[d] /\ setting' = setting
          BY <3>2, <4>2
        <5> QED BY <3>2, <3>5, <5>1 DEF Counted, CountedFromStart
      <4> QED BY <4>1, <4>2
    <3>6. CountedFromStart'
      BY <3>5 DEF CountedFromStart
    <3> QED BY <3>3, <3>4, <3>6 DEF Counted
  <2>8. CASE OpenPerfFails(w) \/ HandleStopFails(w)
    BY <2>8, ReturnCounted DEF OpenPerfFails, HandleStopFails, Fail
  <2>9. CASE ReadCount(w) \/ ReadOutput(w)
    BY <2>9, ReturnCounted DEF ReadCount, ReadOutput
  <2>10. CASE BrokenPipe(w) \/ TakeReceiverPanics(w) \/ ReceivePanics(w)
              \/ ContinuePanics(w) \/ UnlinkPanics(w)
    <3>1. pc[w] # "idle" /\ Panic(w)
      BY <2>10 DEF BrokenPipe, TakeReceiverPanics, ReceivePanics, ContinuePanics, UnlinkPanics
    <3>2. /\ \A c \in Child : tracer'[c] \in {tracer[c], None}
          /\ \A c \in Child : kst'[c] = kst[c] \/ tracer[c] = w
          /\ fds' = fds /\ setting' = setting /\ EndRun(w, "panic")
      BY <3>1 DEF Panic
    <3> QED BY <3>1, <3>2, ReturnCounted, PanicStates
  <2> QED
    BY <1>5, <2>1, <2>2, <2>3, <2>4, <2>5, <2>6, <2>7, <2>8, <2>9, <2>10 DEF WorkerStep
<1> QED BY <1>1, <1>2, <1>3, <1>4, <1>5 DEF Next

\* Under perf no instruction of the program under test goes uncounted, in any
\* schedule, and even if ids are reused.
THEOREM NothingUncounted == Spec => []CountedFromStart
<1>1. CountedInv => CountedFromStart
  BY DEF CountedInv, Counted
<1> QED BY InitCounted, NextCounted, <1>1, PTL DEF Spec

-----------------------------------------------------------------------------
(* OkMeansExited.  The exit of a child is the last that is ever heard of it:
   whoever has seen it has seen everything.                                  *)
Gone(c) == kst[c] = "exited" /\ report[c] = "none" /\ buf[c] = <<>>

ExitIsLast ==
  /\ \A c \in Child : report[c] = "Exited" => kst[c] = "exited"
  /\ \A c \in Child : \A i \in 1..Len(buf[c]) : buf[c][i].status = "Exited" =>
       kst[c] = "exited" /\ report[c] = "none" /\ i = Len(buf[c])
  /\ \A w \in Worker : pc[w] \in {"unlinking", "reading"} => Gone(cur[w])
  /\ \A c \in Child : result[c] = "Ok" => Gone(c)

ExitInv == RunInv /\ RoutingInv /\ ExitIsLast

LEMMA InitExit == Init => ExitInv
<1> SUFFICES ASSUME Init PROVE ExitIsLast
  BY InitRun, InitRouting DEF ExitInv
<1>1. \A c \in Child : Len(buf[c]) = 0
  BY DEF Init
<1> QED BY <1>1 DEF Init, ExitIsLast

\* A step that disturbs no child that has exited, sends no status and sees none.
LEMMA QuietExit ==
  ASSUME ExitInv,
         \A c \in Child : kst[c] = "exited" => kst'[c] = "exited",
         \A c \in Child : report'[c] \in {report[c], "none"},
         \A c \in Child : buf'[c] = buf[c] \/ buf'[c] = <<>>,
         \A w \in Worker : pc'[w] \in {"unlinking", "reading"} =>
           pc[w] \in {"unlinking", "reading"} /\ cur'[w] = cur[w],
         \A c \in Child : result'[c] = "Ok" => result[c] = "Ok" \/ Gone(c)
  PROVE  ExitIsLast'
<1> USE DEF ExitInv, ExitIsLast, Gone
<1>1. \A c \in Child : Gone(c) => Gone(c)'
  OBVIOUS
<1>2. ASSUME NEW c \in Child, NEW i \in 1..Len(buf'[c]), buf'[c][i].status = "Exited"
      PROVE  kst'[c] = "exited" /\ report'[c] = "none" /\ i = Len(buf'[c])
  <2>1. buf'[c] = buf[c]
    BY <1>2
  <2> QED BY <1>2, <2>1
<1>3. \A c \in Child : report'[c] = "Exited" => kst'[c] = "exited"
  OBVIOUS
<1>4. \A w \in Worker : pc'[w] \in {"unlinking", "reading"} => Gone(cur[w])'
  <2> SUFFICES ASSUME NEW w \in Worker, pc'[w] \in {"unlinking", "reading"}
               PROVE  Gone(cur[w])'
    OBVIOUS
  <2>1. cur'[w] = cur[w] /\ cur[w] \in Child /\ Gone(cur[w])
    BY DEF RunInv, TypeInv, Shape
  <2> QED BY <1>1, <2>1
<1>5. \A c \in Child : result'[c] = "Ok" => Gone(c)'
  BY <1>1
<1> QED BY <1>2, <1>3, <1>4, <1>5

LEMMA ChildExit ==
  ASSUME ExitInv, NEW c \in Child, ChildStep(c)
  PROVE  ExitIsLast'
<1> USE DEF ExitInv
<1>1. PICK state \in {"stopped", "exited", "killed"}, s \in Status :
        /\ kst[c] \in Alive
        /\ s = "Exited" => state = "exited"
        /\ Change(c, state, s)
  BY DEF ChildStep, ExecTrap, SignalStop, Exit, Kill, Status, Alive
<1>2. /\ \A d \in Child : d # c => kst'[d] = kst[d] /\ report'[d] = report[d]
      /\ kst'[c] = state /\ report'[c] = s
      /\ buf' = buf /\ pc' = pc /\ cur' = cur /\ result' = result
  BY <1>1 DEF Change, waiterVars, workerVars, RunInv, TypeInv, TypeOK
<1>3. kst[c] # "exited"
  BY <1>1 DEF Alive
<1>4. \A d \in Child : Gone(d) => Gone(d)'
  BY <1>2, <1>3 DEF Gone
<1>5. \A d \in Child : \A i \in 1..Len(buf'[d]) : buf'[d][i].status = "Exited" =>
        kst'[d] = "exited" /\ report'[d] = "none" /\ i = Len(buf'[d])
  BY <1>2, <1>3 DEF ExitIsLast
<1>6. \A d \in Child : report'[d] = "Exited" => kst'[d] = "exited"
  BY <1>1, <1>2 DEF ExitIsLast
<1>7. ASSUME NEW w \in Worker, pc'[w] \in {"unlinking", "reading"}
      PROVE  Gone(cur[w])'
  <2>1. cur'[w] = cur[w] /\ cur[w] \in Child /\ Gone(cur[w])
    BY <1>2, <1>7 DEF ExitIsLast, RunInv, TypeInv, Shape
  <2> QED BY <1>4, <2>1 DEF Gone
<1>8. \A d \in Child : result'[d] = "Ok" => Gone(d)'
  BY <1>2, <1>4 DEF ExitIsLast
<1> QED BY <1>5, <1>6, <1>7, <1>8 DEF ExitIsLast

LEMMA ReapExit ==
  ASSUME ExitInv, NEW c \in Child, Reap(c)
  PROVE  ExitIsLast'
<1> USE DEF ExitInv
<1> DEFINE data == [child |-> c, status |-> report[c]]
<1>1. ChannelFor(c) = c /\ report[c] # "none"
  BY ChannelIsOwn DEF Reap, RunInv, TypeInv, Shape
<1>2. kst' = kst /\ pc' = pc /\ cur' = cur /\ result' = result
  BY DEF Reap, workerVars
<1>3. \A d \in Child : report'[d] = IF d = c THEN "none" ELSE report[d]
  BY DEF Reap, RunInv, TypeInv, TypeOK
<1>4. CASE rx[c] = "dropped"
  BY <1>1, <1>2, <1>3, <1>4, QuietExit DEF Reap
<1>5. CASE rx[c] # "dropped"
  <2>1. buf' = [buf EXCEPT ![c] = Append(buf[c], data)] /\ buf \in [Child -> Seq(WaitData)]
    BY <1>1, <1>5 DEF Reap, Sent, RunInv, TypeInv, TypeOK
  <2>2. data \in WaitData
    BY <1>1 DEF WaitData, RunInv, TypeInv, TypeOK
  <2>3. \A i \in 1..Len(buf[c]) : buf[c][i].status # "Exited"
    BY <1>1 DEF ExitIsLast
  <2>4. ASSUME NEW d \in Child, NEW i \in 1..Len(buf'[d]), buf'[d][i].status = "Exited"
        PROVE  kst'[d] = "exited" /\ report'[d] = "none" /\ i = Len(buf'[d])
    <3>1. CASE d # c
      <4>1. buf'[d] = buf[d]
        BY <2>1, <3>1
      <4> QED BY <1>2, <1>3, <2>4, <3>1, <4>1 DEF ExitIsLast
    <3>2. CASE d = c
      <4>1. /\ buf'[c] = Append(buf[c], data)
            /\ Len(buf'[c]) = Len(buf[c]) + 1
            /\ \A j \in 1..Len(buf[c]) : buf'[c][j] = buf[c][j]
            /\ buf'[c][Len(buf[c]) + 1] = data
            /\ Len(buf[c]) \in Nat
        BY <2>1, <2>2
      <4>2. i = Len(buf[c]) + 1
        BY <2>3, <2>4, <3>2, <4>1
      <4>3. report[c] = "Exited"
        BY <2>4, <3>2, <4>1, <4>2
      <4> QED BY <1>2, <1>3, <3>2, <4>1, <4>2, <4>3 DEF ExitIsLast
    <3> QED BY <3>1, <3>2
  <2>5. \A d \in Child : Gone(d) => Gone(d)'
    BY <1>1, <1>2, <1>3, <2>1 DEF Gone
  <2>6. \A d \in Child : report'[d] = "Exited" => kst'[d] = "exited"
    BY <1>2, <1>3 DEF ExitIsLast
  <2>7. ASSUME NEW w \in Worker, pc'[w] \in {"unlinking", "reading"}
        PROVE  Gone(cur[w])'
    <3>1. cur'[w] = cur[w] /\ cur[w] \in Child /\ Gone(cur[w])
      BY <1>2, <2>7 DEF ExitIsLast, RunInv, TypeInv, Shape
    <3> QED BY <2>5, <3>1 DEF Gone
  <2>8. \A d \in Child : result'[d] = "Ok" => Gone(d)'
    BY <1>2, <2>5 DEF ExitIsLast
  <2> QED BY <2>4, <2>6, <2>7, <2>8 DEF ExitIsLast
<1> QED BY <1>4, <1>5

LEMMA EmptyIfNoLength ==
  ASSUME NEW S, NEW s \in Seq(S), Len(s) = 0
  PROVE  s = <<>>
OBVIOUS

LEMMA ReceiveExit ==
  ASSUME ExitInv, NEW w \in Worker, Receive(w)
  PROVE  ExitIsLast'
<1> USE DEF ExitInv
<1> DEFINE ch == recv[w]
<1>1. ch \in Child /\ cur[w] = ch /\ buf[ch] \in Seq(WaitData) /\ buf[ch] # <<>>
  BY ConstantsAssumption DEF Receive, RunInv, TypeInv, TypeOK, Shape, RoutingInv, Routing, OwnEvents
<1>2. /\ Head(buf[ch]) = buf[ch][1] /\ 1 \in 1..Len(buf[ch])
      /\ Len(Tail(buf[ch])) = Len(buf[ch]) - 1 /\ Len(buf[ch]) \in Nat
      /\ \A i \in 1..Len(Tail(buf[ch])) :
           i + 1 \in 1..Len(buf[ch]) /\ Tail(buf[ch])[i] = buf[ch][i + 1]
      /\ Len(buf[ch]) = 1 => Tail(buf[ch]) = <<>>
  <2>1. Len(Tail(buf[ch])) = Len(buf[ch]) - 1 /\ Len(buf[ch]) \in Nat
    BY <1>1
  <2>2. /\ Head(buf[ch]) \in WaitData
        /\ Head(buf[ch]) = buf[ch][1]
        /\ 1 \in 1..Len(buf[ch])
        /\ Tail(buf[ch]) \in Seq(WaitData)
        /\ \A i \in 1..Len(Tail(buf[ch])) :
             i + 1 \in 1..Len(buf[ch]) /\ Tail(buf[ch])[i] = buf[ch][i + 1]
    BY <1>1, HeadTail
  <2>3. ASSUME Len(buf[ch]) = 1
        PROVE  Tail(buf[ch]) = <<>>
    <3>1. Len(Tail(buf[ch])) = 0
      BY <2>1, <2>3
    <3>2. Tail(buf[ch]) \in Seq(WaitData)
      BY <2>2
    <3> HIDE DEF ch
    <3> QED BY <3>1, <3>2, EmptyIfNoLength
  <2> QED BY <2>1, <2>2, <2>3
<1>3. /\ \A d \in Child : buf'[d] = IF d = ch THEN Tail(buf[ch]) ELSE buf[d]
      /\ \A v \in Worker : v # w => pc'[v] = pc[v]
      /\ pc'[w] = AfterStatus(Head(buf[ch]).status)
      /\ kst' = kst /\ report' = report /\ cur' = cur /\ result' = result
  BY <1>1 DEF Receive, RunInv, TypeInv, TypeOK, kernelVars
<1>4. ~Gone(ch)
  BY <1>1 DEF Gone
<1>5. \A d \in Child : Gone(d) => Gone(d)'
  BY <1>3, <1>4 DEF Gone
<1>6. ASSUME NEW d \in Child, NEW i \in 1..Len(buf'[d]), buf'[d][i].status = "Exited"
      PROVE  kst'[d] = "exited" /\ report'[d] = "none" /\ i = Len(buf'[d])
  <2>1. CASE d # ch
    <3>1. buf'[d] = buf[d]
      BY <1>3, <2>1
    <3> QED BY <1>3, <1>6, <3>1 DEF ExitIsLast
  <2>2. CASE d = ch
    <3>1. buf'[d] = Tail(buf[ch])
      BY <1>3, <2>2
    <3>2. i + 1 \in 1..Len(buf[ch]) /\ buf[ch][i + 1].status = "Exited"
      BY <1>2, <1>6, <3>1
    <3>3. kst[ch] = "exited" /\ report[ch] = "none" /\ i + 1 = Len(buf[ch])
      BY <1>1, <3>2 DEF ExitIsLast
    <3> QED BY <1>2, <1>3, <2>2, <3>1, <3>3
  <2> QED BY <2>1, <2>2
<1>7. ASSUME NEW v \in Worker, pc'[v] \in {"unlinking", "reading"}
      PROVE  Gone(cur[v])'
  <2>1. CASE v # w
    <3>1. cur'[v] = cur[v] /\ cur[v] \in Child /\ Gone(cur[v])
      BY <1>3, <1>7, <2>1 DEF ExitIsLast, RunInv, TypeInv, Shape
    <3> QED BY <1>5, <3>1 DEF Gone
  <2>2. CASE v = w
    <3>1. buf[ch][1].status = "Exited"
      BY <1>2, <1>3, <1>7, <2>2 DEF AfterStatus
    <3>2. kst[ch] = "exited" /\ report[ch] = "none" /\ 1 = Len(buf[ch])
      BY <1>1, <1>2, <3>1 DEF ExitIsLast
    <3>3. buf'[ch] = <<>> /\ cur'[v] = ch
      BY <1>1, <1>2, <1>3, <2>2, <3>2
    <3> QED BY <1>3, <3>2, <3>3 DEF Gone
  <2> QED BY <2>1, <2>2
<1>8. \A d \in Child : result'[d] = "Ok" => Gone(d)'
  BY <1>3, <1>5 DEF ExitIsLast
<1>9. \A d \in Child : report'[d] = "Exited" => kst'[d] = "exited"
  BY <1>3 DEF ExitIsLast
<1> QED BY <1>6, <1>7, <1>8, <1>9 DEF ExitIsLast

LEMMA NextExit ==
  ASSUME ExitInv, [Next]_vars, NoReuse
  PROVE  ExitInv'
<1> SUFFICES ExitIsLast'
  BY NextOneRun, NextRouting DEF ExitInv
<1> USE DEF kernelVars, waiterVars, workerVars
<1>1. CASE UNCHANGED vars
  BY <1>1, QuietExit DEF vars
<1>2. CASE Finished
  BY <1>1, <1>2 DEF Finished
<1>3. ASSUME NEW c \in Child, ChildStep(c)
      PROVE  ExitIsLast'
  BY <1>3, ChildExit
<1>4. CASE WaiterStep
  BY <1>4, QuietExit, ReapExit DEF WaiterStep, SigWait, Lock, Drained
<1>5. ASSUME NEW w \in Worker, WorkerStep(w)
      PROVE  ExitIsLast'
  <2> USE DEF ExitInv, RunInv, TypeInv, TypeOK
  <2>1. CASE StartWaiter(w)
    BY <2>1, QuietExit DEF StartWaiter
  <2>2. ASSUME NEW c \in Child, NEW p \in Pid, Start(w, c, p)
        PROVE  ExitIsLast'
    BY <2>2, QuietExit DEF Start
  <2>3. CASE WriteInput(w) \/ TakeReceiver(w) \/ OpenPerf(w)
    BY <2>3, QuietExit DEF WriteInput, TakeReceiver, OpenPerf
  <2>4. CASE Receive(w)
    BY <2>4, ReceiveExit
  <2>5. CASE HandlePtraceStop(w) \/ IgnoreStatus(w)
    BY <2>5, QuietExit DEF HandlePtraceStop, IgnoreStatus
  <2>6. CASE Unlink(w)
    <3>1. \A c \in Child : buf'[c] = buf[c] \/ buf'[c] = <<>>
      BY <2>6 DEF Unlink
    <3>2. /\ kst' = kst /\ report' = report /\ cur' = cur /\ result' = result
          /\ pc[w] = "unlinking" /\ \A v \in Worker : v # w => pc'[v] = pc[v]
      BY <2>6 DEF Unlink
    <3> QED BY <3>1, <3>2, QuietExit
  <2>7. CASE Continue(w) \/ Detach(w)
    <3>1. \A d \in Child : kst[d] = "exited" => kst'[d] = "exited"
      BY <2>7 DEF Continue, Detach
    <3>2. /\ \A v \in Worker : v # w => pc'[v] = pc[v]
          /\ pc'[w] = "receiving"
          /\ report' = report /\ buf' = buf /\ cur' = cur /\ result' = result
      BY <2>7 DEF Continue, Detach
    <3> QED BY <3>1, <3>2, QuietExit
  <2>8. ASSUME NEW r \in {"Ok", "Err"}, pc[w] = "reading", EndRun(w, r),
               UNCHANGED <<kst, report, buf>>
        PROVE  ExitIsLast'
    <3>1. cur[w] \in Child /\ Gone(cur[w])
      BY <2>8 DEF ExitIsLast, Shape
    <3>2. \A c \in Child : result'[c] = "Ok" => result[c] = "Ok" \/ Gone(c)
      BY <2>8, <3>1 DEF EndRun
    <3>3. \A v \in Worker : pc'[v] \in {"unlinking", "reading"} =>
            pc[v] \in {"unlinking", "reading"} /\ cur'[v] = cur[v]
      BY <2>8 DEF EndRun
    <3> QED BY <2>8, <3>2, <3>3, QuietExit
  <2>9. CASE ReadCount(w) \/ ReadOutput(w)
    BY <2>8, <2>9 DEF ReadCount, ReadOutput
  <2>10. ASSUME NEW r \in {"Err", "panic"}, EndRun(w, r), DropHandle(w),
                \A c \in Child : kst[c] = "exited" => kst'[c] = "exited",
                \A c \in Child : report'[c] \in {report[c], "none"}
         PROVE  ExitIsLast'
    <3>1. \A c \in Child : result'[c] = "Ok" => result[c] = "Ok"
      BY <2>10 DEF EndRun
    <3>2. \A v \in Worker : pc'[v] \in {"unlinking", "reading"} =>
            pc[v] \in {"unlinking", "reading"} /\ cur'[v] = cur[v]
      BY <2>10 DEF EndRun
    <3> QED BY <2>10, <3>1, <3>2, QuietExit, DropHandleType
  <2>11. CASE OpenPerfFails(w) \/ HandleStopFails(w)
    BY <2>10, <2>11 DEF OpenPerfFails, HandleStopFails, Fail
  <2>12. CASE BrokenPipe(w) \/ TakeReceiverPanics(w) \/ ReceivePanics(w)
              \/ ContinuePanics(w) \/ UnlinkPanics(w)
    <3>1. Panic(w)
      BY <2>12 DEF BrokenPipe, TakeReceiverPanics, ReceivePanics, ContinuePanics, UnlinkPanics
    <3>2. /\ \A c \in Child : kst[c] = "exited" => kst'[c] = "exited"
          /\ \A c \in Child : report'[c] \in {report[c], "none"}
      BY <3>1 DEF Panic
    <3> QED BY <2>10, <3>1, <3>2 DEF Panic
  <2> QED
    BY <1>5, <2>1, <2>2, <2>3, <2>4, <2>5, <2>6, <2>7, <2>9, <2>11, <2>12 DEF WorkerStep
<1> QED BY <1>1, <1>2, <1>3, <1>4, <1>5 DEF Next

\* A count is the count of a run that came to its end by itself: no kill, no
\* timeout and no status of another child is taken for it.
THEOREM CountsAreComplete ==
  ASSUME NoReuse
  PROVE  Spec => []OkMeansExited
<1>1. ExitInv /\ [Next]_vars => ExitInv'
  BY NextExit
<1>2. ExitInv => OkMeansExited
  BY DEF ExitInv, ExitIsLast, Gone, OkMeansExited
<1> QED BY InitExit, <1>1, <1>2, PTL DEF Spec
=============================================================================
