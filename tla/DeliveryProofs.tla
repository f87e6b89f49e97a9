--------------------------- MODULE DeliveryProofs ---------------------------
(***************************************************************************)
(* ProcessWaiter implements WaitDelivery, for any number of workers, runs  *)
(* and process ids, as long as the ids are not reused.  When nothing       *)
(* around the code goes wrong no run fails, however their steps            *)
(* interleave; and what runs that do fail leave behind: perf descriptors,  *)
(* and entries of the map of channels.                                     *)
(***************************************************************************)
EXTENDS RunProofs

(* How a child and its run take turns.  A child that goes on has had all its
   statuses seen; one that is stopped has at most that stop on the way; and
   only of a child whose run is over does a status get lost.                 *)
Turns ==
  /\ \A c \in Child : kst[c] = "unborn" => report[c] = "none" /\ buf[c] = <<>>
  /\ \A c \in Child : kst[c] \in {"exec", "running"} /\ result[c] = "none" =>
       report[c] = "none" /\ buf[c] = <<>>
  /\ \A c \in Child : kst[c] = "stopped" /\ result[c] = "none" /\ buf[c] # <<>> =>
       report[c] = "none" /\ Len(buf[c]) = 1
  /\ \A w \in Worker : pc[w] \in {"handling", "continuing"} =>
       /\ kst[cur[w]] \in {"stopped", "exited", "killed"}
       /\ kst[cur[w]] = "stopped" => report[cur[w]] = "none" /\ buf[cur[w]] = <<>>
  /\ \A c \in Child : rx[c] = "dropped" => result[c] # "none"

TurnsInv == ExitInv /\ CountedInv /\ Turns

LEMMA InitTurns == Init => TurnsInv
<1> SUFFICES ASSUME Init PROVE Turns
  BY InitExit, InitCounted DEF TurnsInv
<1> QED BY DEF Init, Turns

\* A step that sends nothing, sees nothing, and lets no child go on whose run
\* is not over.
LEMMA QuietTurns ==
  ASSUME TurnsInv,
         \A c \in Child : \/ kst'[c] = kst[c]
                          \/ kst[c] # "unborn" /\ kst'[c] # "unborn" /\ result'[c] # "none",
         \A c \in Child : report'[c] \in {report[c], "none"},
         \A c \in Child : buf'[c] = buf[c] \/ buf'[c] = <<>>,
         \A c \in Child : result'[c] = "none" => result[c] = "none",
         \A c \in Child : rx'[c] = "dropped" => rx[c] = "dropped" \/ result'[c] # "none",
         \A c \in Child : result[c] # "none" => result'[c] # "none",
         \A w \in Worker : pc'[w] \in {"handling", "continuing"} =>
           /\ pc[w] \in {"handling", "continuing"}
           /\ cur'[w] = cur[w] /\ cur[w] \in Child /\ result'[cur[w]] = "none"
  PROVE  Turns'
<1> USE DEF TurnsInv, Turns
<1>1. \A c \in Child : kst'[c] = "unborn" => report'[c] = "none" /\ buf'[c] = <<>>
  OBVIOUS
<1>2. \A c \in Child : kst'[c] \in {"exec", "running"} /\ result'[c] = "none" =>
        report'[c] = "none" /\ buf'[c] = <<>>
  OBVIOUS
<1>3. \A c \in Child : kst'[c] = "stopped" /\ result'[c] = "none" /\ buf'[c] # <<>> =>
        report'[c] = "none" /\ Len(buf'[c]) = 1
  OBVIOUS
<1>4. \A w \in Worker : pc'[w] \in {"handling", "continuing"} =>
        /\ kst'[cur'[w]] \in {"stopped", "exited", "killed"}
        /\ kst'[cur'[w]] = "stopped" => report'[cur'[w]] = "none" /\ buf'[cur'[w]] = <<>>
  OBVIOUS
<1>5. \A c \in Child : rx'[c] = "dropped" => result'[c] # "none"
  OBVIOUS
<1> QED BY <1>1, <1>2, <1>3, <1>4, <1>5

LEMMA ChildTurns ==
  ASSUME TurnsInv, NEW c \in Child, ChildStep(c)
  PROVE  Turns'
<1> USE DEF TurnsInv
<1>1. PICK state \in {"stopped", "exited", "killed"}, s \in Status :
        /\ kst[c] \in Alive
        /\ state = "stopped" => kst[c] \in {"exec", "running"}
        /\ Change(c, state, s)
  BY DEF ChildStep, ExecTrap, SignalStop, Exit, Kill, Status, Alive
<1>2. /\ \A d \in Child : d # c => kst'[d] = kst[d] /\ report'[d] = report[d]
      /\ kst'[c] = state
      /\ buf' = buf /\ pc' = pc /\ cur' = cur /\ result' = result /\ rx' = rx
  BY <1>1 DEF Change, waiterVars, workerVars, CountedInv, RunInv, TypeInv, TypeOK
<1>3. kst[c] # "unborn"
  BY <1>1 DEF Alive
<1>4. ASSUME NEW w \in Worker, pc'[w] \in {"handling", "continuing"}
      PROVE  /\ kst'[cur'[w]] \in {"stopped", "exited", "killed"}
             /\ kst'[cur'[w]] = "stopped" => report'[cur'[w]] = "none" /\ buf'[cur'[w]] = <<>>
  <2>1. cur[w] \in Child
    BY <1>2, <1>4 DEF CountedInv, RunInv, TypeInv, Shape
  <2>2. CASE cur[w] = c
    BY <1>1, <1>2, <1>4, <2>2 DEF Turns
  <2>3. CASE cur[w] # c
    BY <1>2, <1>4, <2>1, <2>3 DEF Turns
  <2> QED BY <2>2, <2>3
<1>5. \A d \in Child : kst'[d] = "stopped" /\ result'[d] = "none" /\ buf'[d] # <<>> =>
        report'[d] = "none" /\ Len(buf'[d]) = 1
  BY <1>1, <1>2 DEF Turns
<1>6. /\ \A d \in Child : kst'[d] = "unborn" => report'[d] = "none" /\ buf'[d] = <<>>
      /\ \A d \in Child : kst'[d] \in {"exec", "running"} /\ result'[d] = "none" =>
           report'[d] = "none" /\ buf'[d] = <<>>
      /\ \A d \in Child : rx'[d] = "dropped" => result'[d] # "none"
  BY <1>1, <1>2, <1>3 DEF Turns
<1> QED BY <1>4, <1>5, <1>6 DEF Turns

LEMMA ReapTurns ==
  ASSUME TurnsInv, NEW c \in Child, Reap(c)
  PROVE  Turns'
<1> USE DEF TurnsInv
<1> DEFINE data == [child |-> c, status |-> report[c]]
<1>1. ChannelFor(c) = c /\ report[c] # "none"
  BY ChannelIsOwn DEF Reap, ExitInv, RunInv, TypeInv, Shape
<1>2. /\ kst' = kst /\ pc' = pc /\ cur' = cur /\ result' = result
      /\ \A d \in Child : report'[d] = IF d = c THEN "none" ELSE report[d]
  BY DEF Reap, workerVars, ExitInv, RunInv, TypeInv, TypeOK
<1>3. CASE rx[c] = "dropped"
  <2>1. rx' = rx /\ buf' = buf
    BY <1>1, <1>3 DEF Reap
  <2>2. \A w \in Worker : pc'[w] \in {"handling", "continuing"} =>
          cur[w] \in Child /\ result'[cur[w]] = "none"
    BY <1>2 DEF ExitInv, RunInv, TypeInv, Shape, OneRunEach
  <2> QED BY <1>2, <2>1, <2>2, QuietTurns
<1>4. CASE rx[c] # "dropped"
  <2>1. /\ buf' = [buf EXCEPT ![c] = Append(buf[c], data)] /\ buf \in [Child -> Seq(WaitData)]
        /\ rx' = [rx EXCEPT ![c] = IF @ = "none" THEN "map" ELSE @]
        /\ rx \in [Child -> {"none", "map", "held", "dropped"}]
    BY <1>1, <1>4 DEF Reap, Sent, ExitInv, RunInv, TypeInv, TypeOK
  <2>2. data \in WaitData
    BY <1>1 DEF WaitData, ExitInv, RunInv, TypeInv, TypeOK
  <2>3. \A d \in Child : d # c => buf'[d] = buf[d]
    BY <2>1
  <2>4. kst[c] \notin {"unborn"} /\ (kst[c] \in {"exec", "running"} => result[c] # "none")
    BY <1>1 DEF Turns
  <2>5. kst[c] = "stopped" /\ result[c] = "none" => buf[c] = <<>>
    BY <1>1 DEF Turns
  <2>6. kst[c] = "stopped" /\ result[c] = "none" => Len(buf'[c]) = 1
    BY <2>1, <2>2, <2>5
  <2>7. ASSUME NEW w \in Worker, pc'[w] \in {"handling", "continuing"}
        PROVE  /\ kst'[cur'[w]] \in {"stopped", "exited", "killed"}
               /\ kst'[cur'[w]] = "stopped" =>
                    report'[cur'[w]] = "none" /\ buf'[cur'[w]] = <<>>
    <3>1. cur[w] \in Child
      BY <1>2, <2>7 DEF ExitInv, RunInv, TypeInv, Shape
    <3>2. CASE cur[w] = c
      BY <1>1, <1>2, <2>7, <3>2 DEF Turns
    <3>3. CASE cur[w] # c
      BY <1>2, <2>3, <2>7, <3>1, <3>3 DEF Turns
    <3> QED BY <3>2, <3>3
  <2>8. \A d \in Child : rx'[d] = "dropped" => result'[d] # "none"
    BY <1>2, <2>1 DEF Turns
  <2>9. \A d \in Child : kst'[d] = "stopped" /\ result'[d] = "none" /\ buf'[d] # <<>> =>
          report'[d] = "none" /\ Len(buf'[d]) = 1
    BY <1>2, <2>3, <2>6 DEF Turns
  <2>10. /\ \A d \in Child : kst'[d] = "unborn" => report'[d] = "none" /\ buf'[d] = <<>>
         /\ \A d \in Child : kst'[d] \in {"exec", "running"} /\ result'[d] = "none" =>
              report'[d] = "none" /\ buf'[d] = <<>>
    BY <1>2, <2>3, <2>4 DEF Turns
  <2> QED BY <2>7, <2>8, <2>9, <2>10 DEF Turns
<1> QED BY <1>3, <1>4

LEMMA ReceiveTurns ==
  ASSUME TurnsInv, NEW w \in Worker, Receive(w)
  PROVE  Turns'
<1> USE DEF TurnsInv
<1> DEFINE ch == recv[w]
<1>1. ch \in Child /\ cur[w] = ch /\ buf[ch] \in Seq(WaitData) /\ buf[ch] # <<>>
  BY ConstantsAssumption
     DEF Receive, ExitInv, RunInv, TypeInv, TypeOK, Shape, RoutingInv, Routing, OwnEvents
<1>2. Len(buf[ch]) = 1 => Tail(buf[ch]) = <<>>
  <2> SUFFICES ASSUME Len(buf[ch]) = 1 PROVE Tail(buf[ch]) = <<>>
    OBVIOUS
  <2>1. Tail(buf[ch]) \in Seq(WaitData) /\ Len(Tail(buf[ch])) = 0
    BY <1>1
  <2> HIDE DEF ch
  <2> QED BY <2>1, EmptyIfNoLength
<1>3. /\ \A d \in Child : buf'[d] = IF d = ch THEN Tail(buf[ch]) ELSE buf[d]
      /\ \A v \in Worker : v # w => pc'[v] = pc[v]
      /\ kst' = kst /\ report' = report /\ cur' = cur /\ result' = result /\ rx' = rx
  BY <1>1 DEF Receive, ExitInv, RunInv, TypeInv, TypeOK, kernelVars
<1>4. result[ch] = "none" /\ kst[ch] \notin {"unborn", "exec", "running"}
  BY <1>1 DEF Receive, ExitInv, RunInv, OneRunEach, Turns
<1>5. kst[ch] = "stopped" => report[ch] = "none" /\ buf'[ch] = <<>>
  BY <1>1, <1>2, <1>3, <1>4 DEF Turns
<1>6. kst[ch] \in {"stopped", "exited", "killed"}
  BY <1>1, <1>4 DEF ExitInv, RunInv, TypeInv, TypeOK, Alive, Dead
<1>7. ASSUME NEW v \in Worker, pc'[v] \in {"handling", "continuing"}
      PROVE  /\ kst'[cur'[v]] \in {"stopped", "exited", "killed"}
             /\ kst'[cur'[v]] = "stopped" => report'[cur'[v]] = "none" /\ buf'[cur'[v]] = <<>>
  <2>1. CASE v = w
    BY <1>1, <1>3, <1>5, <1>6, <2>1
  <2>2. CASE v # w
    <3>1. pc[v] \in {"handling", "continuing"} /\ cur[v] \in Child /\ cur[v] # ch
      BY <1>1, <1>3, <1>7, <2>2 DEF Receive, ExitInv, RunInv, TypeInv, Shape, OneRunEach
    <3> QED BY <1>3, <3>1 DEF Turns
  <2> QED BY <2>1, <2>2
<1>8. /\ \A d \in Child : kst'[d] = "unborn" => report'[d] = "none" /\ buf'[d] = <<>>
      /\ \A d \in Child : kst'[d] \in {"exec", "running"} /\ result'[d] = "none" =>
           report'[d] = "none" /\ buf'[d] = <<>>
      /\ \A d \in Child : kst'[d] = "stopped" /\ result'[d] = "none" /\ buf'[d] # <<>> =>
           report'[d] = "none" /\ Len(buf'[d]) = 1
      /\ \A d \in Child : rx'[d] = "dropped" => result'[d] # "none"
  BY <1>3, <1>4, <1>5 DEF Turns
<1> QED BY <1>7, <1>8 DEF Turns

\* A worker that returns.  The children it lets go of are its own.
LEMMA ReturnTurns ==
  ASSUME TurnsInv, NEW w \in Worker, pc[w] # "idle", NEW r, r # "none", EndRun(w, r),
         DropHandle(w) \/ UNCHANGED <<rx, buf>>,
         \A c \in Child : kst[c] # "unborn" <=> kst'[c] # "unborn",
         \A c \in Child : kst'[c] = kst[c] \/ tracer[c] = w,
         \A c \in Child : report'[c] \in {report[c], "none"}
  PROVE  Turns'
<1> USE DEF TurnsInv, ExitInv, RunInv, TypeInv, TypeOK
<1>1. cur[w] \in Child /\ result[cur[w]] = "none"
  BY DEF Shape, OneRunEach
<1>2. /\ \A c \in Child : result'[c] = IF c = cur[w] THEN r ELSE result[c]
      /\ \A v \in Worker : v # w => pc'[v] = pc[v] /\ cur'[v] = cur[v]
      /\ pc'[w] = "idle"
  BY RunOver
<1>3. recv[w] \in Child => recv[w] = cur[w]
  BY ConstantsAssumption DEF RoutingInv, Routing, OwnEvents
<1>4. \A c \in Child : buf'[c] = buf[c] \/ buf'[c] = <<>>
  BY DEF DropHandle
<1>5. \A c \in Child : rx'[c] = "dropped" => rx[c] = "dropped" \/ c = cur[w]
  BY <1>3 DEF DropHandle
<1>6. \A c \in Child : tracer[c] = w /\ result[c] = "none" => c = cur[w]
  BY DEF CountedInv, Counted
<1>7. \A c \in Child : \/ kst'[c] = kst[c]
                       \/ kst[c] # "unborn" /\ kst'[c] # "unborn" /\ result'[c] # "none"
  BY <1>2, <1>6 DEF OneRunEach
<1>8. \A v \in Worker : pc'[v] \in {"handling", "continuing"} =>
        /\ pc[v] \in {"handling", "continuing"}
        /\ cur'[v] = cur[v] /\ cur[v] \in Child /\ result'[cur[v]] = "none"
  BY <1>2 DEF Shape, OneRunEach
<1> QED BY <1>1, <1>2, <1>4, <1>5, <1>7, <1>8, QuietTurns

\* Another step of a worker within its run, of the waiter thread, or none.
LEMMA StillTurns ==
  ASSUME TurnsInv, UNCHANGED <<kst, report, result, cur>>,
         \A c \in Child : buf'[c] = buf[c] \/ buf'[c] = <<>>,
         \A c \in Child : rx'[c] = "dropped" => rx[c] = "dropped",
         \A w \in Worker : pc'[w] \in {"handling", "continuing"} =>
           pc[w] \in {"handling", "continuing"}
  PROVE  Turns'
<1>1. \A w \in Worker : pc'[w] \in {"handling", "continuing"} =>
        cur[w] \in Child /\ result'[cur[w]] = "none"
  BY DEF TurnsInv, ExitInv, RunInv, TypeInv, Shape, OneRunEach
<1> QED BY <1>1, QuietTurns

\* The child has had its stop handled, and goes on.
LEMMA GoOnTurns ==
  ASSUME TurnsInv, NEW w \in Worker, Continue(w) \/ Detach(w)
  PROVE  Turns'
<1> USE DEF TurnsInv, ExitInv, RunInv, TypeInv, TypeOK
<1> DEFINE c == cur[w]
<1>1. /\ c \in Child /\ kst[c] = "stopped"
      /\ pc[w] \in {"handling", "continuing"}
  BY DEF Continue, Detach, Shape
<1>2. report[c] = "none" /\ buf[c] = <<>>
  BY <1>1 DEF Turns
<1>3. /\ \A d \in Child : kst'[d] = IF d = c THEN "running" ELSE kst[d]
      /\ \A v \in Worker : v # w => pc'[v] = pc[v]
      /\ pc'[w] = "receiving"
      /\ UNCHANGED <<report, buf, rx, cur, result>>
  BY <1>1 DEF Continue, Detach, waiterVars
<1>4. ASSUME NEW v \in Worker, pc'[v] \in {"handling", "continuing"}
      PROVE  /\ kst'[cur'[v]] \in {"stopped", "exited", "killed"}
             /\ kst'[cur'[v]] = "stopped" => report'[cur'[v]] = "none" /\ buf'[cur'[v]] = <<>>
  <2>1. v # w /\ pc[v] \in {"handling", "continuing"} /\ cur[v] \in Child /\ cur[v] # c
    BY <1>1, <1>3, <1>4 DEF Shape, OneRunEach
  <2> QED BY <1>3, <2>1 DEF Turns
<1>5. /\ \A d \in Child : kst'[d] = "unborn" => report'[d] = "none" /\ buf'[d] = <<>>
      /\ \A d \in Child : kst'[d] \in {"exec", "running"} /\ result'[d] = "none" =>
           report'[d] = "none" /\ buf'[d] = <<>>
      /\ \A d \in Child : kst'[d] = "stopped" /\ result'[d] = "none" /\ buf'[d] # <<>> =>
           report'[d] = "none" /\ Len(buf'[d]) = 1
      /\ \A d \in Child : rx'[d] = "dropped" => result'[d] # "none"
  BY <1>2, <1>3 DEF Turns
<1> QED BY <1>4, <1>5 DEF Turns

LEMMA StartTurns ==
  ASSUME TurnsInv, NEW w \in Worker, NEW c \in Child, NEW p \in Pid, Start(w, c, p)
  PROVE  Turns'
<1> USE DEF TurnsInv, ExitInv, RunInv, TypeInv, TypeOK
<1>1. kst[c] = "unborn" /\ report[c] = "none" /\ buf[c] = <<>> /\ result[c] = "none"
  BY DEF Start, Turns, OneRunEach
<1>2. /\ \A d \in Child : d # c => kst'[d] = kst[d]
      /\ kst'[c] \in {"exec", "running"}
      /\ \A v \in Worker : v # w => pc'[v] = pc[v] /\ cur'[v] = cur[v]
      /\ pc'[w] = "writing"
      /\ UNCHANGED <<report, buf, rx, result>>
  BY DEF Start, waiterVars
<1>3. ASSUME NEW v \in Worker, pc'[v] \in {"handling", "continuing"}
      PROVE  /\ kst'[cur'[v]] \in {"stopped", "exited", "killed"}
             /\ kst'[cur'[v]] = "stopped" => report'[cur'[v]] = "none" /\ buf'[cur'[v]] = <<>>
  <2>1. v # w /\ pc[v] \in {"handling", "continuing"} /\ cur[v] \in Child /\ cur[v] # c
    BY <1>1, <1>2, <1>3 DEF Shape, OneRunEach
  <2> QED BY <1>2, <2>1 DEF Turns
<1>4. /\ \A d \in Child : kst'[d] = "unborn" => report'[d] = "none" /\ buf'[d] = <<>>
      /\ \A d \in Child : kst'[d] \in {"exec", "running"} /\ result'[d] = "none" =>
           report'[d] = "none" /\ buf'[d] = <<>>
      /\ \A d \in Child : kst'[d] = "stopped" /\ result'[d] = "none" /\ buf'[d] # <<>> =>
           report'[d] = "none" /\ Len(buf'[d]) = 1
      /\ \A d \in Child : rx'[d] = "dropped" => result'[d] # "none"
  BY <1>1, <1>2 DEF Turns
<1> QED BY <1>3, <1>4 DEF Turns

LEMMA WorkerTurns ==
  ASSUME TurnsInv, NEW w \in Worker, WorkerStep(w)
  PROVE  Turns'
<1> USE DEF kernelVars, waiterVars, workerVars
<1>1. CASE StartWaiter(w)
  BY <1>1, StillTurns DEF StartWaiter
<1>2. ASSUME NEW c \in Child, NEW p \in Pid, Start(w, c, p)
      PROVE  Turns'
  BY <1>2, StartTurns
<1>3. CASE WriteInput(w) \/ OpenPerf(w)
  BY <1>3, StillTurns DEF WriteInput, OpenPerf, TurnsInv, ExitInv, RunInv, TypeInv, TypeOK
<1>4. CASE TakeReceiver(w)
  BY <1>4, StillTurns DEF TakeReceiver, TurnsInv, ExitInv, RunInv, TypeInv, TypeOK
<1>5. CASE Receive(w)
  BY <1>5, ReceiveTurns
<1>6. CASE HandlePtraceStop(w) \/ IgnoreStatus(w)
  BY <1>6, StillTurns DEF HandlePtraceStop, IgnoreStatus, TurnsInv, ExitInv, RunInv, TypeInv, TypeOK
<1>7. CASE Unlink(w)
  BY <1>7, StillTurns DEF Unlink, TurnsInv, ExitInv, RunInv, TypeInv, TypeOK
<1>8. CASE Continue(w) \/ Detach(w)
  BY <1>8, GoOnTurns
<1>9. CASE OpenPerfFails(w) \/ HandleStopFails(w)
  BY <1>9, ReturnTurns DEF OpenPerfFails, HandleStopFails, Fail
<1>10. CASE ReadCount(w) \/ ReadOutput(w)
  <2>1. PICK r : r # "none" /\ pc[w] # "idle" /\ EndRun(w, r)
    BY <1>10 DEF ReadCount, ReadOutput
  <2> QED BY <1>10, <2>1, ReturnTurns DEF ReadCount, ReadOutput
<1>11. CASE BrokenPipe(w) \/ TakeReceiverPanics(w) \/ ReceivePanics(w)
            \/ ContinuePanics(w) \/ UnlinkPanics(w)
  <2>1. pc[w] # "idle" /\ Panic(w)
    BY <1>11 DEF BrokenPipe, TakeReceiverPanics, ReceivePanics, ContinuePanics, UnlinkPanics
  <2>2. /\ EndRun(w, "panic") /\ DropHandle(w)
        /\ \A c \in Child : kst'[c] = kst[c] \/ tracer[c] = w
        /\ \A c \in Child : report'[c] \in {report[c], "none"}
    BY <2>1 DEF Panic
  <2>3. \A c \in Child : kst[c] # "unborn" <=> kst'[c] # "unborn"
    BY <2>1, PanicStates DEF TurnsInv, ExitInv, RunInv
  <2> QED BY <2>1, <2>2, <2>3, ReturnTurns
<1> QED
  BY <1>1, <1>2, <1>3, <1>4, <1>5, <1>6, <1>7, <1>8, <1>9, <1>10, <1>11 DEF WorkerStep

LEMMA NextTurns ==
  ASSUME TurnsInv, [Next]_vars, NoReuse
  PROVE  TurnsInv'
<1> SUFFICES Turns'
  BY NextExit, NextCounted DEF TurnsInv
<1> USE DEF kernelVars, waiterVars, workerVars
<1>1. CASE UNCHANGED vars
  BY <1>1, StillTurns DEF vars
<1>2. CASE Finished
  BY <1>1, <1>2 DEF Finished
<1>3. ASSUME NEW c \in Child, ChildStep(c)
      PROVE  Turns'
  BY <1>3, ChildTurns
<1>4. CASE WaiterStep
  BY <1>4, StillTurns, ReapTurns DEF WaiterStep, SigWait, Lock, Drained
<1>5. ASSUME NEW w \in Worker, WorkerStep(w)
      PROVE  Turns'
  BY <1>5, WorkerTurns
<1> QED BY <1>1, <1>2, <1>3, <1>4, <1>5 DEF Next

-----------------------------------------------------------------------------
(* Sequences: the queue of a run is the statuses in its channel, followed by
   the one that waitpid still holds.                                         *)
Names(s) == [i \in 1..Len(s) |-> s[i].status]

LEMMA SameElements ==
  ASSUME NEW S, NEW s \in Seq(S), NEW t \in Seq(S), Len(s) = Len(t),
         \A i \in 1..Len(s) : s[i] = t[i]
  PROVE  s = t
OBVIOUS

LEMMA NamesType ==
  ASSUME NEW s \in Seq(WaitData)
  PROVE  /\ Names(s) \in Seq(Status)
         /\ Len(Names(s)) = Len(s)
         /\ Len(s) \in Nat
         /\ \A i \in 1..Len(s) : Names(s)[i] = s[i].status
<1>1. Len(s) \in Nat
  OBVIOUS
<1>2. \A i \in 1..Len(s) : s[i] \in WaitData
  OBVIOUS
<1>3. \A d \in WaitData : d.status \in Status
  BY DEF WaitData
<1>4. Names(s) \in [1..Len(s) -> Status]
  BY <1>2, <1>3 DEF Names
<1>5. Names(s) \in Seq(Status) /\ Len(Names(s)) = Len(s)
  BY <1>1, <1>4
<1> QED BY <1>1, <1>5 DEF Names

LEMMA NamesEmpty == Names(<<>>) = <<>>
<1>1. <<>> \in Seq(WaitData) /\ Len(<<>>) = 0
  OBVIOUS
<1>2. Names(<<>>) \in Seq(Status) /\ Len(Names(<<>>)) = 0
  BY <1>1, NamesType
<1> QED BY <1>2, EmptyIfNoLength

LEMMA NamesTail ==
  ASSUME NEW s \in Seq(WaitData), s # <<>>
  PROVE  /\ Names(s) # <<>>
         /\ Names(Tail(s)) = Tail(Names(s))
<1>1. /\ Tail(s) \in Seq(WaitData) /\ Len(Tail(s)) = Len(s) - 1
      /\ Len(s) \in Nat /\ Len(s) # 0
      /\ \A i \in 1..Len(Tail(s)) : i + 1 \in 1..Len(s) /\ Tail(s)[i] = s[i + 1]
  BY EmptyIfNoLength, HeadTail
<1>2. /\ Names(s) \in Seq(Status) /\ Len(Names(s)) = Len(s)
      /\ \A i \in 1..Len(s) : Names(s)[i] = s[i].status
  BY NamesType
<1>3. /\ Names(Tail(s)) \in Seq(Status) /\ Len(Names(Tail(s))) = Len(s) - 1
      /\ \A i \in 1..Len(Tail(s)) : Names(Tail(s))[i] = s[i + 1].status
  BY <1>1, NamesType
<1>4. Names(s) # <<>>
  BY <1>1, <1>2
<1>5. /\ Tail(Names(s)) \in Seq(Status) /\ Len(Tail(Names(s))) = Len(s) - 1
      /\ \A i \in 1..Len(Tail(Names(s))) : Tail(Names(s))[i] = Names(s)[i + 1]
  BY <1>2, <1>4, HeadTail
<1>6. \A i \in 1..Len(Names(Tail(s))) : Names(Tail(s))[i] = Tail(Names(s))[i]
  BY <1>1, <1>2, <1>3, <1>5
<1> HIDE DEF Names
<1> QED BY <1>3, <1>4, <1>5, <1>6, SameElements

LEMMA NamesAppend ==
  ASSUME NEW s \in Seq(WaitData), NEW d \in WaitData
  PROVE  Names(Append(s, d)) = Append(Names(s), d.status)
<1>1. /\ Append(s, d) \in Seq(WaitData) /\ Len(Append(s, d)) = Len(s) + 1 /\ Len(s) \in Nat
      /\ \A i \in 1..Len(s) : Append(s, d)[i] = s[i]
      /\ Append(s, d)[Len(s) + 1] = d
  OBVIOUS
<1>2. /\ Names(s) \in Seq(Status) /\ Len(Names(s)) = Len(s)
      /\ \A i \in 1..Len(s) : Names(s)[i] = s[i].status
  BY NamesType
<1>3. /\ Names(Append(s, d)) \in Seq(Status) /\ Len(Names(Append(s, d))) = Len(s) + 1
      /\ \A i \in 1..Len(s) + 1 : Names(Append(s, d))[i] = Append(s, d)[i].status
  BY <1>1, NamesType
<1>4. d.status \in Status
  BY DEF WaitData
<1>5. /\ Append(Names(s), d.status) \in Seq(Status)
      /\ Len(Append(Names(s), d.status)) = Len(s) + 1
      /\ \A i \in 1..Len(s) : Append(Names(s), d.status)[i] = Names(s)[i]
      /\ Append(Names(s), d.status)[Len(s) + 1] = d.status
  BY <1>2, <1>4
<1>6. \A i \in 1..Len(s) + 1 : Names(Append(s, d))[i] = Append(Names(s), d.status)[i]
  BY <1>1, <1>2, <1>3, <1>5
<1> HIDE DEF Names
<1> QED BY <1>3, <1>5, <1>6, SameElements

\* Concatenation with what waitpid still holds: one status, or none.
LEMMA WithPending ==
  ASSUME NEW S, NEW s \in Seq(S), NEW x \in S
  PROVE  /\ s \o <<>> = s
         /\ s \o <<x>> = Append(s, x)
         /\ <<>> \o <<x>> = <<x>>
         /\ s # <<>> => /\ s \o <<x>> # <<>>
                        /\ Tail(s \o <<x>>) = Tail(s) \o <<x>>
OBVIOUS

-----------------------------------------------------------------------------
(* The refinement, child by child: what the abstract state shows of a child
   depends on these four values only.                                        *)
PhaseIn(res, k) ==
  CASE res # "none" -> "closed"
    [] res = "none" /\ k \in Alive -> "open"
    [] OTHER -> k

QueueIn(res, rep, b) ==
  IF res # "none" THEN <<>>
  ELSE Names(b) \o (IF rep = "none" THEN <<>> ELSE <<rep>>)

LEMMA Views ==
  /\ phaseOf = [c \in Child |-> PhaseIn(result[c], kst[c])]
  /\ queueOf = [c \in Child |-> QueueIn(result[c], report[c], buf[c])]
  /\ phaseOf' = [c \in Child |-> PhaseIn(result'[c], kst'[c])]
  /\ queueOf' = [c \in Child |-> QueueIn(result'[c], report'[c], buf'[c])]
BY DEF phaseOf, queueOf, PhaseIn, QueueIn, Statuses, Names

SameView(c) ==
  phaseOf'[c] = phaseOf[c] /\ queueOf'[c] = queueOf[c] /\ result'[c] = result[c]

\* A child goes on or stands still, and after its run whatever it does, unseen.
LEMMA Unseen ==
  ASSUME NEW c \in Child, result'[c] = result[c],
         \/ result[c] # "none"
         \/ /\ kst'[c] = kst[c] \/ {kst[c], kst'[c]} \subseteq Alive
            /\ report'[c] = report[c] /\ buf'[c] = buf[c]
  PROVE  SameView(c)
BY Views DEF SameView, PhaseIn, QueueIn

LEMMA AllSame ==
  ASSUME TypeOK, TypeOK', \A c \in Child : SameView(c)
  PROVE  UNCHANGED <<phaseOf, queueOf, result>>
BY Views DEF TypeOK, SameView

LEMMA OneMoves ==
  ASSUME TypeOK, TypeOK', NEW c \in Child, \A d \in Child : d # c => SameView(d)
  PROVE  /\ phaseOf' = [phaseOf EXCEPT ![c] = phaseOf'[c]]
         /\ queueOf' = [queueOf EXCEPT ![c] = queueOf'[c]]
         /\ result' = [result EXCEPT ![c] = result'[c]]
         /\ phaseOf'[c] = phaseOf[c] => phaseOf' = phaseOf
         /\ queueOf'[c] = queueOf[c] => queueOf' = queueOf
         /\ result'[c] = result[c] => result' = result
<1>1. /\ result = [d \in Child |-> result[d]] /\ result' = [d \in Child |-> result'[d]]
      /\ phaseOf = [d \in Child |-> phaseOf[d]] /\ phaseOf' = [d \in Child |-> phaseOf'[d]]
      /\ queueOf = [d \in Child |-> queueOf[d]] /\ queueOf' = [d \in Child |-> queueOf'[d]]
  BY Views DEF TypeOK
<1>2. \A d \in Child : d # c =>
        phaseOf'[d] = phaseOf[d] /\ queueOf'[d] = queueOf[d] /\ result'[d] = result[d]
  BY DEF SameView
<1>3. phaseOf' = [phaseOf EXCEPT ![c] = phaseOf'[c]]
  BY <1>1, <1>2
<1>4. queueOf' = [queueOf EXCEPT ![c] = queueOf'[c]]
  BY <1>1, <1>2
<1>5. result' = [result EXCEPT ![c] = result'[c]]
  BY <1>1, <1>2
<1>6. phaseOf'[c] = phaseOf[c] => phaseOf' = phaseOf
  BY <1>1, <1>2
<1>7. queueOf'[c] = queueOf[c] => queueOf' = queueOf
  BY <1>1, <1>2
<1>8. result'[c] = result[c] => result' = result
  BY <1>1, <1>2
<1> QED BY <1>3, <1>4, <1>5, <1>6, <1>7, <1>8

\* The queue of a run that has not returned.
LEMMA QueueIs ==
  ASSUME NEW rep \in {"none"} \cup Status, NEW b \in Seq(WaitData)
  PROVE  /\ rep = "none" => QueueIn("none", rep, b) = Names(b)
         /\ rep # "none" => QueueIn("none", rep, b) = Append(Names(b), rep)
         /\ rep # "none" => QueueIn("none", rep, <<>>) = <<rep>>
         /\ QueueIn("none", "none", <<>>) = <<>>
         /\ b # <<>> => /\ QueueIn("none", rep, b) # <<>>
                        /\ QueueIn("none", rep, Tail(b)) = Tail(QueueIn("none", rep, b))
<1>1. Names(b) \in Seq(Status) /\ Names(<<>>) = <<>> /\ <<>> \in Seq(Status)
  BY NamesType, NamesEmpty
<1>2. CASE rep = "none"
  <2>1. QueueIn("none", rep, b) = Names(b)
    BY <1>1, <1>2 DEF QueueIn
  <2>2. QueueIn("none", "none", <<>>) = <<>>
    BY <1>1 DEF QueueIn
  <2>3. ASSUME b # <<>>
        PROVE  /\ Names(b) # <<>> /\ Names(Tail(b)) = Tail(Names(b))
               /\ QueueIn("none", rep, Tail(b)) = Names(Tail(b))
    <3>1. Tail(b) \in Seq(WaitData)
      BY <2>3
    <3>2. Names(Tail(b)) \in Seq(Status)
      BY <3>1, NamesType
    <3> QED BY <1>2, <2>3, <3>2, NamesTail DEF QueueIn
  <2> QED BY <1>2, <2>1, <2>2, <2>3
<1>3. CASE rep # "none"
  <2>1. rep \in Status
    BY <1>3
  <2>2. QueueIn("none", rep, b) = Names(b) \o <<rep>> /\ Names(b) \o <<rep>> = Append(Names(b), rep)
    BY <1>1, <1>3, <2>1, WithPending DEF QueueIn
  <2>3. QueueIn("none", rep, <<>>) = <<rep>>
    BY <1>1, <1>3, <2>1, WithPending DEF QueueIn
  <2>4. QueueIn("none", "none", <<>>) = <<>>
    BY <1>1 DEF QueueIn
  <2>5. ASSUME b # <<>>
        PROVE  /\ Names(b) \o <<rep>> # <<>>
               /\ QueueIn("none", rep, Tail(b)) = Tail(Names(b) \o <<rep>>)
    <3>1. Names(b) # <<>> /\ Names(Tail(b)) = Tail(Names(b))
      BY <2>5, NamesTail
    <3>2. QueueIn("none", rep, Tail(b)) = Tail(Names(b)) \o <<rep>>
      BY <1>3, <3>1 DEF QueueIn
    <3> QED BY <1>1, <2>1, <3>1, <3>2, WithPending
  <2> QED BY <1>3, <2>2, <2>3, <2>4, <2>5
<1> QED BY <1>2, <1>3

Step == Delivery!Next \/ UNCHANGED <<phaseOf, queueOf, result>>

LEMMA ChildImplements ==
  ASSUME TurnsInv, TypeOK', NEW c \in Child, ChildStep(c)
  PROVE  Step
<1> USE DEF TurnsInv, ExitInv, RunInv, TypeInv
<1>1. PICK state \in {"stopped", "exited", "killed"}, s \in Status :
        /\ \/ kst[c] \in {"exec", "running"} /\ state = "stopped" /\ s = "Stopped"
           \/ kst[c] \in {"exec", "running"} /\ state = "exited" /\ s = "Exited"
           \/ kst[c] \in Alive /\ state = "killed" /\ s = "Signaled"
        /\ Change(c, state, s)
  BY DEF ChildStep, ExecTrap, SignalStop, Exit, Kill, Status
<1>2. /\ \A d \in Child : d # c => kst'[d] = kst[d] /\ report'[d] = report[d]
      /\ kst'[c] = state /\ report'[c] = s
      /\ buf' = buf /\ result' = result
  BY <1>1 DEF Change, waiterVars, workerVars, TypeOK
<1>3. \A d \in Child : d # c => SameView(d)
  BY <1>2, Unseen
<1>4. CASE result[c] # "none"
  <2>1. SameView(c)
    BY <1>2, <1>4, Unseen
  <2> QED BY <1>3, <2>1, AllSame DEF Step
<1>5. CASE result[c] = "none"
  <2>1. /\ buf[c] \in Seq(WaitData) /\ report[c] \in {"none"} \cup Status
        /\ kst[c] \in Alive
    BY <1>1 DEF TypeOK, Alive
  <2>2. phaseOf[c] = "open" /\ phaseOf'[c] = (IF state = "stopped" THEN "open" ELSE state)
    BY <1>2, <1>5, <2>1, Views DEF PhaseIn, Alive
  <2>3. /\ queueOf[c] = QueueIn("none", report[c], buf[c])
        /\ queueOf'[c] = QueueIn("none", s, buf[c])
    BY <1>2, <1>5, Views
  <2>4. s # "none"
    BY DEF Status
  <2>5. CASE kst[c] \in {"exec", "running"} /\ s # "Signaled"
    <3>1. report[c] = "none" /\ buf[c] = <<>>
      BY <1>5, <2>5 DEF Turns
    <3>2. queueOf[c] = <<>> /\ queueOf'[c] = <<s>>
      BY <2>1, <2>3, <2>4, <3>1, QueueIs
    <3>3. Delivery!StopOrExit(c)
      BY <1>1, <1>2, <1>3, <2>2, <2>5, <3>2, OneMoves DEF Delivery!StopOrExit
    <3> QED BY <3>3 DEF Step, Delivery!Next
  <2>6. CASE state = "killed" /\ s = "Signaled"
    <3>1. \/ queueOf'[c] = Append(queueOf[c], "Signaled")
          \/ queueOf'[c] = <<"Signaled">>
      <4>1. CASE report[c] = "none"
        BY <2>1, <2>3, <2>4, <2>6, <4>1, QueueIs
      <4>2. CASE report[c] # "none"
        <5>1. buf[c] = <<>>
          BY <1>5, <2>1, <4>2 DEF Turns, Alive
        <5> QED BY <2>1, <2>3, <2>4, <2>6, <5>1, QueueIs
      <4> QED BY <4>1, <4>2
    <3>2. Delivery!Killed(c)
      BY <1>2, <1>3, <2>2, <2>6, <3>1, OneMoves DEF Delivery!Killed
    <3> QED BY <3>2 DEF Step, Delivery!Next
  <2> QED BY <1>1, <2>5, <2>6
<1> QED BY <1>4, <1>5

LEMMA ReapImplements ==
  ASSUME TurnsInv, TypeOK', NEW c \in Child, Reap(c)
  PROVE  Step
<1> USE DEF TurnsInv, ExitInv, RunInv, TypeInv
<1> DEFINE data == [child |-> c, status |-> report[c]]
<1>1. ChannelFor(c) = c /\ report[c] \in Status
  BY ChannelIsOwn DEF Reap, Shape, TypeOK
<1>2. /\ kst' = kst /\ result' = result
      /\ \A d \in Child : report'[d] = IF d = c THEN "none" ELSE report[d]
  BY DEF Reap, workerVars, TypeOK
<1>3. \A d \in Child : d # c => buf'[d] = buf[d]
  BY <1>1 DEF Reap, TypeOK
<1>4. \A d \in Child : d # c => SameView(d)
  BY <1>2, <1>3, Unseen
<1>5. SameView(c)
  <2>1. CASE result[c] # "none"
    BY <1>2, <2>1, Unseen
  <2>2. CASE result[c] = "none"
    <3>1. /\ buf'[c] = Append(buf[c], data)
          /\ buf[c] \in Seq(WaitData) /\ buf'[c] \in Seq(WaitData) /\ data \in WaitData
      <4>1. rx[c] # "dropped"
        BY <2>2 DEF Turns
      <4>2. data \in WaitData
        BY <1>1 DEF WaitData
      <4>3. buf[c] \in Seq(WaitData) /\ buf'[c] \in Seq(WaitData)
        BY DEF TypeOK
      <4>4. buf' = [buf EXCEPT ![c] = Append(buf[c], data)]
        BY <1>1, <4>1 DEF Reap, Sent
      <4> QED BY <4>2, <4>3, <4>4 DEF TypeOK
    <3>2. queueOf[c] = Append(Names(buf[c]), report[c])
      BY <1>1, <2>2, <3>1, Views, QueueIs DEF Status
    <3>3. queueOf'[c] = Names(buf'[c])
      BY <1>2, <2>2, <3>1, Views, QueueIs
    <3>4. Names(buf'[c]) = Append(Names(buf[c]), report[c])
      BY <3>1, NamesAppend
    <3> QED BY <1>2, <3>2, <3>3, <3>4, Views DEF SameView
  <2> QED BY <2>1, <2>2
<1> QED BY <1>4, <1>5, AllSame DEF Step

LEMMA ReceiveImplements ==
  ASSUME TurnsInv, TypeOK', NEW w \in Worker, Receive(w)
  PROVE  Step
<1> USE DEF TurnsInv, ExitInv, RunInv, TypeInv
<1> DEFINE c == recv[w]
<1>1. c \in Child /\ cur[w] = c /\ buf[c] \in Seq(WaitData) /\ buf[c] # <<>>
  BY ConstantsAssumption DEF Receive, TypeOK, Shape, RoutingInv, Routing, OwnEvents
<1>2. /\ \A d \in Child : buf'[d] = IF d = c THEN Tail(buf[c]) ELSE buf[d]
      /\ kst' = kst /\ report' = report /\ result' = result
  BY <1>1 DEF Receive, TypeOK, kernelVars
<1>3. result[c] = "none" /\ report[c] \in {"none"} \cup Status
  BY <1>1 DEF Receive, OneRunEach, TypeOK
<1> HIDE DEF c
<1>4. queueOf[c] # <<>> /\ queueOf'[c] = Tail(queueOf[c]) /\ phaseOf'[c] = phaseOf[c]
  BY <1>1, <1>2, <1>3, Views, QueueIs
<1>5. \A d \in Child : d # c => SameView(d)
  BY <1>2, Unseen
<1>6. Delivery!See(c)
  BY <1>1, <1>2, <1>4, <1>5, OneMoves DEF Delivery!See
<1> QED BY <1>1, <1>6 DEF Step, Delivery!Next

LEMMA ReturnImplements ==
  ASSUME TurnsInv, TypeOK', NEW w \in Worker, pc[w] # "idle",
         NEW r \in {"Ok", "Err", "panic"}, EndRun(w, r),
         r = "Ok" => pc[w] = "reading",
         DropHandle(w) \/ UNCHANGED <<rx, buf>>,
         \A d \in Child : (kst'[d] = kst[d] /\ report'[d] = report[d]) \/ tracer[d] = w
  PROVE  Step
<1> USE DEF TurnsInv, ExitInv, RunInv, TypeInv
<1> DEFINE c == cur[w]
<1>1. c \in Child /\ result[c] = "none" /\ kst[c] # "unborn"
  BY DEF Shape, OneRunEach
<1>2. \A d \in Child : result'[d] = IF d = c THEN r ELSE result[d]
  BY <1>1 DEF EndRun, TypeOK
<1>3. \A d \in Child : d # c => buf'[d] = buf[d]
  BY ConstantsAssumption DEF DropHandle, RoutingInv, Routing, OwnEvents, TypeOK
<1>4. \A d \in Child : d # c /\ result[d] = "none" => kst'[d] = kst[d] /\ report'[d] = report[d]
  BY DEF CountedInv, Counted
<1>5. \A d \in Child : d # c => SameView(d)
  BY <1>2, <1>3, <1>4, Unseen
<1>6. /\ phaseOf[c] \in {"open", "exited", "killed"}
      /\ r = "Ok" => phaseOf[c] = "exited" /\ queueOf[c] = <<>>
  <2>1. phaseOf[c] \in {"open", "exited", "killed"}
    BY <1>1, Views DEF TypeOK, PhaseIn, Alive, Dead
  <2>2. ASSUME r = "Ok"
        PROVE  phaseOf[c] = "exited" /\ queueOf[c] = <<>>
    <3>1. kst[c] = "exited" /\ report[c] = "none" /\ buf[c] = <<>>
      BY <2>2 DEF ExitIsLast, Gone
    <3>2. <<>> \in Seq(WaitData)
      OBVIOUS
    <3> QED BY <1>1, <3>1, <3>2, Views, QueueIs DEF PhaseIn, Alive
  <2> QED BY <2>1, <2>2
<1>7. phaseOf'[c] = "closed" /\ queueOf'[c] = <<>> /\ result'[c] = r
  BY <1>1, <1>2, Views DEF PhaseIn, QueueIn
<1> HIDE DEF c
<1>8. Delivery!Return(c, r)
  BY <1>1, <1>5, <1>6, <1>7, OneMoves DEF Delivery!Return
<1> QED BY <1>1, <1>8 DEF Step, Delivery!Next

\* A step nobody sees: no run returns, no status moves, no child is reported.
LEMMA QuietImplements ==
  ASSUME TypeOK, TypeOK', UNCHANGED <<report, buf, result>>,
         \A c \in Child : kst'[c] = kst[c] \/ {kst[c], kst'[c]} \subseteq Alive
  PROVE  Step
<1>1. \A c \in Child : SameView(c)
  BY Unseen
<1> QED BY <1>1, AllSame DEF Step

LEMMA WorkerImplements ==
  ASSUME TurnsInv, TypeOK', NEW w \in Worker, WorkerStep(w)
  PROVE  Step
<1> USE DEF TurnsInv, ExitInv, RunInv, TypeInv, kernelVars, waiterVars, workerVars
<1>1. CASE StartWaiter(w)
  BY <1>1, QuietImplements DEF StartWaiter
<1>2. ASSUME NEW c \in Child, NEW p \in Pid, Start(w, c, p)
      PROVE  Step
  <2>1. /\ kst[c] = "unborn" /\ kst'[c] \in Alive /\ result[c] = "none"
        /\ \A d \in Child : d # c => kst'[d] = kst[d]
        /\ UNCHANGED <<report, buf, result>>
    BY <1>2 DEF Start, OneRunEach, TypeOK, Alive
  <2>2. \A d \in Child : d # c => SameView(d)
    BY <2>1, Unseen
  <2>3. phaseOf[c] = "unborn" /\ phaseOf'[c] = "open" /\ queueOf'[c] = queueOf[c]
    BY <2>1, Views DEF PhaseIn, Alive
  <2>4. Delivery!Spawn(c)
    BY <2>1, <2>2, <2>3, OneMoves DEF Delivery!Spawn
  <2> QED BY <2>4 DEF Step, Delivery!Next
<1>3. CASE WriteInput(w) \/ TakeReceiver(w) \/ OpenPerf(w)
  BY <1>3, QuietImplements DEF WriteInput, TakeReceiver, OpenPerf
<1>4. CASE Receive(w)
  BY <1>4, ReceiveImplements
<1>5. CASE HandlePtraceStop(w) \/ IgnoreStatus(w)
  BY <1>5, QuietImplements DEF HandlePtraceStop, IgnoreStatus
<1>6. CASE Unlink(w)
  \* The channel is empty already: it held the exit of the child, and no more.
  <2>1. recv[w] \in Child /\ recv[w] = cur[w] /\ buf[recv[w]] = <<>>
    BY <1>6, ConstantsAssumption
       DEF Unlink, Shape, RoutingInv, Routing, OwnEvents, ExitIsLast, Gone
  <2>2. buf' = buf
    BY <1>6, <2>1 DEF Unlink, TypeOK
  <2> QED BY <1>6, <2>2, QuietImplements DEF Unlink
<1>7. CASE Continue(w) \/ Detach(w)
  <2>1. \A c \in Child : kst'[c] = kst[c] \/ {kst[c], kst'[c]} \subseteq Alive
    BY <1>7 DEF Continue, Detach, TypeOK, Alive
  <2> QED BY <1>7, <2>1, QuietImplements DEF Continue, Detach
<1>8. CASE OpenPerfFails(w) \/ HandleStopFails(w)
  BY <1>8, ReturnImplements DEF OpenPerfFails, HandleStopFails, Fail
<1>9. CASE ReadCount(w) \/ ReadOutput(w)
  <2>1. PICK r \in {"Ok", "Err"} : pc[w] = "reading" /\ EndRun(w, r)
    BY <1>9 DEF ReadCount, ReadOutput
  <2> QED BY <1>9, <2>1, ReturnImplements DEF ReadCount, ReadOutput
<1>10. CASE BrokenPipe(w) \/ TakeReceiverPanics(w) \/ ReceivePanics(w)
            \/ ContinuePanics(w) \/ UnlinkPanics(w)
  <2>1. pc[w] # "idle" /\ Panic(w)
    BY <1>10 DEF BrokenPipe, TakeReceiverPanics, ReceivePanics, ContinuePanics, UnlinkPanics
  <2>2. /\ EndRun(w, "panic") /\ DropHandle(w)
        /\ \A c \in Child : (kst'[c] = kst[c] /\ report'[c] = report[c]) \/ tracer[c] = w
    BY <2>1 DEF Panic
  <2> QED BY <2>1, <2>2, ReturnImplements
<1> QED
  BY <1>1, <1>2, <1>3, <1>4, <1>5, <1>6, <1>7, <1>8, <1>9, <1>10 DEF WorkerStep

LEMMA NextImplements ==
  ASSUME TurnsInv, [Next]_vars, NoReuse
  PROVE  Step
<1>1. TypeOK /\ TypeOK'
  BY NextTurns DEF TurnsInv, ExitInv, RunInv, TypeInv
<1> USE DEF kernelVars, waiterVars, workerVars
<1>2. CASE UNCHANGED vars
  BY <1>1, <1>2, QuietImplements DEF vars
<1>3. CASE Finished
  BY <1>2, <1>3 DEF Finished
<1>4. ASSUME NEW c \in Child, ChildStep(c)
      PROVE  Step
  BY <1>1, <1>4, ChildImplements
<1>5. CASE WaiterStep
  BY <1>1, <1>5, QuietImplements, ReapImplements DEF WaiterStep, SigWait, Lock, Drained
<1>6. ASSUME NEW w \in Worker, WorkerStep(w)
      PROVE  Step
  BY <1>1, <1>6, WorkerImplements
<1> QED BY <1>2, <1>3, <1>4, <1>5, <1>6 DEF Next

LEMMA InitImplements == Init => Delivery!Init
<1> SUFFICES ASSUME Init PROVE Delivery!Init
  OBVIOUS
<1>1. <<>> \in Seq(WaitData)
  OBVIOUS
<1>2. \A c \in Child : PhaseIn(result[c], kst[c]) = "unborn"
  BY DEF Init, PhaseIn, Alive
<1>3. \A c \in Child : QueueIn(result[c], report[c], buf[c]) = <<>>
  BY <1>1, QueueIs DEF Init
<1> QED BY <1>2, <1>3, Views DEF Delivery!Init, Init

\* For any number of workers and runs the thread, the signal, the map of
\* channels and the lock do what WaitDelivery promises: each run sees each
\* status of its child, in order and once, and no other.
THEOREM WaiterImplementsDelivery ==
  ASSUME NoReuse
  PROVE  Spec => DeliverySpec
<1>1. TurnsInv /\ [Next]_vars => TurnsInv'
  BY NextTurns
<1>2. TurnsInv /\ [Next]_vars => [Delivery!Next]_(Delivery!deliveryVars)
  BY NextImplements DEF Step, Delivery!deliveryVars
<1> QED
  BY InitTurns, InitImplements, <1>1, <1>2, PTL DEF Spec, DeliverySpec, Delivery!Spec

Listens == {"opening", "receiving", "handling", "continuing", "unlinking"}

-----------------------------------------------------------------------------
(* No run fails                                                            *)

\* What NoRunFails supposes of the runs.
Fine ==
  /\ setting.faults = {}
  /\ \A c \in Child : setting.stdin[c] # "empty" => setting.mode[c] # "Never"

\* Until its first stop is handled, the run finds a traced child alive.
Ready ==
  \A w \in Worker :
    /\ pc[w] = "opening" => Traced(cur[w])
    /\ pc[w] \in {"writing", "registering", "opening"} /\ Traced(cur[w]) =>
         kst[cur[w]] \in {"exec", "stopped"}

\* What a run handles is a stop, and its child still stands still.
Handles ==
  \A w \in Worker :
    /\ pc[w] \in {"handling", "continuing"} => kst[cur[w]] = "stopped" /\ Traced(cur[w])
    /\ pc[w] = "handling" => ev[w].status = "Stopped"

\* A receiver is only ever in the hands of the run it was made for.
InOwnHands ==
  \A c \in Child : rx[c] = "held" =>
    \E w \in Worker : recv[w] = c /\ cur[w] = c /\ pc[w] \in Listens

\* Of a child whose run goes on, stops are all there is before its exit.
NoDeath(c, s) == s # "Signaled" /\ (s = "Stopped" => kst[c] = "stopped")
Coming ==
  \A c \in Child : result[c] = "none" =>
    /\ NoDeath(c, report[c])
    /\ \A i \in 1..Len(buf[c]) : NoDeath(c, buf[c][i].status)

\* Nobody else stops.
OnlyTraced ==
  \A c \in Child :
    /\ tracer[c] # None => Traced(c)
    /\ result[c] = "none" /\ kst[c] \in {"exec", "stopped"} => Traced(c)

AllOk == \A c \in Child : result[c] \in {"none", "Ok"}

Clean == AllOk /\ Ready /\ Handles /\ InOwnHands /\ Coming /\ OnlyTraced

Sound == TurnsInv /\ BlameInv /\ HoldingInv

CleanInv == Sound /\ (Fine => Clean)

LEMMA SettingStays == [Next]_vars => setting' = setting
<1> SUFFICES ASSUME [Next]_vars PROVE setting' = setting
  OBVIOUS
<1> USE DEF kernelVars, waiterVars, workerVars
<1>1. CASE UNCHANGED vars \/ Finished
  BY <1>1 DEF vars, Finished
<1>2. ASSUME NEW c \in Child, ChildStep(c)
      PROVE  setting' = setting
  BY <1>2 DEF ChildStep, ExecTrap, SignalStop, Exit, Kill, Change
<1>3. CASE WaiterStep
  BY <1>3 DEF WaiterStep, SigWait, Lock, Reap, Drained
<1>4. ASSUME NEW w \in Worker, WorkerStep(w)
      PROVE  setting' = setting
  BY <1>4 DEF WorkerStep, StartWaiter, Start, WriteInput, BrokenPipe, TakeReceiver,
     TakeReceiverPanics, OpenPerf, OpenPerfFails, Receive, ReceivePanics, HandleStopFails,
     HandlePtraceStop, Continue, ContinuePanics, Detach, IgnoreStatus, Unlink, UnlinkPanics,
     ReadCount, ReadOutput, Fail, Panic
<1> QED BY <1>1, <1>2, <1>3, <1>4 DEF Next

LEMMA InitClean == Init => CleanInv
<1> SUFFICES ASSUME Init PROVE Clean
  BY InitTurns, InitBlame, InitHolding DEF CleanInv, Sound
<1>1. \A c \in Child : Len(buf[c]) = 0
  BY DEF Init
<1> QED
  BY <1>1 DEF Init, Clean, AllOk, Ready, Handles, InOwnHands, Coming, NoDeath, OnlyTraced

\* None of the ways to fail is open.
LEMMA NobodyFails ==
  ASSUME Sound, Fine, Clean, NEW w \in Worker
  PROVE  /\ ~BrokenPipe(w) /\ ~TakeReceiverPanics(w) /\ ~OpenPerfFails(w)
         /\ ~ReceivePanics(w) /\ ~HandleStopFails(w) /\ ~ContinuePanics(w) /\ ~UnlinkPanics(w)
<1> USE DEF Sound, Fine, Clean
<1>1. ~poisoned /\ \A c \in Child : rx[c] # "dropped"
  BY DEF AllOk, BlameInv, Blame, Failed
<1>2. ~BrokenPipe(w)
  <2> SUFFICES ASSUME BrokenPipe(w) PROVE FALSE
    OBVIOUS
  <2>1. cur[w] \in Child /\ Traced(cur[w]) /\ pc[w] = "writing" /\ kst[cur[w]] \in Dead
    BY DEF BrokenPipe, TurnsInv, ExitInv, RunInv, TypeInv, Shape, Traced
  <2> QED BY <2>1 DEF Ready, Dead
<1>3. ~TakeReceiverPanics(w)
  <2> SUFFICES ASSUME TakeReceiverPanics(w) PROVE FALSE
    OBVIOUS
  <2>1. cur[w] \in Child /\ ChannelFor(cur[w]) = cur[w] /\ pc[w] = "registering"
    BY ChannelIsOwn DEF TakeReceiverPanics, TurnsInv, ExitInv, RunInv, TypeInv, Shape
  <2>2. rx[cur[w]] = "held"
    BY <1>1, <2>1 DEF TakeReceiverPanics
  <2>3. PICK v \in Worker : cur[v] = cur[w] /\ pc[v] \in Listens
    BY <2>1, <2>2 DEF InOwnHands
  <2> QED BY <2>1, <2>3 DEF Listens, TurnsInv, ExitInv, RunInv, OneRunEach
<1>4. ~OpenPerfFails(w)
  BY DEF OpenPerfFails, Ready, Dead
<1>5. ~ReceivePanics(w)
  <2>1. pc[w] = "receiving" => pidOf[cur[w]] \in Pid /\ recv[w] # None
    BY ConstantsAssumption DEF HoldingInv, TypeInv, Shape
  <2>2. pc[w] = "receiving" => ~SenderGone(recv[w])
    BY <2>1 DEF HoldingInv, Holding, SenderGone
  <2> QED BY <2>2 DEF ReceivePanics
<1>6. ~HandleStopFails(w)
  BY DEF HandleStopFails, Handles
<1>7. ~ContinuePanics(w)
  BY DEF ContinuePanics, Handles
<1>8. ~UnlinkPanics(w)
  BY <1>1 DEF UnlinkPanics
<1> QED BY <1>2, <1>3, <1>4, <1>5, <1>6, <1>7, <1>8

-----------------------------------------------------------------------------
LEMMA ChildClean ==
  ASSUME Sound, Fine, Clean, NEW c \in Child, ChildStep(c)
  PROVE  Clean'
<1> USE DEF Sound, Fine, Clean, TurnsInv, ExitInv, RunInv
<1>1. ~Kill(c)
  <2>1. result[c] # "none" => kst[c] = "exited"
    BY DEF AllOk, ExitIsLast, Gone
  <2> QED BY <2>1 DEF Kill
<1>2. PICK state \in {"stopped", "exited"}, s \in {"Stopped", "Exited"} :
        /\ kst[c] \in {"exec", "running"}
        /\ state = "stopped" => s = "Stopped" /\ (kst[c] = "exec" \/ Traced(c))
        /\ state = "exited" => s = "Exited" /\ kst[c] = "running"
        /\ Change(c, state, s)
  BY <1>1 DEF ChildStep, ExecTrap, SignalStop, Exit, OnlyTraced
<1>3. /\ \A d \in Child : d # c => kst'[d] = kst[d] /\ report'[d] = report[d]
      /\ kst'[c] = state /\ report'[c] = s
      /\ UNCHANGED <<setting, tracer, rx, buf, pc, cur, recv, ev, result>>
  BY <1>2 DEF Change, waiterVars, workerVars, TypeInv, TypeOK
<1>4. AllOk' /\ InOwnHands'
  BY <1>3 DEF AllOk, InOwnHands
<1>5. Ready'
  BY <1>2, <1>3 DEF Ready, Traced, TypeInv, Shape
<1>6. Handles'
  BY <1>2, <1>3 DEF Handles, Traced, TypeInv, Shape
<1>7. Coming'
  BY <1>2, <1>3 DEF Coming, NoDeath
<1>8. OnlyTraced'
  BY <1>2, <1>3 DEF OnlyTraced, Traced
<1> QED BY <1>4, <1>5, <1>6, <1>7, <1>8

LEMMA ReapClean ==
  ASSUME Sound, Clean, NEW c \in Child, Reap(c)
  PROVE  Clean'
<1> USE DEF Sound, Clean, TurnsInv, ExitInv, RunInv, TypeInv
<1> DEFINE data == [child |-> c, status |-> report[c]]
<1>1. ChannelFor(c) = c /\ report[c] # "none"
  BY ChannelIsOwn DEF Reap, Shape
<1>2. rx[c] # "dropped"
  BY DEF AllOk, BlameInv, Blame, Failed
<1>3. /\ buf' = [buf EXCEPT ![c] = Append(buf[c], data)] /\ buf \in [Child -> Seq(WaitData)]
      /\ \A d \in Child : rx'[d] = "held" => rx[d] = "held"
      /\ \A d \in Child : report'[d] = IF d = c THEN "none" ELSE report[d]
      /\ UNCHANGED <<setting, kst, tracer, pc, cur, recv, ev, result>>
  BY <1>1, <1>2 DEF Reap, Sent, TypeOK, workerVars
<1>4. data \in WaitData
  BY <1>1 DEF WaitData, TypeOK
<1>5. /\ Len(buf'[c]) = Len(buf[c]) + 1 /\ Len(buf[c]) \in Nat
      /\ \A i \in 1..Len(buf[c]) : buf'[c][i] = buf[c][i]
      /\ buf'[c][Len(buf[c]) + 1] = data
      /\ \A d \in Child : d # c => buf'[d] = buf[d]
  BY <1>3, <1>4
<1>6. AllOk' /\ Ready' /\ Handles' /\ OnlyTraced'
  BY <1>3 DEF AllOk, Ready, Handles, OnlyTraced, Traced
<1>7. InOwnHands'
  BY <1>3 DEF InOwnHands
<1>8. Coming'
  <2> SUFFICES ASSUME NEW d \in Child, result[d] = "none"
               PROVE  /\ NoDeath(d, report'[d])
                      /\ \A i \in 1..Len(buf'[d]) : NoDeath(d, buf'[d][i].status)
    BY <1>3 DEF Coming, NoDeath
  <2>1. CASE d # c
    BY <1>3, <1>5, <2>1 DEF Coming
  <2>2. CASE d = c
    <3>1. NoDeath(c, report'[c])
      BY <1>3 DEF NoDeath
    <3>2. \A i \in 1..Len(buf'[c]) : i \in 1..Len(buf[c]) \/ i = Len(buf[c]) + 1
      BY <1>5
    <3>3. data.status = report[c]
      OBVIOUS
    <3> HIDE DEF data
    <3> QED BY <1>5, <2>2, <3>1, <3>2, <3>3 DEF Coming
  <2> QED BY <2>1, <2>2
<1> QED BY <1>6, <1>7, <1>8

LEMMA StartClean ==
  ASSUME Sound, Clean, NEW w \in Worker, NEW c \in Child, NEW p \in Pid, Start(w, c, p)
  PROVE  Clean'
<1> USE DEF Sound, Clean, TurnsInv, ExitInv, RunInv, TypeInv
<1>1. /\ kst[c] = "unborn" /\ report[c] = "none" /\ buf[c] = <<>> /\ result[c] = "none"
      /\ pc[w] = "idle"
  BY DEF Start, Turns, OneRunEach
<1>2. /\ \A d \in Child : d # c => kst'[d] = kst[d] /\ tracer'[d] = tracer[d]
      /\ kst'[c] = IF Traced(c) THEN "exec" ELSE "running"
      /\ tracer'[c] # None => Traced(c)
      /\ \A v \in Worker : v # w => pc'[v] = pc[v] /\ cur'[v] = cur[v]
      /\ pc'[w] = "writing" /\ cur'[w] = c
      /\ UNCHANGED <<setting, report, buf, rx, recv, ev, result>>
  BY DEF Start, TracerOf, TypeOK, waiterVars
<1>3. \A v \in Worker : v # w /\ pc[v] # "idle" => cur[v] \in Child /\ cur[v] # c
  BY <1>1 DEF Shape, OneRunEach
<1>4. AllOk'
  BY <1>2 DEF AllOk
<1>5. Ready'
  BY <1>2, <1>3 DEF Ready, Traced
<1>6. Handles'
  BY <1>2, <1>3 DEF Handles, Traced
<1>7. InOwnHands'
  <2> SUFFICES ASSUME NEW d \in Child, rx[d] = "held"
               PROVE  \E v \in Worker : recv[v] = d /\ cur'[v] = d /\ pc'[v] \in Listens
    BY <1>2 DEF InOwnHands
  <2>1. PICK v \in Worker : recv[v] = d /\ cur[v] = d /\ pc[v] \in Listens
    BY DEF InOwnHands
  <2> QED BY <1>1, <1>2, <2>1 DEF Listens
<1>8. Coming'
  BY <1>1, <1>2 DEF Coming, NoDeath
<1>9. OnlyTraced'
  BY <1>2 DEF OnlyTraced, Traced
<1> QED BY <1>4, <1>5, <1>6, <1>7, <1>8, <1>9

LEMMA TakeReceiverClean ==
  ASSUME Sound, Clean, NEW w \in Worker, TakeReceiver(w)
  PROVE  Clean'
<1> USE DEF Sound, Clean, TurnsInv, ExitInv, RunInv, TypeInv
<1> DEFINE c == cur[w]
<1>1. c \in Child /\ ChannelFor(c) = c /\ pc[w] = "registering"
  BY ChannelIsOwn DEF TakeReceiver, Shape
<1>2. /\ \A d \in Child : d # c => rx'[d] = rx[d]
      /\ \A v \in Worker : v # w => pc'[v] = pc[v] /\ recv'[v] = recv[v]
      /\ pc'[w] = IF Traced(c) THEN "opening" ELSE "receiving"
      /\ recv'[w] = c
      /\ UNCHANGED <<setting, kst, report, tracer, buf, cur, ev, result>>
  BY <1>1 DEF TakeReceiver, TypeOK, kernelVars
<1>3. AllOk' /\ OnlyTraced' /\ Coming'
  BY <1>2 DEF AllOk, OnlyTraced, Traced, Coming, NoDeath
<1>4. Ready' /\ Handles'
  BY <1>1, <1>2 DEF Ready, Handles, Traced
<1>5. InOwnHands'
  <2> SUFFICES ASSUME NEW d \in Child, rx'[d] = "held"
               PROVE  \E v \in Worker : recv'[v] = d /\ cur[v] = d /\ pc'[v] \in Listens
    BY <1>2 DEF InOwnHands
  <2>1. CASE d = c
    BY <1>2, <2>1 DEF Listens
  <2>2. CASE d # c
    <3>1. PICK v \in Worker : recv[v] = d /\ cur[v] = d /\ pc[v] \in Listens
      BY <1>2, <2>2 DEF InOwnHands
    <3> QED BY <1>2, <2>2, <3>1
  <2> QED BY <2>1, <2>2
<1> QED BY <1>3, <1>4, <1>5

LEMMA ReceiveClean ==
  ASSUME Sound, Clean, NEW w \in Worker, Receive(w)
  PROVE  Clean'
<1> USE DEF Sound, Clean, TurnsInv, ExitInv, RunInv, TypeInv
<1> DEFINE c == recv[w]
<1>1. c \in Child /\ cur[w] = c /\ buf[c] \in Seq(WaitData) /\ buf[c] # <<>> /\ pc[w] = "receiving"
  BY ConstantsAssumption DEF Receive, TypeOK, Shape, RoutingInv, Routing, OwnEvents
<1>2. /\ Head(buf[c]) \in WaitData /\ Head(buf[c]) = buf[c][1] /\ 1 \in 1..Len(buf[c])
      /\ \A i \in 1..Len(Tail(buf[c])) :
           i + 1 \in 1..Len(buf[c]) /\ Tail(buf[c])[i] = buf[c][i + 1]
  BY <1>1, HeadTail
<1>3. /\ \A d \in Child : buf'[d] = IF d = c THEN Tail(buf[c]) ELSE buf[d]
      /\ \A v \in Worker : v # w => pc'[v] = pc[v] /\ ev'[v] = ev[v]
      /\ pc'[w] = AfterStatus(Head(buf[c]).status) /\ ev'[w] = Head(buf[c])
      /\ UNCHANGED <<setting, kst, report, tracer, rx, cur, recv, result>>
  BY <1>1 DEF Receive, TypeOK, kernelVars
<1>4. result[c] = "none"
  BY <1>1 DEF OneRunEach
<1>5. pc'[w] = "handling" =>
        ev'[w].status = "Stopped" /\ kst[c] = "stopped" /\ Traced(c)
  <2>1. Head(buf[c]).status \in Status
    BY <1>2 DEF WaitData
  <2>2. NoDeath(c, Head(buf[c]).status)
    BY <1>1, <1>2, <1>4 DEF Coming
  <2> QED BY <1>1, <1>3, <1>4, <2>1, <2>2 DEF NoDeath, AfterStatus, Status, OnlyTraced
<1>6. pc'[w] \in {"handling", "unlinking"}
  BY <1>3 DEF AfterStatus
<1>7. AllOk' /\ OnlyTraced'
  BY <1>3 DEF AllOk, OnlyTraced, Traced
<1>8. Ready' /\ Handles'
  BY <1>1, <1>3, <1>5, <1>6 DEF Ready, Handles, Traced
<1>9. InOwnHands'
  BY <1>3, <1>6 DEF InOwnHands, Listens
<1>10. Coming'
  <2> SUFFICES ASSUME NEW d \in Child, result[d] = "none"
               PROVE  /\ NoDeath(d, report[d])
                      /\ \A i \in 1..Len(buf'[d]) : NoDeath(d, buf'[d][i].status)
    BY <1>3 DEF Coming, NoDeath
  <2>1. CASE d # c
    BY <1>3, <2>1 DEF Coming
  <2>2. CASE d = c
    <3>1. buf'[c] = Tail(buf[c])
      BY <1>1, <1>3
    <3> QED BY <1>1, <1>2, <2>2, <3>1 DEF Coming
  <2> QED BY <2>1, <2>2
<1> QED BY <1>7, <1>8, <1>9, <1>10

\* The child goes on: it had nothing more to report than its stop.
LEMMA GoOnClean ==
  ASSUME Sound, Clean, NEW w \in Worker, Continue(w) \/ Detach(w)
  PROVE  Clean'
<1> USE DEF Sound, Clean, TurnsInv, ExitInv, RunInv, TypeInv
<1> DEFINE c == cur[w]
<1>1. c \in Child /\ kst[c] = "stopped" /\ pc[w] \in {"handling", "continuing"}
  BY DEF Continue, Detach, Shape
<1>2. report[c] = "none" /\ buf[c] = <<>>
  BY <1>1 DEF Turns
<1>3. /\ \A d \in Child : kst'[d] = IF d = c THEN "running" ELSE kst[d]
      /\ \A d \in Child : tracer'[d] \in {tracer[d], None}
      /\ \A v \in Worker : v # w => pc'[v] = pc[v] /\ ev'[v] = ev[v]
      /\ pc'[w] = "receiving"
      /\ UNCHANGED <<setting, report, buf, rx, cur, recv, result>>
  BY <1>1 DEF Continue, Detach, TypeOK, waiterVars
<1>4. \A v \in Worker : v # w /\ pc[v] # "idle" => cur[v] \in Child /\ cur[v] # c
  BY <1>1 DEF Shape, OneRunEach
<1>5. AllOk' /\ OnlyTraced'
  BY <1>3 DEF AllOk, OnlyTraced, Traced
<1>6. Ready'
  BY <1>3, <1>4 DEF Ready, Traced
<1>7. Handles'
  BY <1>3, <1>4 DEF Handles, Traced
<1>8. InOwnHands'
  BY <1>3 DEF InOwnHands, Listens
<1>9. Coming'
  BY <1>1, <1>2, <1>3 DEF Coming, NoDeath
<1> QED BY <1>5, <1>6, <1>7, <1>8, <1>9

LEMMA UnlinkClean ==
  ASSUME Sound, Clean, NEW w \in Worker, Unlink(w)
  PROVE  Clean'
<1> USE DEF Sound, Clean, TurnsInv, ExitInv, RunInv, TypeInv
<1> DEFINE c == recv[w]
<1>1. c \in Child /\ cur[w] = c /\ pc[w] = "unlinking"
  BY ConstantsAssumption DEF Unlink, TypeOK, Shape, RoutingInv, Routing, OwnEvents
<1>2. /\ \A d \in Child : buf'[d] = IF d = c THEN <<>> ELSE buf[d]
      /\ \A d \in Child : rx'[d] = IF d = c THEN "none" ELSE rx[d]
      /\ \A v \in Worker : v # w => pc'[v] = pc[v] /\ recv'[v] = recv[v]
      /\ pc'[w] = "reading"
      /\ UNCHANGED <<setting, kst, report, tracer, cur, ev, result>>
  BY <1>1 DEF Unlink, TypeOK, kernelVars
<1>3. AllOk' /\ OnlyTraced' /\ Coming'
  BY <1>2 DEF AllOk, OnlyTraced, Traced, Coming, NoDeath
<1>4. Ready' /\ Handles'
  BY <1>1, <1>2 DEF Ready, Handles, Traced
<1>5. InOwnHands'
  BY <1>1, <1>2 DEF InOwnHands
<1> QED BY <1>3, <1>4, <1>5

LEMMA ReturnClean ==
  ASSUME Sound, Clean, NEW w \in Worker, pc[w] = "reading", EndRun(w, "Ok"),
         UNCHANGED <<kernelVars, waiterVars>>
  PROVE  Clean'
<1> USE DEF Sound, Clean, TurnsInv, ExitInv, RunInv, TypeInv
<1> DEFINE c == cur[w]
<1>1. c \in Child
  BY DEF Shape
<1>2. /\ \A d \in Child : result'[d] = IF d = c THEN "Ok" ELSE result[d]
      /\ \A v \in Worker : v # w =>
           pc'[v] = pc[v] /\ cur'[v] = cur[v] /\ recv'[v] = recv[v] /\ ev'[v] = ev[v]
      /\ pc'[w] = "idle"
      /\ UNCHANGED <<setting, kst, report, tracer, rx, buf>>
  BY <1>1 DEF EndRun, TypeOK, kernelVars, waiterVars
<1>3. AllOk' /\ OnlyTraced' /\ Coming'
  BY <1>2 DEF AllOk, OnlyTraced, Traced, Coming, NoDeath
<1>4. Ready' /\ Handles'
  BY <1>2 DEF Ready, Handles, Traced
<1>5. InOwnHands'
  BY <1>2 DEF InOwnHands, Listens
<1> QED BY <1>3, <1>4, <1>5

\* A step within a run that is no event for its child, of the waiter thread, or none.
LEMMA StillClean ==
  ASSUME Sound, Clean,
         UNCHANGED <<setting, kst, report, tracer, rx, buf, cur, recv, ev, result>>,
         \A w \in Worker : \/ pc'[w] = pc[w]
                           \/ pc[w] = "writing" /\ pc'[w] = "registering"
                           \/ pc[w] = "opening" /\ pc'[w] = "receiving"
                           \/ pc[w] = "handling" /\ pc'[w] = "continuing"
  PROVE  Clean'
<1> USE DEF Clean
<1>1. AllOk' /\ OnlyTraced' /\ Coming'
  BY DEF AllOk, OnlyTraced, Traced, Coming, NoDeath
<1>2. Ready' /\ Handles'
  BY DEF Ready, Handles, Traced
<1>3. InOwnHands'
  BY DEF InOwnHands, Listens
<1> QED BY <1>1, <1>2, <1>3

LEMMA WorkerClean ==
  ASSUME Sound, Fine, Clean, NEW w \in Worker, WorkerStep(w)
  PROVE  Clean'
<1>1. CASE StartWaiter(w)
  BY <1>1, StillClean DEF StartWaiter, workerVars
<1>2. ASSUME NEW c \in Child, NEW p \in Pid, Start(w, c, p)
      PROVE  Clean'
  BY <1>2, StartClean
<1>3. CASE WriteInput(w) \/ OpenPerf(w) \/ HandlePtraceStop(w)
  <2>1. pc \in [Worker -> {"idle", "writing", "registering", "opening", "receiving",
                           "handling", "continuing", "unlinking", "reading"}]
    BY DEF Sound, HoldingInv, TypeInv, TypeOK
  <2> QED
    BY <1>3, <2>1, StillClean
       DEF WriteInput, OpenPerf, HandlePtraceStop, kernelVars, waiterVars
<1>4. CASE TakeReceiver(w)
  BY <1>4, TakeReceiverClean
<1>5. CASE Receive(w)
  BY <1>5, ReceiveClean
<1>6. CASE Continue(w) \/ Detach(w)
  BY <1>6, GoOnClean
<1>7. ~IgnoreStatus(w)
  BY DEF IgnoreStatus, Clean, Handles, Traced
<1>8. CASE Unlink(w)
  BY <1>8, UnlinkClean
<1>9. CASE ReadCount(w) \/ ReadOutput(w)
  BY <1>9, ReturnClean DEF ReadCount, ReadOutput, Fine
<1> QED
  BY <1>1, <1>2, <1>3, <1>4, <1>5, <1>6, <1>7, <1>8, <1>9, NobodyFails DEF WorkerStep

LEMMA NextClean ==
  ASSUME NoReuse
  PROVE  CleanInv /\ [Next]_vars => CleanInv'
<1> SUFFICES ASSUME CleanInv, [Next]_vars PROVE CleanInv'
  OBVIOUS
<1>1. Sound'
  BY NextTurns, NextBlame, NextHolding DEF CleanInv, Sound
<1>2. Fine' => Fine
  BY SettingStays DEF Fine
<1> SUFFICES ASSUME Sound, Fine, Clean PROVE Clean'
  BY <1>1, <1>2 DEF CleanInv
<1> USE DEF kernelVars, waiterVars, workerVars
<1>3. CASE UNCHANGED vars \/ Finished
  BY <1>3, StillClean DEF vars, Finished
<1>4. ASSUME NEW c \in Child, ChildStep(c)
      PROVE  Clean'
  BY <1>4, ChildClean
<1>5. CASE WaiterStep
  BY <1>5, StillClean, ReapClean DEF WaiterStep, SigWait, Lock, Drained
<1>6. ASSUME NEW w \in Worker, WorkerStep(w)
      PROVE  Clean'
  BY <1>6, WorkerClean
<1> QED BY <1>3, <1>4, <1>5, <1>6 DEF Next

\* With no timeout, kill or failing call, and input only for traced runs, no
\* run fails: neither the race of a child against the write of its input, nor
\* against perf_event_open, the waiter thread or ptrace is ever lost.
THEOREM CleanRunsSucceed ==
  ASSUME NoReuse
  PROVE  Spec => []NoRunFails
<1>1. CleanInv /\ [Next]_vars => CleanInv'
  BY NextClean
<1>2. CleanInv => NoRunFails
  BY DEF CleanInv, Fine, Clean, AllOk, NoRunFails
<1> QED BY InitClean, <1>1, <1>2, PTL DEF Spec

-----------------------------------------------------------------------------
(* What failed runs leave behind                                           *)

Counting == {"receiving", "handling", "continuing", "unlinking", "reading"}

(* The entry of a run stays in the map from its critical section in
   spawn_process to the one in finish(), and a descriptor open before its run
   has returned is in the hands of the worker of that run.                   *)
Kept ==
  /\ \A w \in Worker : pc[w] \in Listens => procChans[pidOf[cur[w]]] = cur[w]
  /\ \A c \in fds : Traced(c) /\ pidOf[c] \in Pid /\ kst[c] # "unborn"
  /\ \A c \in fds : result[c] = "none" =>
       \E w \in Worker : cur[w] = c /\ pc[w] \in Counting
  /\ LeaksComeTogether

OpeningTraced == \A w \in Worker : pc[w] = "opening" => Traced(cur[w])

LeakInv == RunInv /\ RoutingInv /\ Kept /\ OpeningTraced

LEMMA InitLeak == Init => LeakInv
<1> SUFFICES ASSUME Init PROVE Kept /\ OpeningTraced
  BY InitRun, InitRouting DEF LeakInv
<1> QED BY DEF Init, Kept, LeaksComeTogether, Listens, Counting, OpeningTraced

\* A step that takes no entry out of the map, opens and closes no descriptor,
\* and leaves the workers where they are or moves them on in their runs.
LEMMA QuietLeak ==
  ASSUME LeakInv, UNCHANGED <<setting, pidOf, fds, result, cur>>,
         \A c \in Child : kst'[c] = "unborn" => kst[c] = "unborn",
         \A p \in Pid : procChans[p] # None => procChans'[p] = procChans[p],
         \A w \in Worker : pc'[w] \in Listens => pc[w] \in Listens,
         \A w \in Worker : pc[w] \in Counting => pc'[w] \in Counting
  PROVE  Kept'
<1> USE DEF LeakInv, RunInv, TypeInv, TypeOK
<1>1. ASSUME NEW w \in Worker, pc'[w] \in Listens
      PROVE  procChans'[pidOf'[cur'[w]]] = cur'[w]
  <2>1. cur[w] \in Child /\ pidOf[cur[w]] \in Pid /\ pc[w] \in Listens
    BY <1>1 DEF Shape, Listens
  <2> QED BY <2>1, ConstantsAssumption DEF Kept
<1>2. \A c \in fds' : Traced(c)' /\ pidOf'[c] \in Pid /\ kst'[c] # "unborn"
  BY DEF Kept, Traced
<1>3. \A c \in fds' : result'[c] = "none" =>
        \E w \in Worker : cur'[w] = c /\ pc'[w] \in Counting
  BY DEF Kept
<1>4. ASSUME NEW c \in fds', result'[c] # "none"
      PROVE  result'[c] \in {"Err", "panic"} /\ procChans'[pidOf'[c]] = c
  BY <1>4, ConstantsAssumption DEF Kept, LeaksComeTogether
<1> QED BY <1>1, <1>2, <1>3, <1>4 DEF Kept, LeaksComeTogether

\* A run that gives up while the map has its entry, or before it has a counter.
LEMMA FailLeak ==
  ASSUME LeakInv, NEW w \in Worker, pc[w] \notin {"idle", "reading"},
         NEW r \in {"Err", "panic"}, EndRun(w, r),
         UNCHANGED <<setting, pidOf, procChans, fds>>,
         \A c \in Child : kst[c] # "unborn" <=> kst'[c] # "unborn"
  PROVE  Kept'
<1> USE DEF LeakInv, RunInv, TypeInv
<1>1. /\ \A c \in Child : result'[c] = IF c = cur[w] THEN r ELSE result[c]
      /\ \A v \in Worker : v # w => pc'[v] = pc[v] /\ cur'[v] = cur[v]
      /\ pc'[w] = "idle"
  BY RunOver
<1>2. fds \subseteq Child
  BY DEF TypeOK
<1>3. \A v \in Worker : pc'[v] \in Listens => procChans'[pidOf'[cur'[v]]] = cur'[v]
  BY <1>1 DEF Kept, Listens
<1>4. \A c \in fds' : Traced(c)' /\ pidOf'[c] \in Pid /\ kst'[c] # "unborn"
  BY <1>2 DEF Kept, Traced
<1>5. ASSUME NEW c \in fds', result'[c] = "none"
      PROVE  \E v \in Worker : cur'[v] = c /\ pc'[v] \in Counting
  <2>1. c # cur[w] /\ result[c] = "none"
    BY <1>1, <1>2, <1>5
  <2>2. PICK v \in Worker : cur[v] = c /\ pc[v] \in Counting
    BY <1>5, <2>1 DEF Kept
  <2> QED BY <1>1, <2>1, <2>2
<1>6. ASSUME NEW c \in fds', result'[c] # "none"
      PROVE  result'[c] \in {"Err", "panic"} /\ procChans'[pidOf'[c]] = c
  <2>1. CASE c = cur[w]
    <3>1. result[c] = "none"
      BY <2>1 DEF OneRunEach
    <3>2. PICK v \in Worker : cur[v] = c /\ pc[v] \in Counting
      BY <1>6, <3>1 DEF Kept
    <3>3. v = w
      BY <2>1, <3>2 DEF OneRunEach, Counting
    <3>4. pc[w] \in Listens
      BY <3>2, <3>3 DEF Counting, Listens
    <3> QED BY <1>1, <1>2, <1>6, <2>1, <3>4 DEF Kept
  <2>2. CASE c # cur[w]
    BY <1>1, <1>2, <1>6, <2>2 DEF Kept, LeaksComeTogether
  <2> QED BY <2>1, <2>2
<1> QED BY <1>3, <1>4, <1>5, <1>6 DEF Kept, LeaksComeTogether

\* A run that gets to its count closes the descriptor, if it has one.
LEMMA ReadLeak ==
  ASSUME LeakInv, NEW w \in Worker, ReadCount(w) \/ ReadOutput(w)
  PROVE  Kept'
<1> USE DEF LeakInv, RunInv, TypeInv
<1>1. PICK r : pc[w] = "reading" /\ EndRun(w, r)
  BY DEF ReadCount, ReadOutput
<1>2. /\ \A c \in Child : result'[c] = IF c = cur[w] THEN r ELSE result[c]
      /\ \A v \in Worker : v # w => pc'[v] = pc[v] /\ cur'[v] = cur[v]
      /\ pc'[w] = "idle"
  <2>1. \A c \in Child : kst[c] # "unborn" <=> kst'[c] # "unborn"
    BY DEF ReadCount, ReadOutput, kernelVars
  <2> QED BY <1>1, <2>1, RunOver
<1>3. fds' = fds \ {cur[w]} /\ fds \subseteq Child
  BY DEF ReadCount, ReadOutput, Kept, TypeOK
<1>4. UNCHANGED <<setting, kst, pidOf, procChans>>
  BY DEF ReadCount, ReadOutput, kernelVars, waiterVars
<1>5. \A v \in Worker : pc'[v] \in Listens => procChans'[pidOf'[cur'[v]]] = cur'[v]
  BY <1>2, <1>4 DEF Kept, Listens
<1>6. \A c \in fds' : Traced(c)' /\ pidOf'[c] \in Pid /\ kst'[c] # "unborn"
  BY <1>3, <1>4 DEF Kept, Traced
<1>7. ASSUME NEW c \in fds', result'[c] = "none"
      PROVE  \E v \in Worker : cur'[v] = c /\ pc'[v] \in Counting
  <2>1. c \in fds /\ c # cur[w] /\ result[c] = "none"
    BY <1>2, <1>3, <1>7
  <2>2. PICK v \in Worker : cur[v] = c /\ pc[v] \in Counting
    BY <2>1 DEF Kept
  <2> QED BY <1>2, <2>1, <2>2
<1>8. \A c \in fds' : result'[c] # "none" =>
        result'[c] \in {"Err", "panic"} /\ procChans'[pidOf'[c]] = c
  BY <1>2, <1>3, <1>4 DEF Kept, LeaksComeTogether
<1> QED BY <1>5, <1>6, <1>7, <1>8 DEF Kept, LeaksComeTogether

LEMMA StartLeak ==
  ASSUME LeakInv, NEW w \in Worker, NEW c \in Child, NEW p \in Pid, Start(w, c, p)
  PROVE  Kept'
<1> USE DEF LeakInv, RunInv, TypeInv, TypeOK
<1>1. /\ kst[c] = "unborn" /\ pc[w] = "idle"
      /\ \A d \in Child : d # c => pidOf'[d] = pidOf[d] /\ kst'[d] = kst[d]
      /\ kst'[c] # "unborn"
      /\ \A v \in Worker : v # w => pc'[v] = pc[v] /\ cur'[v] = cur[v]
      /\ pc'[w] = "writing"
      /\ UNCHANGED <<setting, procChans, fds, result>>
  BY DEF Start, waiterVars
<1>2. c \notin fds /\ \A v \in Worker : pc[v] # "idle" => cur[v] # c /\ cur[v] \in Child
  BY <1>1 DEF Kept, OneRunEach, Shape
<1>3. ASSUME NEW v \in Worker, pc'[v] \in Listens
      PROVE  procChans'[pidOf'[cur'[v]]] = cur'[v]
  <2>1. v # w /\ pc[v] \in Listens
    BY <1>1, <1>3 DEF Listens
  <2>2. cur'[v] = cur[v] /\ cur[v] \in Child /\ cur[v] # c
    BY <1>1, <1>2, <2>1 DEF Listens
  <2>3. procChans[pidOf[cur[v]]] = cur[v]
    BY <2>1 DEF Kept
  <2> QED BY <1>1, <2>2, <2>3
<1>4. \A d \in fds' : Traced(d)' /\ pidOf'[d] \in Pid /\ kst'[d] # "unborn"
  BY <1>1, <1>2 DEF Kept, Traced
<1>5. ASSUME NEW d \in fds', result'[d] = "none"
      PROVE  \E v \in Worker : cur'[v] = d /\ pc'[v] \in Counting
  <2>1. PICK v \in Worker : cur[v] = d /\ pc[v] \in Counting
    BY <1>1, <1>5 DEF Kept
  <2> QED BY <1>1, <2>1 DEF Counting
<1>6. ASSUME NEW d \in fds', result'[d] # "none"
      PROVE  result'[d] \in {"Err", "panic"} /\ procChans'[pidOf'[d]] = d
  <2>1. d \in fds /\ d \in Child /\ d # c /\ result[d] # "none"
    BY <1>1, <1>2, <1>6
  <2>2. result[d] \in {"Err", "panic"} /\ procChans[pidOf[d]] = d
    BY <2>1 DEF Kept, LeaksComeTogether
  <2> QED BY <1>1, <2>1, <2>2
<1> QED BY <1>3, <1>4, <1>5, <1>6 DEF Kept, LeaksComeTogether

LEMMA TakeReceiverLeak ==
  ASSUME LeakInv, NEW w \in Worker, TakeReceiver(w)
  PROVE  Kept'
<1> USE DEF LeakInv, RunInv, TypeInv, TypeOK
<1>1. /\ cur[w] \in Child /\ pidOf[cur[w]] \in Pid /\ ChannelFor(cur[w]) = cur[w]
      /\ pc[w] = "registering"
  BY ChannelIsOwn DEF TakeReceiver, Shape
<1>2. /\ \A p \in Pid : procChans'[p] = IF p = pidOf[cur[w]] THEN cur[w] ELSE procChans[p]
      /\ \A v \in Worker : v # w => pc'[v] = pc[v]
      /\ pc'[w] \in {"opening", "receiving"}
      /\ UNCHANGED <<setting, kst, pidOf, cur, fds, result>>
  BY <1>1 DEF TakeReceiver, kernelVars
<1>3. \A v \in Worker : pc[v] # "idle" => cur[v] \in Child /\ pidOf[cur[v]] \in Pid
  BY DEF Shape
<1>4. \A v \in Worker : pc'[v] \in Listens => procChans'[pidOf'[cur'[v]]] = cur'[v]
  <2> SUFFICES ASSUME NEW v \in Worker, pc'[v] \in Listens
               PROVE  procChans'[pidOf[cur[v]]] = cur[v]
    BY <1>2
  <2>1. CASE v = w
    BY <1>1, <1>2, <2>1
  <2>2. CASE v # w
    <3>1. procChans[pidOf[cur[v]]] = cur[v] /\ cur[v] \in Child /\ pidOf[cur[v]] \in Pid
      BY <1>2, <1>3, <2>2 DEF Kept, Listens
    <3>2. cur[v] # cur[w]
      BY <1>1, <1>2, <2>2 DEF OneRunEach, Listens
    <3> QED BY <1>1, <1>2, <3>1, <3>2 DEF RoutingInv, Routing
  <2> QED BY <2>1, <2>2
<1>5. \A c \in fds' : Traced(c)' /\ pidOf'[c] \in Pid /\ kst'[c] # "unborn"
  BY <1>2 DEF Kept, Traced
<1>6. ASSUME NEW c \in fds', result'[c] = "none"
      PROVE  \E v \in Worker : cur'[v] = c /\ pc'[v] \in Counting
  <2>1. PICK v \in Worker : cur[v] = c /\ pc[v] \in Counting
    BY <1>2, <1>6 DEF Kept
  <2> QED BY <1>1, <1>2, <2>1 DEF Counting
<1>7. ASSUME NEW c \in fds', result'[c] # "none"
      PROVE  result'[c] \in {"Err", "panic"} /\ procChans'[pidOf'[c]] = c
  <2>1. c # cur[w] /\ pidOf[c] \in Pid
    BY <1>1, <1>2, <1>7 DEF Kept, OneRunEach
  <2> QED BY <1>1, <1>2, <1>7, <2>1 DEF Kept, LeaksComeTogether, RoutingInv, Routing
<1> QED BY <1>4, <1>5, <1>6, <1>7 DEF Kept, LeaksComeTogether

LEMMA UnlinkLeak ==
  ASSUME LeakInv, NEW w \in Worker, Unlink(w)
  PROVE  Kept'
<1> USE DEF LeakInv, RunInv, TypeInv, TypeOK
<1>1. /\ cur[w] \in Child /\ pidOf[cur[w]] \in Pid /\ ev[w].child = cur[w]
      /\ pc[w] = "unlinking"
  BY ConstantsAssumption DEF Unlink, Shape, RoutingInv, Routing, OwnEvents
<1>2. /\ \A p \in Pid : procChans'[p] = IF p = pidOf[cur[w]] THEN None ELSE procChans[p]
      /\ \A v \in Worker : v # w => pc'[v] = pc[v]
      /\ pc'[w] = "reading"
      /\ UNCHANGED <<setting, kst, pidOf, cur, fds, result>>
  BY <1>1 DEF Unlink, kernelVars
<1>3. ASSUME NEW v \in Worker, pc'[v] \in Listens
      PROVE  procChans'[pidOf'[cur'[v]]] = cur'[v]
  <2>1. v # w /\ pc[v] \in Listens
    BY <1>2, <1>3 DEF Listens
  <2>2. cur[v] # cur[w] /\ cur[v] \in Child /\ pidOf[cur[v]] \in Pid
    BY <1>1, <2>1 DEF OneRunEach, Shape, Listens
  <2> QED BY <1>1, <1>2, <2>1, <2>2 DEF Kept, RoutingInv, Routing
<1>4. \A c \in fds' : Traced(c)' /\ pidOf'[c] \in Pid /\ kst'[c] # "unborn"
  BY <1>2 DEF Kept, Traced
<1>5. ASSUME NEW c \in fds', result'[c] = "none"
      PROVE  \E v \in Worker : cur'[v] = c /\ pc'[v] \in Counting
  <2>1. PICK v \in Worker : cur[v] = c /\ pc[v] \in Counting
    BY <1>2, <1>5 DEF Kept
  <2> QED BY <1>2, <2>1 DEF Counting
<1>6. ASSUME NEW c \in fds', result'[c] # "none"
      PROVE  result'[c] \in {"Err", "panic"} /\ procChans'[pidOf'[c]] = c
  <2>1. c # cur[w] /\ pidOf[c] \in Pid
    BY <1>1, <1>2, <1>6 DEF Kept, OneRunEach
  <2> QED BY <1>1, <1>2, <1>6, <2>1 DEF Kept, LeaksComeTogether, RoutingInv, Routing
<1> QED BY <1>3, <1>4, <1>5, <1>6 DEF Kept, LeaksComeTogether

LEMMA OpenPerfLeak ==
  ASSUME LeakInv, NEW w \in Worker, OpenPerf(w)
  PROVE  Kept'
<1> USE DEF LeakInv, RunInv, TypeInv, TypeOK
<1>1. /\ cur[w] \in Child /\ pidOf[cur[w]] \in Pid /\ pc[w] = "opening"
      /\ result[cur[w]] = "none" /\ kst[cur[w]] # "unborn" /\ Traced(cur[w])
  BY DEF OpenPerf, Shape, OneRunEach, OpeningTraced
<1>2. /\ \A v \in Worker : v # w => pc'[v] = pc[v]
      /\ pc'[w] = "receiving" /\ fds' = fds \cup {cur[w]}
      /\ UNCHANGED <<setting, kst, pidOf, procChans, cur, result>>
  BY <1>1 DEF OpenPerf, kernelVars, waiterVars
<1>3. \A v \in Worker : pc'[v] \in Listens => procChans'[pidOf'[cur'[v]]] = cur'[v]
  BY <1>1, <1>2 DEF Kept, Listens
<1>4. \A c \in fds' : Traced(c)' /\ pidOf'[c] \in Pid /\ kst'[c] # "unborn"
  BY <1>1, <1>2 DEF Kept, Traced
<1>5. ASSUME NEW c \in fds', result'[c] = "none"
      PROVE  \E v \in Worker : cur'[v] = c /\ pc'[v] \in Counting
  <2>1. CASE c = cur[w]
    BY <1>2, <2>1 DEF Counting
  <2>2. CASE c # cur[w]
    <3>1. PICK v \in Worker : cur[v] = c /\ pc[v] \in Counting
      BY <1>2, <1>5, <2>2 DEF Kept
    <3> QED BY <1>1, <1>2, <3>1 DEF Counting
  <2> QED BY <2>1, <2>2
<1>6. \A c \in fds' : result'[c] # "none" =>
        result'[c] \in {"Err", "panic"} /\ procChans'[pidOf'[c]] = c
  BY <1>1, <1>2 DEF Kept, LeaksComeTogether
<1> QED BY <1>3, <1>4, <1>5, <1>6 DEF Kept, LeaksComeTogether

LEMMA WorkerLeak ==
  ASSUME LeakInv, NEW w \in Worker, WorkerStep(w)
  PROVE  Kept'
<1> USE DEF LeakInv, RunInv, TypeInv, TypeOK, kernelVars, waiterVars, workerVars
<1>1. CASE StartWaiter(w)
  BY <1>1, QuietLeak DEF StartWaiter
<1>2. ASSUME NEW c \in Child, NEW p \in Pid, Start(w, c, p)
      PROVE  Kept'
  BY <1>2, StartLeak
<1>3. CASE TakeReceiver(w)
  BY <1>3, TakeReceiverLeak
<1>4. CASE OpenPerf(w)
  BY <1>4, OpenPerfLeak
<1>5. CASE WriteInput(w)
  BY <1>5, QuietLeak DEF WriteInput, Listens, Counting
<1>6. CASE Receive(w)
  BY <1>6, QuietLeak DEF Receive, AfterStatus, Listens, Counting
<1>7. CASE HandlePtraceStop(w) \/ IgnoreStatus(w)
  BY <1>7, QuietLeak DEF HandlePtraceStop, IgnoreStatus, Listens, Counting
<1>8. CASE Continue(w) \/ Detach(w)
  <2>1. \A c \in Child : kst'[c] = "unborn" => kst[c] = "unborn"
    BY <1>8 DEF Continue, Detach
  <2> QED BY <1>8, <2>1, QuietLeak DEF Continue, Detach, Listens, Counting
<1>9. CASE Unlink(w)
  BY <1>9, UnlinkLeak
<1>10. CASE OpenPerfFails(w) \/ HandleStopFails(w)
  BY <1>10, FailLeak DEF OpenPerfFails, HandleStopFails, Fail
<1>11. CASE ReadCount(w) \/ ReadOutput(w)
  BY <1>11, ReadLeak
<1>12. CASE BrokenPipe(w) \/ TakeReceiverPanics(w) \/ ReceivePanics(w)
            \/ ContinuePanics(w) \/ UnlinkPanics(w)
  <2>1. pc[w] \notin {"idle", "reading"} /\ Panic(w)
    BY <1>12 DEF BrokenPipe, TakeReceiverPanics, ReceivePanics, ContinuePanics, UnlinkPanics
  <2> QED BY <2>1, FailLeak, PanicStates DEF Panic
<1> QED
  BY <1>1, <1>2, <1>3, <1>4, <1>5, <1>6, <1>7, <1>8, <1>9, <1>10, <1>11, <1>12 DEF WorkerStep

\* get_perf_fd is called for traced children only.
LEMMA NextOpening ==
  ASSUME LeakInv, [Next]_vars
  PROVE  OpeningTraced'
<1> USE DEF kernelVars, waiterVars, workerVars, Traced, OpeningTraced
<1>1. ASSUME setting' = setting, cur' = cur,
             \A w \in Worker : pc'[w] = "opening" => pc[w] = "opening" \/ Traced(cur[w])
      PROVE  OpeningTraced'
  BY <1>1 DEF LeakInv
<1>2. CASE UNCHANGED vars
  BY <1>1, <1>2 DEF vars
<1>3. CASE Finished
  BY <1>2, <1>3 DEF Finished
<1>4. ASSUME NEW c \in Child, ChildStep(c)
      PROVE  OpeningTraced'
  BY <1>1, <1>4 DEF ChildStep, ExecTrap, SignalStop, Exit, Kill, Change
<1>5. CASE WaiterStep
  BY <1>1, <1>5 DEF WaiterStep, SigWait, Lock, Reap, Drained
<1>6. ASSUME NEW w \in Worker, WorkerStep(w)
      PROVE  OpeningTraced'
  <2> USE <1>6 DEF LeakInv, RunInv, TypeInv, TypeOK
  <2>1. CASE StartWaiter(w)
    BY <2>1, <1>1 DEF StartWaiter
  <2>2. CASE \E c \in Child, p \in Pid : Start(w, c, p)
    BY <2>2 DEF Start
  <2>3. CASE WriteInput(w) \/ TakeReceiver(w) \/ OpenPerf(w)
    BY <2>3, <1>1 DEF WriteInput, TakeReceiver, OpenPerf
  <2>4. CASE Receive(w)
    BY <2>4, <1>1 DEF Receive, AfterStatus
  <2>5. CASE HandlePtraceStop(w) \/ Continue(w) \/ Detach(w) \/ IgnoreStatus(w) \/ Unlink(w)
    BY <2>5, <1>1 DEF HandlePtraceStop, Continue, Detach, IgnoreStatus, Unlink
  <2>6. ASSUME NEW r, EndRun(w, r), setting' = setting
        PROVE  OpeningTraced'
    BY <2>6 DEF EndRun
  <2>7. CASE ReadCount(w) \/ ReadOutput(w) \/ OpenPerfFails(w) \/ HandleStopFails(w)
    BY <2>7, <2>6 DEF ReadCount, ReadOutput, OpenPerfFails, HandleStopFails, Fail
  <2>8. CASE BrokenPipe(w) \/ TakeReceiverPanics(w) \/ ReceivePanics(w)
             \/ ContinuePanics(w) \/ UnlinkPanics(w)
    BY <2>8, <2>6 DEF BrokenPipe, TakeReceiverPanics, ReceivePanics,
       ContinuePanics, UnlinkPanics, Panic
  <2> QED
    BY <1>6, <2>1, <2>2, <2>3, <2>4, <2>5, <2>7, <2>8 DEF WorkerStep
<1> QED BY <1>2, <1>3, <1>4, <1>5, <1>6 DEF Next

LEMMA NextLeak ==
  ASSUME LeakInv, [Next]_vars, NoReuse
  PROVE  LeakInv'
<1> SUFFICES Kept'
  BY NextOneRun, NextRouting, NextOpening DEF LeakInv
<1> USE DEF LeakInv, RunInv, TypeInv, TypeOK, kernelVars, waiterVars, workerVars
<1>1. CASE UNCHANGED vars
  BY <1>1, QuietLeak DEF vars
<1>2. CASE Finished
  BY <1>1, <1>2 DEF Finished
<1>3. ASSUME NEW c \in Child, ChildStep(c)
      PROVE  Kept'
  BY <1>3, QuietLeak DEF ChildStep, ExecTrap, SignalStop, Exit, Kill, Change
<1>4. CASE WaiterStep
  <2>1. ASSUME NEW c \in Child, Reap(c)
        PROVE  Kept'
    BY <2>1, QuietLeak DEF Reap, ChannelFor
  <2> QED BY <1>4, <2>1, QuietLeak DEF WaiterStep, SigWait, Lock, Drained
<1>5. ASSUME NEW w \in Worker, WorkerStep(w)
      PROVE  Kept'
  BY <1>5, WorkerLeak
<1> QED BY <1>1, <1>2, <1>3, <1>4, <1>5 DEF Next

\* A descriptor left open is that of a failed run, whose entry is in the map
\* for as long: a run that gets as far as taking its entry out closes it.
THEOREM LeaksAreOfFailedRuns ==
  ASSUME NoReuse
  PROVE  Spec => []LeaksComeTogether
<1>1. LeakInv /\ [Next]_vars => LeakInv'
  BY NextLeak
<1>2. LeakInv => LeaksComeTogether
  BY DEF LeakInv, Kept
<1> QED BY InitLeak, <1>1, <1>2, PTL DEF Spec
=============================================================================
