------------------------- MODULE ProcessWaiterProofs -------------------------
(***************************************************************************)
(* Theorems about ProcessWaiter, for any number of workers, runs and       *)
(* process ids.                                                            *)
(***************************************************************************)
EXTENDS ProcessWaiter, TLAPS

(* What each step of a worker may rely on: how far it has come says which of
   its fields are set, and whatever has been seen of a child has a pid.      *)
Shape ==
  /\ \A c \in Child : report[c] # "none" \/ kst[c] # "unborn" => pidOf[c] \in Pid
  /\ \A w \in Worker : pc[w] = "idle" =>
       cur[w] = None /\ recv[w] = None /\ ev[w] = None
  /\ \A w \in Worker : pc[w] # "idle" => cur[w] \in Child /\ pidOf[cur[w]] \in Pid
  /\ \A w \in Worker :
       pc[w] \in {"opening", "receiving", "handling", "continuing", "unlinking"}
         => recv[w] \in Child
  /\ \A w \in Worker : pc[w] \in {"handling", "continuing", "unlinking"} =>
       ev[w] \in WaitData /\ pidOf[ev[w].child] \in Pid
  /\ \A c \in Child : \A i \in 1..Len(buf[c]) : pidOf[buf[c][i].child] \in Pid

TypeInv == TypeOK /\ Shape

LEMMA HeadTail ==
  ASSUME NEW S, NEW s \in Seq(S), s # <<>>
  PROVE  /\ Head(s) \in S
         /\ Head(s) = s[1]
         /\ 1 \in 1..Len(s)
         /\ Tail(s) \in Seq(S)
         /\ \A i \in 1..Len(Tail(s)) : i + 1 \in 1..Len(s) /\ Tail(s)[i] = s[i + 1]
  OBVIOUS

LEMMA InitTypeInv == Init => TypeInv
<1> SUFFICES ASSUME Init PROVE TypeInv
  OBVIOUS
<1>1. kst \in [Child -> {"unborn"} \cup Alive \cup Dead]
  BY DEF Init
<1>2. buf \in [Child -> Seq(WaitData)]
  BY DEF Init
<1>3. TypeOK
  BY <1>1, <1>2 DEF Init, TypeOK, Thread
<1>4. \A c \in Child : Len(buf[c]) = 0
  BY DEF Init
<1>5. Shape
  BY <1>4, ConstantsAssumption DEF Init, Shape
<1> QED BY <1>3, <1>5 DEF TypeInv

-----------------------------------------------------------------------------
LEMMA ChildTypeInv ==
  ASSUME TypeInv, NEW c \in Child, ChildStep(c)
  PROVE  TypeInv'
<1> USE DEF TypeInv, TypeOK, Alive, Dead, Status, WaitData
<1>1. PICK state \in {"stopped", "exited", "killed"}, s \in Status :
        kst[c] # "unborn" /\ Change(c, state, s)
  BY DEF ChildStep, ExecTrap, SignalStop, Exit, Kill
<1>2. TypeOK'
  BY <1>1 DEF Change, RaiseSigchld, waiterVars, workerVars
<1>3. Shape'
  BY <1>1 DEF Change, RaiseSigchld, waiterVars, workerVars, Shape
<1> QED BY <1>2, <1>3

LEMMA WaiterTypeInv ==
  ASSUME TypeInv, WaiterStep
  PROVE  TypeInv'
<1> USE DEF TypeInv, TypeOK, Alive, Dead, Status
<1>1. CASE SigWait
  BY <1>1 DEF SigWait, Shape, workerVars
<1>2. CASE Lock
  BY <1>2 DEF Lock, Shape, kernelVars, workerVars
<1>3. ASSUME NEW c \in Child, Reap(c)
      PROVE  TypeInv'
  <2> DEFINE ch == ChannelFor(c)
             data == [child |-> c, status |-> report[c]]
  <2>1. pidOf[c] \in Pid /\ ch \in Child
    BY <1>3 DEF Reap, Shape, ChannelFor
  <2>2. data \in WaitData
    BY <1>3 DEF Reap, WaitData
  <2>3. procChans' \in [Pid -> Child \cup {None}]
    BY <1>3, <2>1 DEF Reap
  <2>4. /\ buf' \in [Child -> Seq(WaitData)]
        /\ rx' \in [Child -> {"none", "map", "held", "dropped"}]
        /\ \A d \in Child : \A i \in 1..Len(buf'[d]) : pidOf[buf'[d][i].child] \in Pid
    <3>1. CASE rx[ch] = "dropped"
      BY <1>3, <3>1 DEF Reap, Shape
    <3>2. CASE rx[ch] # "dropped"
      <4>1. /\ buf' = [buf EXCEPT ![ch] = Append(buf[ch], data)]
            /\ rx' = [rx EXCEPT ![ch] = IF @ = "none" THEN "map" ELSE @]
        BY <1>3, <3>2 DEF Reap, Sent
      <4>2. buf' \in [Child -> Seq(WaitData)]
        BY <4>1, <2>1, <2>2
      <4>3. rx' \in [Child -> {"none", "map", "held", "dropped"}]
        BY <4>1, <2>1
      <4>4. ASSUME NEW d \in Child, NEW i \in 1..Len(buf'[d])
            PROVE  pidOf[buf'[d][i].child] \in Pid
        <5>1. CASE d = ch /\ i = Len(buf[ch]) + 1
          BY <4>1, <2>1, <2>2, <5>1
        <5>2. CASE ~(d = ch /\ i = Len(buf[ch]) + 1)
          BY <4>1, <2>1, <2>2, <5>2 DEF Shape
        <5> QED BY <5>1, <5>2
      <4> QED BY <4>2, <4>3, <4>4
    <3> QED BY <3>1, <3>2
  <2>5. TypeOK'
    BY <1>3, <2>3, <2>4 DEF Reap, workerVars
  <2>6. Shape'
    BY <1>3, <2>1, <2>4 DEF Reap, Shape, workerVars
  <2> QED BY <2>5, <2>6
<1>4. CASE Drained
  BY <1>4 DEF Drained, Shape, kernelVars, workerVars
<1> QED BY <1>1, <1>2, <1>3, <1>4 DEF WaiterStep

-----------------------------------------------------------------------------
(* The two ways in which a run gives up.                                   *)

LEMMA DropHandleType ==
  ASSUME TypeInv, NEW w \in Worker, DropHandle(w)
  PROVE  /\ buf' \in [Child -> Seq(WaitData)]
         /\ rx' \in [Child -> {"none", "map", "held", "dropped"}]
         /\ \A d \in Child : buf'[d] = buf[d] \/ buf'[d] = <<>>
<1> USE DEF TypeInv, TypeOK
<1>1. CASE recv[w] = None
  BY <1>1 DEF DropHandle
<1>2. CASE recv[w] # None
  <2>1. recv[w] \in Child
    BY <1>2
  <2>2. <<>> \in Seq(WaitData)
    OBVIOUS
  <2> QED BY <1>2, <2>1, <2>2 DEF DropHandle
<1> QED BY <1>1, <1>2

LEMMA FailTypeInv ==
  ASSUME TypeInv, NEW w \in Worker, pc[w] # "idle", Fail(w)
  PROVE  TypeInv'
<1> USE DEF TypeInv
<1>1. TypeOK'
  BY DropHandleType DEF Fail, EndRun, kernelVars, TypeOK, Shape
<1>2. Shape'
  BY DropHandleType DEF Fail, EndRun, kernelVars, TypeOK, Shape
<1> QED BY <1>1, <1>2

LEMMA PanicTypeInv ==
  ASSUME TypeInv, NEW w \in Worker, pc[w] # "idle", Panic(w), poisoned' \in BOOLEAN
  PROVE  TypeInv'
<1> USE DEF TypeInv
<1>1. TypeOK'
  BY DropHandleType DEF Panic, EndRun, TypeOK, Shape, Alive
<1>2. Shape'
  BY DropHandleType DEF Panic, EndRun, TypeOK, Shape
<1> QED BY <1>1, <1>2

-----------------------------------------------------------------------------
LEMMA WorkerTypeInv ==
  ASSUME TypeInv, NEW w \in Worker, WorkerStep(w)
  PROVE  TypeInv'
<1> USE DEF TypeInv, TypeOK, Alive, Dead, Status, kernelVars, waiterVars
<1>1. CASE StartWaiter(w)
  BY <1>1 DEF StartWaiter, Shape, workerVars, Thread
<1>2. ASSUME NEW c \in Child, NEW p \in Pid, Start(w, c, p)
      PROVE  TypeInv'
  <2>1. TypeOK'
    BY <1>2 DEF Start, TracerOf
  <2>2. \A d \in Child : pidOf'[d] = IF d = c THEN p ELSE pidOf[d]
    BY <1>2 DEF Start
  <2>3. Shape'
    BY <1>2, <2>2 DEF Start, Shape, WaitData
  <2> QED BY <2>1, <2>3
<1>3. CASE WriteInput(w)
  BY <1>3 DEF WriteInput, Shape
<1>4. CASE BrokenPipe(w)
  BY <1>4, PanicTypeInv DEF BrokenPipe
<1>5. CASE TakeReceiver(w)
  <2>1. cur[w] \in Child /\ pidOf[cur[w]] \in Pid /\ ChannelFor(cur[w]) \in Child
    BY <1>5 DEF TakeReceiver, Shape, ChannelFor
  <2> QED BY <1>5, <2>1 DEF TakeReceiver, Shape
<1>6. CASE TakeReceiverPanics(w)
  BY <1>6, PanicTypeInv DEF TakeReceiverPanics
<1>7. CASE OpenPerf(w)
  BY <1>7 DEF OpenPerf, Shape
<1>8. CASE OpenPerfFails(w)
  BY <1>8, FailTypeInv DEF OpenPerfFails
<1>9. CASE Receive(w)
  <2> DEFINE ch == recv[w]
  <2>1. ch \in Child /\ buf[ch] \in Seq(WaitData) /\ buf[ch] # <<>>
    BY <1>9 DEF Receive, Shape
  <2>2. /\ Head(buf[ch]) \in WaitData
        /\ Head(buf[ch]) = buf[ch][1]
        /\ 1 \in 1..Len(buf[ch])
        /\ Tail(buf[ch]) \in Seq(WaitData)
        /\ \A i \in 1..Len(Tail(buf[ch])) :
             i + 1 \in 1..Len(buf[ch]) /\ Tail(buf[ch])[i] = buf[ch][i + 1]
    BY <2>1, HeadTail
  <2>3. pidOf[Head(buf[ch]).child] \in Pid
    <3>1. \A i \in 1..Len(buf[ch]) : pidOf[buf[ch][i].child] \in Pid
      BY <2>1 DEF Shape
    <3>2. pidOf[buf[ch][1].child] \in Pid
      BY <2>2, <3>1
    <3> QED BY <2>2, <3>2, Zenon
  <2>4. AfterStatus(Head(buf[ch]).status) \in {"handling", "unlinking"}
    BY DEF AfterStatus
  <2>5. TypeOK'
    BY <1>9, <2>1, <2>2, <2>4 DEF Receive
  <2>6. \A d \in Child : \A i \in 1..Len(buf'[d]) : pidOf[buf'[d][i].child] \in Pid
    BY <1>9, <2>1, <2>2 DEF Receive, Shape
  <2>7. Shape'
    BY <1>9, <2>1, <2>2, <2>3, <2>4, <2>6 DEF Receive, Shape
  <2> QED BY <2>5, <2>7
<1>10. CASE ReceivePanics(w)
  BY <1>10, PanicTypeInv DEF ReceivePanics
<1>11. CASE HandleStopFails(w)
  BY <1>11, FailTypeInv DEF HandleStopFails
<1>12. CASE HandlePtraceStop(w)
  BY <1>12 DEF HandlePtraceStop, Shape
<1>13. CASE Continue(w)
  BY <1>13 DEF Continue, Shape
<1>14. CASE ContinuePanics(w)
  BY <1>14, PanicTypeInv DEF ContinuePanics
<1>15. CASE Detach(w)
  BY <1>15 DEF Detach, Shape
<1>16. CASE IgnoreStatus(w)
  BY <1>16 DEF IgnoreStatus, Shape
<1>17. CASE Unlink(w)
  BY <1>17 DEF Unlink, Shape
<1>18. CASE UnlinkPanics(w)
  BY <1>18, PanicTypeInv DEF UnlinkPanics
<1>19. CASE ReadCount(w)
  BY <1>19 DEF ReadCount, EndRun, Shape
<1>20. CASE ReadOutput(w)
  BY <1>20 DEF ReadOutput, EndRun, Shape
<1> QED
  BY <1>1, <1>2, <1>3, <1>4, <1>5, <1>6, <1>7, <1>8, <1>9, <1>10, <1>11, <1>12,
     <1>13, <1>14, <1>15, <1>16, <1>17, <1>18, <1>19, <1>20 DEF WorkerStep

LEMMA NextTypeInv == TypeInv /\ [Next]_vars => TypeInv'
<1> SUFFICES ASSUME TypeInv, [Next]_vars PROVE TypeInv'
  OBVIOUS
<1>1. CASE UNCHANGED vars
  BY <1>1 DEF TypeInv, TypeOK, Shape, vars, kernelVars, waiterVars, workerVars
<1>2. CASE Finished
  BY <1>1, <1>2 DEF Finished
<1> QED
  BY <1>1, <1>2, ChildTypeInv, WaiterTypeInv, WorkerTypeInv DEF Next

\* Every state has its types, and every step of a worker has the fields it
\* relies on: finish() has a channel and a WaitData at hand, waitpid reports
\* only children that have a process id.
THEOREM TypeCorrect == Spec => []TypeOK
<1>1. TypeInv => TypeOK
  BY DEF TypeInv
<1> QED BY InitTypeInv, NextTypeInv, <1>1, PTL DEF Spec

-----------------------------------------------------------------------------
(* OwnEvents.  What makes it inductive: two children never share an id, and
   an entry of the map belongs to the child its channel was made for.        *)
Routing ==
  /\ \A c \in Child : kst[c] = "unborn" => pidOf[c] = None
  /\ \A c, d \in Child : pidOf[c] \in Pid /\ pidOf[c] = pidOf[d] => c = d
  /\ \A p \in Pid : procChans[p] # None => pidOf[procChans[p]] = p
  /\ OwnEvents

RoutingInv == TypeInv /\ Routing

\* Process ids do not come round again.
NoReuse == \A s \in Settings : "pid_reuse" \notin s.faults

\* The channel under the id of a child is that child's own.
LEMMA ChannelIsOwn ==
  ASSUME RoutingInv, NEW c \in Child, pidOf[c] \in Pid
  PROVE  ChannelFor(c) = c
BY DEF RoutingInv, TypeInv, TypeOK, Routing, ChannelFor

LEMMA InitRouting == Init => RoutingInv
<1> SUFFICES ASSUME Init PROVE RoutingInv
  OBVIOUS
<1>1. \A c \in Child : Len(buf[c]) = 0
  BY DEF Init
<1>2. Routing
  BY <1>1, ConstantsAssumption DEF Init, Routing, OwnEvents
<1> QED BY <1>2, InitTypeInv DEF RoutingInv

\* A step that leaves ids and map alone, and neither gives a run a channel or
\* a status nor sends one, cannot disturb Routing.
LEMMA QuietStep ==
  ASSUME RoutingInv, TypeInv',
         \A c \in Child : kst'[c] = "unborn" => kst[c] = "unborn",
         pidOf' = pidOf,
         \A p \in Pid : procChans'[p] \in {procChans[p], None},
         \A c \in Child : buf'[c] = buf[c] \/ buf'[c] = <<>>,
         \A w \in Worker : recv'[w] # None => recv'[w] = recv[w] /\ cur'[w] = cur[w],
         \A w \in Worker : ev'[w] # None => ev'[w] = ev[w] /\ cur'[w] = cur[w]
  PROVE  Routing'
<1> USE DEF RoutingInv
<1>1. \A c \in Child : \A i \in 1..Len(buf'[c]) : buf'[c][i].child = c
  BY DEF Routing, OwnEvents
<1>2. \A p \in Pid : procChans'[p] # None => pidOf'[procChans'[p]] = p
  BY DEF Routing
<1>3. \A w \in Worker : /\ recv'[w] # None => recv'[w] = cur'[w]
                        /\ ev'[w] # None => ev'[w].child = cur'[w]
  BY DEF Routing, OwnEvents
<1> QED BY <1>1, <1>2, <1>3 DEF Routing, OwnEvents

LEMMA ChildRouting ==
  ASSUME RoutingInv, TypeInv', NEW c \in Child, ChildStep(c)
  PROVE  Routing'
<1>1. PICK state \in {"stopped", "exited", "killed"}, s \in Status :
        Change(c, state, s)
  BY DEF ChildStep, ExecTrap, SignalStop, Exit, Kill, Status
<1>2. \A d \in Child : kst'[d] = "unborn" => kst[d] = "unborn"
  BY <1>1 DEF Change, RoutingInv, TypeInv, TypeOK
<1> QED BY <1>1, <1>2, QuietStep DEF Change, waiterVars, workerVars

LEMMA WaiterRouting ==
  ASSUME RoutingInv, TypeInv', WaiterStep
  PROVE  Routing'
<1> USE DEF kernelVars, workerVars
<1>1. CASE SigWait
  BY <1>1, QuietStep DEF SigWait
<1>2. CASE Lock
  BY <1>2, QuietStep DEF Lock
<1>3. ASSUME NEW c \in Child, Reap(c)
      PROVE  Routing'
  <2>1. pidOf[c] \in Pid /\ ChannelFor(c) = c
    BY <1>3, ChannelIsOwn DEF Reap, RoutingInv, TypeInv, Shape
  <2>2. \A p \in Pid : procChans'[p] = IF p = pidOf[c] THEN c ELSE procChans[p]
    BY <1>3, <2>1 DEF Reap, RoutingInv, TypeInv, TypeOK
  <2>3. \A d \in Child : \A i \in 1..Len(buf'[d]) : buf'[d][i].child = d
    <3>1. CASE rx[c] = "dropped"
      BY <1>3, <2>1, <3>1 DEF Reap, RoutingInv, Routing, OwnEvents
    <3>2. CASE rx[c] # "dropped"
      <4> DEFINE data == [child |-> c, status |-> report[c]]
      <4>1. buf' = [buf EXCEPT ![c] = Append(buf[c], data)]
        BY <1>3, <2>1, <3>2 DEF Reap, Sent
      <4>2. data.child = c /\ data \in WaitData
        BY <1>3 DEF Reap, WaitData, Status, RoutingInv, TypeInv, TypeOK
      <4>3. buf \in [Child -> Seq(WaitData)]
        BY DEF RoutingInv, TypeInv, TypeOK
      <4>4. \A d \in Child : \A i \in 1..Len(buf[d]) : buf[d][i].child = d
        BY DEF RoutingInv, Routing, OwnEvents
      <4>5. SUFFICES ASSUME NEW d \in Child, NEW i \in 1..Len(buf'[d])
                     PROVE  buf'[d][i].child = d
        OBVIOUS
      <4>6. CASE d = c /\ i = Len(buf[c]) + 1
        <5>1. buf'[d][i] = data
          BY <4>1, <4>2, <4>3, <4>6
        <5> QED BY <4>2, <4>6, <5>1, Zenon
      <4>7. CASE ~(d = c /\ i = Len(buf[c]) + 1)
        <5>1. i \in 1..Len(buf[d]) /\ buf'[d][i] = buf[d][i]
          BY <4>1, <4>2, <4>3, <4>7
        <5> QED BY <4>4, <5>1
      <4> QED BY <4>6, <4>7
    <3> QED BY <3>1, <3>2
  <2>4. pidOf' = pidOf /\ kst' = kst /\ recv' = recv /\ ev' = ev /\ cur' = cur
    BY <1>3 DEF Reap
  <2> QED BY <2>1, <2>2, <2>3, <2>4 DEF RoutingInv, Routing, OwnEvents
<1>4. CASE Drained
  BY <1>4, QuietStep DEF Drained
<1> QED BY <1>1, <1>2, <1>3, <1>4 DEF WaiterStep

LEMMA FailRouting ==
  ASSUME RoutingInv, TypeInv', NEW w \in Worker, Fail(w)
  PROVE  Routing'
<1>1. \A v \in Worker : /\ recv'[v] # None => recv'[v] = recv[v] /\ cur'[v] = cur[v]
                        /\ ev'[v] # None => ev'[v] = ev[v] /\ cur'[v] = cur[v]
  BY DEF Fail, EndRun, RoutingInv, TypeInv, TypeOK
<1> QED BY <1>1, QuietStep, DropHandleType DEF Fail, kernelVars, RoutingInv

LEMMA PanicRouting ==
  ASSUME RoutingInv, TypeInv', NEW w \in Worker, Panic(w)
  PROVE  Routing'
<1>1. \A v \in Worker : /\ recv'[v] # None => recv'[v] = recv[v] /\ cur'[v] = cur[v]
                        /\ ev'[v] # None => ev'[v] = ev[v] /\ cur'[v] = cur[v]
  BY DEF Panic, EndRun, RoutingInv, TypeInv, TypeOK
<1>2. \A c \in Child : kst'[c] = "unborn" => kst[c] = "unborn"
  BY DEF Panic
<1> QED BY <1>1, <1>2, QuietStep, DropHandleType DEF Panic, RoutingInv

LEMMA WorkerRouting ==
  ASSUME RoutingInv, TypeInv', NEW w \in Worker, WorkerStep(w),
         NoReuse
  PROVE  Routing'
<1> USE DEF kernelVars, waiterVars
<1>1. CASE StartWaiter(w)
  BY <1>1, QuietStep DEF StartWaiter, workerVars
<1>2. ASSUME NEW c \in Child, NEW p \in Pid, Start(w, c, p)
      PROVE  Routing'
  <2>1. /\ \A d \in Child : pidOf[d] # p
        /\ pidOf[c] = None
        /\ recv[w] = None /\ ev[w] = None
    BY <1>2 DEF Start, Assignable, NoReuse, RoutingInv, TypeInv, TypeOK, Shape, Routing
  <2>2. \A d \in Child : pidOf'[d] = IF d = c THEN p ELSE pidOf[d]
    BY <1>2 DEF Start, RoutingInv, TypeInv, TypeOK
  <2>3. \A d \in Child : kst'[d] = "unborn" => d # c /\ kst[d] = "unborn"
    BY <1>2 DEF Start, RoutingInv, TypeInv, TypeOK
  <2>4. \A q \in Pid : procChans[q] # None => procChans[q] \in Child /\ procChans[q] # c
    BY <2>1, ConstantsAssumption DEF RoutingInv, TypeInv, TypeOK, Routing
  <2>5. \A v \in Worker : v # w => cur'[v] = cur[v]
    BY <1>2 DEF Start, RoutingInv, TypeInv, TypeOK
  <2>6. procChans' = procChans /\ recv' = recv /\ ev' = ev /\ buf' = buf
    BY <1>2 DEF Start
  <2>7. OwnEvents'
    BY <2>1, <2>5, <2>6 DEF RoutingInv, Routing, OwnEvents
  <2> QED BY <2>1, <2>2, <2>3, <2>4, <2>6, <2>7 DEF RoutingInv, Routing
<1>3. CASE WriteInput(w)
  BY <1>3, QuietStep DEF WriteInput
<1>4. CASE BrokenPipe(w)
  BY <1>4, PanicRouting DEF BrokenPipe
<1>5. CASE TakeReceiver(w)
  <2>1. cur[w] \in Child /\ pidOf[cur[w]] \in Pid /\ ChannelFor(cur[w]) = cur[w]
    BY <1>5, ChannelIsOwn DEF TakeReceiver, RoutingInv, TypeInv, Shape
  <2>2. /\ \A p \in Pid : procChans'[p] = IF p = pidOf[cur[w]] THEN cur[w] ELSE procChans[p]
        /\ \A v \in Worker : recv'[v] = IF v = w THEN cur[w] ELSE recv[v]
        /\ kst' = kst /\ pidOf' = pidOf /\ buf' = buf /\ cur' = cur /\ ev' = ev
    BY <1>5, <2>1 DEF TakeReceiver, RoutingInv, TypeInv, TypeOK
  <2> QED BY <2>1, <2>2 DEF RoutingInv, Routing, OwnEvents
<1>6. CASE TakeReceiverPanics(w)
  BY <1>6, PanicRouting DEF TakeReceiverPanics
<1>7. CASE OpenPerf(w)
  BY <1>7, QuietStep DEF OpenPerf
<1>8. CASE OpenPerfFails(w)
  BY <1>8, FailRouting DEF OpenPerfFails
<1>9. CASE Receive(w)
  <2> DEFINE ch == recv[w]
  <2>1. ch \in Child /\ ch = cur[w] /\ buf[ch] \in Seq(WaitData) /\ buf[ch] # <<>>
    BY <1>9, ConstantsAssumption
    DEF Receive, RoutingInv, TypeInv, TypeOK, Shape, Routing, OwnEvents
  <2>2. /\ Head(buf[ch]) = buf[ch][1]
        /\ 1 \in 1..Len(buf[ch])
        /\ \A i \in 1..Len(Tail(buf[ch])) :
             i + 1 \in 1..Len(buf[ch]) /\ Tail(buf[ch])[i] = buf[ch][i + 1]
    BY <2>1, HeadTail
  <2>3. \A i \in 1..Len(buf[ch]) : buf[ch][i].child = ch
    BY <2>1 DEF RoutingInv, Routing, OwnEvents
  <2>4. Head(buf[ch]).child = ch
    <3>1. buf[ch][1].child = ch
      BY <2>2, <2>3
    <3> QED BY <2>2, <3>1, Zenon
  <2>5. /\ \A d \in Child : buf'[d] = IF d = ch THEN Tail(buf[ch]) ELSE buf[d]
        /\ \A v \in Worker : ev'[v] = IF v = w THEN Head(buf[ch]) ELSE ev[v]
        /\ kst' = kst /\ pidOf' = pidOf /\ procChans' = procChans
        /\ cur' = cur /\ recv' = recv
    BY <1>9, <2>1 DEF Receive, RoutingInv, TypeInv, TypeOK
  <2>6. \A d \in Child : \A i \in 1..Len(buf'[d]) : buf'[d][i].child = d
    <3>1. \A d \in Child : \A i \in 1..Len(buf[d]) : buf[d][i].child = d
      BY DEF RoutingInv, Routing, OwnEvents
    <3>2. SUFFICES ASSUME NEW d \in Child, NEW i \in 1..Len(buf'[d])
                   PROVE  buf'[d][i].child = d
      OBVIOUS
    <3>3. CASE d = ch
      <4>1. /\ buf'[d] = Tail(buf[ch])
            /\ buf'[d][i] = buf[ch][i + 1]
            /\ i + 1 \in 1..Len(buf[ch])
        BY <2>2, <2>5, <3>3
      <4>2. buf[ch][i + 1].child = ch
        BY <2>3, <4>1
      <4> QED BY <3>3, <4>1, <4>2, Zenon
    <3>4. CASE d # ch
      BY <2>5, <3>1, <3>4
    <3> QED BY <3>3, <3>4
  <2>7. \A v \in Worker : ev'[v] # None => ev'[v].child = cur'[v]
    BY <2>1, <2>4, <2>5 DEF RoutingInv, Routing, OwnEvents
  <2> QED BY <2>5, <2>6, <2>7 DEF RoutingInv, Routing, OwnEvents
<1>10. CASE ReceivePanics(w)
  BY <1>10, PanicRouting DEF ReceivePanics
<1>11. CASE HandleStopFails(w)
  BY <1>11, FailRouting DEF HandleStopFails
<1>12. CASE HandlePtraceStop(w)
  BY <1>12, QuietStep DEF HandlePtraceStop
<1>13. CASE Continue(w)
  BY <1>13, QuietStep DEF Continue, RoutingInv, TypeInv, TypeOK
<1>14. CASE ContinuePanics(w)
  BY <1>14, PanicRouting DEF ContinuePanics
<1>15. CASE Detach(w)
  BY <1>15, QuietStep DEF Detach, RoutingInv, TypeInv, TypeOK
<1>16. CASE IgnoreStatus(w)
  BY <1>16, QuietStep DEF IgnoreStatus, RoutingInv, TypeInv, TypeOK
<1>17. CASE Unlink(w)
  BY <1>17, QuietStep DEF Unlink, RoutingInv, TypeInv, TypeOK
<1>18. CASE UnlinkPanics(w)
  BY <1>18, PanicRouting DEF UnlinkPanics
<1>19. CASE ReadCount(w)
  BY <1>19, QuietStep DEF ReadCount, EndRun, RoutingInv, TypeInv, TypeOK
<1>20. CASE ReadOutput(w)
  BY <1>20, QuietStep DEF ReadOutput, EndRun, RoutingInv, TypeInv, TypeOK
<1> QED
  BY <1>1, <1>2, <1>3, <1>4, <1>5, <1>6, <1>7, <1>8, <1>9, <1>10, <1>11, <1>12,
     <1>13, <1>14, <1>15, <1>16, <1>17, <1>18, <1>19, <1>20 DEF WorkerStep

LEMMA NextRouting ==
  ASSUME NoReuse
  PROVE  RoutingInv /\ [Next]_vars => RoutingInv'
<1> SUFFICES ASSUME RoutingInv, [Next]_vars PROVE RoutingInv'
  OBVIOUS
<1>1. TypeInv'
  BY NextTypeInv DEF RoutingInv
<1>2. CASE UNCHANGED vars
  BY <1>1, <1>2, QuietStep DEF RoutingInv, vars, kernelVars, waiterVars, workerVars
<1>3. CASE Finished
  BY <1>2, <1>3 DEF Finished
<1> QED BY <1>1, <1>2, <1>3, ChildRouting, WaiterRouting, WorkerRouting DEF Next, RoutingInv

\* As long as the kernel does not reuse process ids a run handles statuses of
\* its own child only, whoever of spawn_process and the waiter thread makes the
\* channel (cases 1 and 2 of the comment on spawn_waiting_thread).
THEOREM EventsStayWithTheirRun ==
  ASSUME NoReuse
  PROVE  Spec => []OwnEvents
<1>1. RoutingInv => OwnEvents
  BY DEF RoutingInv, Routing
<1>2. RoutingInv /\ [Next]_vars => RoutingInv'
  BY NextRouting
<1> QED BY InitRouting, <1>1, <1>2, PTL DEF Spec

-----------------------------------------------------------------------------
(* NoMissedWakeup.  It is inductive once SIGCHLD is blocked on every thread: *)
(* the kernel then has nowhere else to deliver it.                           *)
WakeupInv == TypeInv /\ masked = Thread /\ NoMissedWakeup

LEMMA WorkerReports ==
  ASSUME TypeInv, NEW w \in Worker, WorkerStep(w)
  PROVE  /\ \A c \in Child : report'[c] \in {report[c], "none"}
         /\ sigchld' = sigchld
         /\ waiter' = waiter \/ waiter = "unstarted"
         /\ masked \subseteq masked'
<1> USE DEF kernelVars, waiterVars, workerVars
<1>1. Panic(w) => /\ \A c \in Child : report'[c] \in {report[c], "none"}
                  /\ sigchld' = sigchld /\ waiter' = waiter /\ masked' = masked
  BY DEF Panic
<1>2. CASE StartWaiter(w)
  BY <1>2 DEF StartWaiter
<1>3. CASE \E c \in Child, p \in Pid : Start(w, c, p)
  BY <1>3 DEF Start
<1>4. CASE WriteInput(w) \/ TakeReceiver(w) \/ OpenPerf(w) \/ Receive(w)
  BY <1>4 DEF WriteInput, TakeReceiver, OpenPerf, Receive
<1>5. CASE HandlePtraceStop(w) \/ Continue(w) \/ Detach(w) \/ IgnoreStatus(w)
  BY <1>5 DEF HandlePtraceStop, Continue, Detach, IgnoreStatus
<1>6. CASE Unlink(w) \/ ReadCount(w) \/ ReadOutput(w)
  BY <1>6 DEF Unlink, ReadCount, ReadOutput, EndRun
<1>7. CASE OpenPerfFails(w) \/ HandleStopFails(w)
  BY <1>7 DEF OpenPerfFails, HandleStopFails, Fail
<1>8. CASE BrokenPipe(w) \/ TakeReceiverPanics(w) \/ ReceivePanics(w)
           \/ ContinuePanics(w) \/ UnlinkPanics(w)
  <2>1. Panic(w)
    BY <1>8
    DEF BrokenPipe, TakeReceiverPanics, ReceivePanics, ContinuePanics, UnlinkPanics
  <2> QED BY <1>1, <2>1
<1> QED
  BY <1>2, <1>3, <1>4, <1>5, <1>6, <1>7, <1>8 DEF WorkerStep

LEMMA NextWakeup == WakeupInv /\ [Next]_vars => WakeupInv'
<1> SUFFICES ASSUME WakeupInv, [Next]_vars PROVE WakeupInv'
  OBVIOUS
<1>1. TypeInv'
  BY NextTypeInv DEF WakeupInv
<1> USE DEF WakeupInv, NoMissedWakeup
<1>2. CASE UNCHANGED vars \/ Finished
  BY <1>1, <1>2 DEF Finished, vars, kernelVars, waiterVars
<1>3. ASSUME NEW c \in Child, ChildStep(c)
      PROVE  WakeupInv'
  BY <1>1, <1>3
  DEF ChildStep, ExecTrap, SignalStop, Exit, Kill, Change, RaiseSigchld, waiterVars
<1>4. CASE WaiterStep
  <2> USE DEF kernelVars, workerVars
  <2>1. CASE SigWait
    BY <1>1, <2>1 DEF SigWait
  <2>2. CASE Lock
    BY <1>1, <2>2 DEF Lock
  <2>3. CASE \E c \in Child : Reap(c)
    BY <1>1, <2>3 DEF Reap
  <2>4. CASE Drained
    BY <1>1, <2>4 DEF Drained
  <2> QED BY <1>4, <2>1, <2>2, <2>3, <2>4 DEF WaiterStep
<1>5. ASSUME NEW w \in Worker, WorkerStep(w)
      PROVE  WakeupInv'
  <2>1. masked' = Thread
    BY <1>1, <1>5, WorkerReports DEF TypeInv, TypeOK
  <2>2. NoMissedWakeup'
    <3>1. waiter = "unstarted" => sigchld \/ \A c \in Child : report[c] = "none"
      OBVIOUS
    <3> QED BY <1>5, <3>1, WorkerReports
  <2> QED BY <1>1, <2>1, <2>2
<1> QED BY <1>2, <1>3, <1>4, <1>5 DEF Next

\* A program that goes through B7Opts::new, which blocks SIGCHLD before there
\* is any other thread, never leaves a change of state of a child behind.
THEOREM NoStatusLeftBehind ==
  ASSUME Entry = "B7Opts"
  PROVE  Spec => []NoMissedWakeup
<1>1. Init => WakeupInv
  BY InitTypeInv DEF Init, WakeupInv, NoMissedWakeup
<1>2. WakeupInv => NoMissedWakeup
  BY DEF WakeupInv
<1> QED BY <1>1, <1>2, NextWakeup, PTL DEF Spec

-----------------------------------------------------------------------------
(* ChannelsFollowIds and SenderAlive, with ids that come round again.  What a *)
(* run listens on is the entry under its child's id, and nobody else's: the   *)
(* receiver was taken out of the entry, so no later run can have it.          *)
Holding ==
  /\ \A c \in Child : kst[c] = "unborn" => pidOf[c] = None
  /\ \A w \in Worker : recv[w] # None =>
       procChans[pidOf[cur[w]]] = recv[w] /\ rx[recv[w]] = "held"
  /\ \A v, w \in Worker : recv[w] # None /\ recv[v] = recv[w] => v = w
  /\ \A w \in Worker : ev[w] # None => pidOf[ev[w].child] = pidOf[cur[w]]

HoldingInv == TypeInv /\ ChannelsFollowIds /\ Holding

LEMMA InitHolding == Init => HoldingInv
<1> SUFFICES ASSUME Init PROVE HoldingInv
  OBVIOUS
<1>1. \A c \in Child : Len(buf[c]) = 0
  BY DEF Init
<1> QED BY <1>1, InitTypeInv DEF Init, HoldingInv, Holding, ChannelsFollowIds

\* A step that leaves ids, map and channels alone, but for buffers it empties
\* and runs it ends, cannot disturb HoldingInv.
LEMMA QuietHolding ==
  ASSUME HoldingInv, TypeInv',
         \A c \in Child : kst'[c] = "unborn" => kst[c] = "unborn",
         pidOf' = pidOf, procChans' = procChans,
         \A c \in Child : buf'[c] = buf[c] \/ buf'[c] = <<>>,
         \A w \in Worker : recv'[w] # None =>
           recv'[w] = recv[w] /\ cur'[w] = cur[w] /\ rx'[recv[w]] = rx[recv[w]],
         \A w \in Worker : ev'[w] # None => ev'[w] = ev[w] /\ cur'[w] = cur[w]
  PROVE  HoldingInv'
<1> USE DEF HoldingInv, ChannelsFollowIds, Holding
<1>1. \A c \in Child : \A i \in 1..Len(buf'[c]) : pidOf'[buf'[c][i].child] = pidOf'[c]
  OBVIOUS
<1>2. \A p \in Pid : procChans'[p] # None => pidOf'[procChans'[p]] = p
  OBVIOUS
<1>3. \A w \in Worker : recv'[w] # None =>
        /\ pidOf'[recv'[w]] = pidOf'[cur'[w]]
        /\ procChans'[pidOf'[cur'[w]]] = recv'[w]
        /\ rx'[recv'[w]] = "held"
  OBVIOUS
<1>4. \A v, w \in Worker : recv'[w] # None /\ recv'[v] = recv'[w] => v = w
  OBVIOUS
<1>5. \A w \in Worker : ev'[w] # None => pidOf'[ev'[w].child] = pidOf'[cur'[w]]
  OBVIOUS
<1> QED BY <1>1, <1>2, <1>3, <1>4, <1>5

LEMMA ChildHolding ==
  ASSUME HoldingInv, TypeInv', NEW c \in Child, ChildStep(c)
  PROVE  HoldingInv'
<1>1. PICK state \in {"stopped", "exited", "killed"}, s \in Status :
        Change(c, state, s)
  BY DEF ChildStep, ExecTrap, SignalStop, Exit, Kill, Status
<1>2. \A d \in Child : kst'[d] = "unborn" => kst[d] = "unborn"
  BY <1>1 DEF Change, HoldingInv, TypeInv, TypeOK
<1> QED BY <1>1, <1>2, QuietHolding DEF Change, waiterVars, workerVars

\* The channel that entry() finds or makes under the id of a child.
LEMMA ChannelUnderId ==
  ASSUME HoldingInv, NEW c \in Child, pidOf[c] \in Pid
  PROVE  /\ ChannelFor(c) \in Child
         /\ pidOf[ChannelFor(c)] = pidOf[c]
         /\ procChans[pidOf[c]] # None => ChannelFor(c) = procChans[pidOf[c]]
BY DEF HoldingInv, TypeInv, TypeOK, ChannelsFollowIds, ChannelFor

LEMMA ReapHolding ==
  ASSUME HoldingInv, TypeInv', NEW c \in Child, Reap(c)
  PROVE  HoldingInv'
<1> DEFINE ch == ChannelFor(c)
           data == [child |-> c, status |-> report[c]]
<1>1. /\ pidOf[c] \in Pid
      /\ ch \in Child
      /\ pidOf[ch] = pidOf[c]
      /\ procChans[pidOf[c]] # None => ch = procChans[pidOf[c]]
  <2>1. pidOf[c] \in Pid
    BY DEF Reap, HoldingInv, TypeInv, Shape
  <2> QED BY <2>1, ChannelUnderId
<1>2. /\ \A p \in Pid : procChans'[p] = IF p = pidOf[c] THEN ch ELSE procChans[p]
      /\ pidOf' = pidOf /\ kst' = kst /\ cur' = cur /\ recv' = recv /\ ev' = ev
  BY <1>1 DEF Reap, HoldingInv, TypeInv, TypeOK, workerVars
<1>3. \A d \in Child : rx[d] = "held" => rx'[d] = "held"
  BY <1>1 DEF Reap, HoldingInv, TypeInv, TypeOK
<1>4. \A d \in Child : \A i \in 1..Len(buf[d]) : pidOf[buf[d][i].child] = pidOf[d]
  BY DEF HoldingInv, ChannelsFollowIds
<1>5. \A d \in Child : \A i \in 1..Len(buf'[d]) : pidOf[buf'[d][i].child] = pidOf[d]
  <2>1. CASE rx[ch] = "dropped"
    BY <1>4, <2>1 DEF Reap
  <2>2. CASE rx[ch] # "dropped"
    <3>1. buf' = [buf EXCEPT ![ch] = Append(buf[ch], data)]
      BY <2>2 DEF Reap, Sent
    <3>2. data.child = c /\ data \in WaitData /\ buf \in [Child -> Seq(WaitData)]
      BY DEF Reap, WaitData, Status, HoldingInv, TypeInv, TypeOK
    <3>3. SUFFICES ASSUME NEW d \in Child, NEW i \in 1..Len(buf'[d])
                   PROVE  pidOf[buf'[d][i].child] = pidOf[d]
      OBVIOUS
    <3>4. CASE d = ch /\ i = Len(buf[ch]) + 1
      <4>1. buf'[d][i] = data
        BY <1>1, <3>1, <3>2, <3>4
      <4>2. pidOf[data.child] = pidOf[ch]
        BY <1>1, <3>2
      <4> QED BY <3>4, <4>1, <4>2, Zenon
    <3>5. CASE ~(d = ch /\ i = Len(buf[ch]) + 1)
      <4>1. i \in 1..Len(buf[d]) /\ buf'[d][i] = buf[d][i]
        BY <1>1, <3>1, <3>2, <3>5
      <4> QED BY <1>4, <4>1
    <3> QED BY <3>4, <3>5
  <2> QED BY <2>1, <2>2
<1>6. \A w \in Worker : recv[w] # None =>
        recv[w] \in Child /\ pidOf[cur[w]] \in Pid /\ procChans[pidOf[cur[w]]] = recv[w]
  BY DEF HoldingInv, TypeInv, TypeOK, Shape, Holding
<1>7. \A w \in Worker : recv[w] # None => procChans'[pidOf[cur[w]]] = recv[w]
  BY <1>1, <1>2, <1>6
<1>8. ChannelsFollowIds'
  BY <1>1, <1>2, <1>5 DEF HoldingInv, ChannelsFollowIds
<1>9. Holding'
  BY <1>2, <1>3, <1>6, <1>7 DEF HoldingInv, Holding
<1> QED BY <1>8, <1>9 DEF HoldingInv

LEMMA WaiterHolding ==
  ASSUME HoldingInv, TypeInv', WaiterStep
  PROVE  HoldingInv'
<1> USE DEF kernelVars, workerVars
<1>1. CASE SigWait
  BY <1>1, QuietHolding DEF SigWait
<1>2. CASE Lock
  BY <1>2, QuietHolding DEF Lock
<1>3. CASE Drained
  BY <1>3, QuietHolding DEF Drained
<1> QED BY <1>1, <1>2, <1>3, ReapHolding DEF WaiterStep

LEMMA DropHolding ==
  ASSUME HoldingInv, NEW w \in Worker, DropHandle(w), NEW v \in Worker,
         v # w, recv[v] # None
  PROVE  rx'[recv[v]] = rx[recv[v]]
<1>1. recv[w] # recv[v]
  BY DEF HoldingInv, Holding
<1> QED BY <1>1 DEF DropHandle, HoldingInv, TypeInv, TypeOK

\* A run that ends holds nothing any more, whatever it returns.
LEMMA EndHolding ==
  ASSUME HoldingInv, NEW w \in Worker, NEW r, EndRun(w, r)
  PROVE  /\ recv'[w] = None /\ ev'[w] = None
         /\ \A v \in Worker : v # w =>
              recv'[v] = recv[v] /\ ev'[v] = ev[v] /\ cur'[v] = cur[v]
BY DEF EndRun, HoldingInv, TypeInv, TypeOK

LEMMA FailHolding ==
  ASSUME HoldingInv, TypeInv', NEW w \in Worker, Fail(w)
  PROVE  HoldingInv'
<1>1. EndRun(w, "Err") /\ DropHandle(w)
  BY DEF Fail
<1> QED BY <1>1, EndHolding, DropHolding, DropHandleType, QuietHolding
        DEF Fail, kernelVars, HoldingInv

LEMMA PanicHolding ==
  ASSUME HoldingInv, TypeInv', NEW w \in Worker, Panic(w)
  PROVE  HoldingInv'
<1>1. EndRun(w, "panic") /\ DropHandle(w)
  BY DEF Panic
<1>2. \A c \in Child : kst'[c] = "unborn" => kst[c] = "unborn"
  BY DEF Panic
<1> QED BY <1>1, <1>2, EndHolding, DropHolding, DropHandleType, QuietHolding
        DEF Panic, HoldingInv

\* A new run takes an id that no child it could be confused with still has.
LEMMA StartHolding ==
  ASSUME HoldingInv, TypeInv', NEW w \in Worker, NEW c \in Child, NEW p \in Pid,
         Start(w, c, p)
  PROVE  HoldingInv'
<1>1. /\ pidOf[c] = None /\ None \notin Pid
      /\ recv[w] = None /\ ev[w] = None
      /\ pidOf' = [pidOf EXCEPT ![c] = p]
  BY ConstantsAssumption DEF Start, HoldingInv, TypeInv, Shape, Holding
<1>2. /\ procChans' = procChans /\ rx' = rx /\ buf' = buf /\ recv' = recv /\ ev' = ev
      /\ \A v \in Worker : v # w => cur'[v] = cur[v]
  BY DEF Start, waiterVars, HoldingInv, TypeInv, TypeOK
<1>3. \A d \in Child : pidOf[d] \in Pid => pidOf'[d] = pidOf[d]
  BY <1>1 DEF HoldingInv, TypeInv, TypeOK
<1>4. \A d \in Child : kst'[d] = "unborn" => pidOf'[d] = None
  BY <1>1 DEF Start, HoldingInv, TypeInv, TypeOK, Holding
<1>5. ChannelsFollowIds'
  <2>1. \A q \in Pid : procChans'[q] # None => pidOf'[procChans'[q]] = q
    BY <1>2, <1>3 DEF HoldingInv, TypeInv, TypeOK, ChannelsFollowIds
  <2>2. ASSUME NEW d \in Child, NEW i \in 1..Len(buf[d])
        PROVE  pidOf'[buf[d][i].child] = pidOf'[d]
    <3>1. buf[d][i].child \in Child
      <4>1. buf[d] \in Seq(WaitData)
        BY DEF HoldingInv, TypeInv, TypeOK
      <4>2. buf[d][i] \in WaitData
        BY <4>1
      <4> QED BY <4>2 DEF WaitData
    <3>2. pidOf[buf[d][i].child] \in Pid /\ pidOf[buf[d][i].child] = pidOf[d]
      BY DEF HoldingInv, TypeInv, Shape, ChannelsFollowIds
    <3> QED BY <1>3, <3>1, <3>2
  <2>3. ASSUME NEW v \in Worker, recv[v] # None
        PROVE  pidOf'[recv[v]] = pidOf'[cur'[v]]
    <3>1. v # w /\ recv[v] \in Child /\ cur[v] \in Child
      BY <1>1, <2>3 DEF HoldingInv, TypeInv, TypeOK, Shape
    <3>2. pidOf[cur[v]] \in Pid /\ pidOf[recv[v]] = pidOf[cur[v]]
      BY <2>3 DEF HoldingInv, TypeInv, Shape, ChannelsFollowIds
    <3> QED BY <1>2, <1>3, <3>1, <3>2
  <2> QED BY <1>2, <2>1, <2>2, <2>3 DEF ChannelsFollowIds
<1>6. Holding'
  <2>1. ASSUME NEW v \in Worker, recv[v] # None
        PROVE  procChans[pidOf'[cur'[v]]] = recv[v] /\ rx[recv[v]] = "held"
    <3>1. v # w /\ cur[v] \in Child /\ pidOf[cur[v]] \in Pid
      BY <1>1, <2>1 DEF HoldingInv, TypeInv, Shape
    <3> QED BY <1>2, <1>3, <2>1, <3>1 DEF HoldingInv, Holding
  <2>2. ASSUME NEW v \in Worker, ev[v] # None
        PROVE  pidOf'[ev[v].child] = pidOf'[cur'[v]]
    <3>1. v # w /\ cur[v] \in Child /\ pidOf[cur[v]] \in Pid
      BY <1>1, <2>2 DEF HoldingInv, TypeInv, Shape
    <3>2. ev[v].child \in Child /\ pidOf[ev[v].child] = pidOf[cur[v]]
      BY <2>2 DEF HoldingInv, TypeInv, TypeOK, WaitData, Holding
    <3> QED BY <1>2, <1>3, <3>1, <3>2
  <2> QED BY <1>2, <1>4, <2>1, <2>2 DEF HoldingInv, Holding
<1> QED BY <1>5, <1>6 DEF HoldingInv

LEMMA TakeReceiverHolding ==
  ASSUME HoldingInv, TypeInv', NEW w \in Worker, TakeReceiver(w)
  PROVE  HoldingInv'
<1> DEFINE ch == ChannelFor(cur[w])
           p == pidOf[cur[w]]
<1>1. /\ p \in Pid /\ ch \in Child /\ pidOf[ch] = p
      /\ procChans[p] # None => ch = procChans[p]
  <2>1. cur[w] \in Child /\ p \in Pid
    BY DEF TakeReceiver, HoldingInv, TypeInv, Shape
  <2> QED BY <2>1, ChannelUnderId
<1>2. /\ \A q \in Pid : procChans'[q] = IF q = p THEN ch ELSE procChans[q]
      /\ \A d \in Child : rx'[d] = IF d = ch THEN "held" ELSE rx[d]
      /\ \A v \in Worker : recv'[v] = IF v = w THEN ch ELSE recv[v]
      /\ kst' = kst /\ pidOf' = pidOf /\ buf' = buf /\ cur' = cur /\ ev' = ev
  BY <1>1 DEF TakeReceiver, kernelVars, HoldingInv, TypeInv, TypeOK
<1>3. \A v \in Worker : recv[v] # None => recv[v] # ch
  BY <1>1 DEF TakeReceiver, HoldingInv, Holding
<1>4. \A v \in Worker : recv[v] # None => recv[v] \in Child /\ pidOf[cur[v]] \in Pid
  BY DEF HoldingInv, TypeInv, TypeOK, Shape
<1>5. ChannelsFollowIds'
  BY <1>1, <1>2 DEF HoldingInv, ChannelsFollowIds
<1>6. \A v \in Worker : recv'[v] # None =>
        procChans'[pidOf'[cur'[v]]] = recv'[v] /\ rx'[recv'[v]] = "held"
  BY <1>1, <1>2, <1>3, <1>4 DEF HoldingInv, Holding
<1>7. \A u, v \in Worker : recv'[v] # None /\ recv'[u] = recv'[v] => u = v
  BY <1>2, <1>3 DEF HoldingInv, Holding
<1> QED BY <1>2, <1>5, <1>6, <1>7 DEF HoldingInv, Holding

LEMMA ReceiveHolding ==
  ASSUME HoldingInv, TypeInv', NEW w \in Worker, Receive(w)
  PROVE  HoldingInv'
<1> DEFINE ch == recv[w]
<1>1. ch \in Child /\ ch # None /\ buf[ch] \in Seq(WaitData) /\ buf[ch] # <<>>
  BY ConstantsAssumption DEF Receive, HoldingInv, TypeInv, TypeOK, Shape
<1>2. /\ Head(buf[ch]) = buf[ch][1]
      /\ 1 \in 1..Len(buf[ch])
      /\ \A i \in 1..Len(Tail(buf[ch])) :
           i + 1 \in 1..Len(buf[ch]) /\ Tail(buf[ch])[i] = buf[ch][i + 1]
  BY <1>1, HeadTail
<1>3. \A d \in Child : \A i \in 1..Len(buf[d]) : pidOf[buf[d][i].child] = pidOf[d]
  BY DEF HoldingInv, ChannelsFollowIds
<1>4. pidOf[Head(buf[ch]).child] = pidOf[cur[w]]
  <2>1. pidOf[buf[ch][1].child] = pidOf[ch]
    BY <1>1, <1>2, <1>3
  <2>2. pidOf[ch] = pidOf[cur[w]]
    BY <1>1 DEF HoldingInv, ChannelsFollowIds
  <2> QED BY <1>2, <2>1, <2>2, Zenon
<1>5. /\ \A d \in Child : buf'[d] = IF d = ch THEN Tail(buf[ch]) ELSE buf[d]
      /\ \A v \in Worker : ev'[v] = IF v = w THEN Head(buf[ch]) ELSE ev[v]
      /\ kst' = kst /\ pidOf' = pidOf /\ procChans' = procChans
      /\ rx' = rx /\ cur' = cur /\ recv' = recv
  BY <1>1 DEF Receive, kernelVars, HoldingInv, TypeInv, TypeOK
<1>6. ASSUME NEW d \in Child, NEW i \in 1..Len(buf'[d])
      PROVE  pidOf[buf'[d][i].child] = pidOf[d]
  <2>1. CASE d = ch
    <3>1. /\ buf'[d] = Tail(buf[ch])
          /\ buf'[d][i] = buf[ch][i + 1]
          /\ i + 1 \in 1..Len(buf[ch])
      BY <1>2, <1>5, <2>1
    <3>2. pidOf[buf[ch][i + 1].child] = pidOf[ch]
      BY <1>1, <1>3, <3>1
    <3> QED BY <2>1, <3>1, <3>2, Zenon
  <2>2. CASE d # ch
    BY <1>3, <1>5, <2>2
  <2> QED BY <2>1, <2>2
<1>7. ChannelsFollowIds'
  BY <1>5, <1>6 DEF HoldingInv, ChannelsFollowIds
<1>8. \A v \in Worker : ev'[v] # None => pidOf[ev'[v].child] = pidOf[cur[v]]
  BY <1>4, <1>5 DEF HoldingInv, Holding
<1> QED BY <1>5, <1>7, <1>8 DEF HoldingInv, Holding

LEMMA UnlinkHolding ==
  ASSUME HoldingInv, TypeInv', NEW w \in Worker, Unlink(w)
  PROVE  HoldingInv'
<1> DEFINE p == pidOf[ev[w].child]
<1>1. recv[w] \in Child /\ recv[w] # None /\ ev[w] # None /\ p \in Pid
  BY ConstantsAssumption DEF Unlink, HoldingInv, TypeInv, TypeOK, Shape, WaitData
<1>2. p = pidOf[cur[w]] /\ procChans[p] = recv[w]
  BY <1>1 DEF HoldingInv, Holding
<1>3. /\ \A q \in Pid : procChans'[q] = IF q = p THEN None ELSE procChans[q]
      /\ \A d \in Child : rx'[d] = IF d = recv[w] THEN "none" ELSE rx[d]
      /\ \A d \in Child : buf'[d] = IF d = recv[w] THEN <<>> ELSE buf[d]
      /\ \A v \in Worker : recv'[v] = IF v = w THEN None ELSE recv[v]
      /\ kst' = kst /\ pidOf' = pidOf /\ cur' = cur /\ ev' = ev
  BY <1>1 DEF Unlink, kernelVars, HoldingInv, TypeInv, TypeOK
<1>4. \A v \in Worker : v # w /\ recv[v] # None =>
        recv[v] # recv[w] /\ pidOf[cur[v]] # p /\ recv[v] \in Child /\ pidOf[cur[v]] \in Pid
  BY <1>1, <1>2 DEF HoldingInv, TypeInv, TypeOK, Shape, Holding
<1>5. \A d \in Child : \A i \in 1..Len(buf'[d]) : pidOf[buf'[d][i].child] = pidOf[d]
  BY <1>3 DEF HoldingInv, ChannelsFollowIds
<1>6. ChannelsFollowIds'
  BY <1>3, <1>5 DEF HoldingInv, ChannelsFollowIds
<1>7. Holding'
  BY <1>3, <1>4 DEF HoldingInv, Holding
<1> QED BY <1>6, <1>7 DEF HoldingInv

LEMMA WorkerHolding ==
  ASSUME HoldingInv, TypeInv', NEW w \in Worker, WorkerStep(w)
  PROVE  HoldingInv'
<1> USE DEF kernelVars, waiterVars
<1>1. CASE StartWaiter(w)
  BY <1>1, QuietHolding DEF StartWaiter, workerVars
<1>2. CASE WriteInput(w) \/ OpenPerf(w) \/ HandlePtraceStop(w)
  BY <1>2, QuietHolding DEF WriteInput, OpenPerf, HandlePtraceStop
<1>3. CASE Continue(w)
  BY <1>3, QuietHolding DEF Continue, HoldingInv, TypeInv, TypeOK
<1>4. CASE Detach(w)
  BY <1>4, QuietHolding DEF Detach, HoldingInv, TypeInv, TypeOK
<1>5. CASE IgnoreStatus(w)
  BY <1>5, QuietHolding DEF IgnoreStatus, HoldingInv, TypeInv, TypeOK
<1>6. CASE ReadCount(w) \/ ReadOutput(w)
  BY <1>6, EndHolding, QuietHolding DEF ReadCount, ReadOutput
<1>7. CASE OpenPerfFails(w) \/ HandleStopFails(w)
  BY <1>7, FailHolding DEF OpenPerfFails, HandleStopFails
<1>8. CASE BrokenPipe(w) \/ TakeReceiverPanics(w) \/ ReceivePanics(w)
           \/ ContinuePanics(w) \/ UnlinkPanics(w)
  BY <1>8, PanicHolding
  DEF BrokenPipe, TakeReceiverPanics, ReceivePanics, ContinuePanics, UnlinkPanics
<1> QED
  BY <1>1, <1>2, <1>3, <1>4, <1>5, <1>6, <1>7, <1>8, StartHolding,
     TakeReceiverHolding, ReceiveHolding, UnlinkHolding DEF WorkerStep

LEMMA NextHolding == HoldingInv /\ [Next]_vars => HoldingInv'
<1> SUFFICES ASSUME HoldingInv, [Next]_vars PROVE HoldingInv'
  OBVIOUS
<1>1. TypeInv'
  BY NextTypeInv DEF HoldingInv
<1>2. CASE UNCHANGED vars
  BY <1>1, <1>2, QuietHolding DEF vars, kernelVars, waiterVars, workerVars
<1>3. CASE Finished
  BY <1>2, <1>3 DEF Finished
<1> QED BY <1>1, <1>2, <1>3, ChildHolding, WaiterHolding, WorkerHolding DEF Next

\* Even when ids are reused, a status never gets into the channel of another id.
THEOREM StatusesFollowIds == Spec => []ChannelsFollowIds
<1>1. HoldingInv => ChannelsFollowIds
  BY DEF HoldingInv
<1> QED BY InitHolding, NextHolding, <1>1, PTL DEF Spec

\* Even when ids are reused, recv_timeout never finds the channel disconnected:
\* the expect() in finish() can only be a timeout.
THEOREM NeverDisconnected == Spec => []SenderAlive
<1>1. HoldingInv => SenderAlive
  <2> SUFFICES ASSUME HoldingInv, NEW w \in Worker, pc[w] = "receiving"
               PROVE  \E p \in Pid : procChans[p] = recv[w]
    BY DEF SenderAlive, SenderGone
  <2>1. recv[w] # None /\ pidOf[cur[w]] \in Pid
    BY ConstantsAssumption DEF HoldingInv, TypeInv, Shape
  <2>2. procChans[pidOf[cur[w]]] = recv[w]
    BY <2>1 DEF HoldingInv, Holding
  <2> QED BY <2>1, <2>2
<1> QED BY InitHolding, NextHolding, <1>1, PTL DEF Spec
=============================================================================
