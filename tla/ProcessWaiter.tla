---------------------------- MODULE ProcessWaiter ----------------------------
(***************************************************************************)
(* src/process.rs with its callers in src/perf.rs and src/dynamorio.rs:    *)
(* the global WAITER, its thread, the map of channels it shares with the   *)
(* pool's worker threads, and the way of a worker through one run of the   *)
(* program under test (InstCounter::get_inst_count).                       *)
(*                                                                         *)
(* Three kinds of actors interleave.                                       *)
(*  - The kernel: children start, stop, exit, get killed; SIGCHLD is one   *)
(*    pending bit; waitpid hands out each change of state once; the threads*)
(*    that trace and their tracees.                                        *)
(*  - The waiter thread: sigtimedwait, lock, waitpid until nothing is left.*)
(*  - The workers: spawn_process, get_perf_fd, finish, read the count.     *)
(*                                                                         *)
(* A child is named by a value of Child and not by its process id, since   *)
(* the kernel reuses ids.  So is a channel: it carries the name of the     *)
(* child it was made for, and belongs to a map entry under that child's id.*)
(* The lock of proc_chans is held by the waiter while it drains waitpid;   *)
(* the two other critical sections are single steps and need the waiter    *)
(* not to be draining.                                                     *)
(***************************************************************************)
EXTENDS Naturals, Sequences, FiniteSets

CONSTANTS
  Worker,     \* the threads of the pool
  Child,      \* the runs: one child process each
  Pid,        \* the process ids the kernel hands out
  None,       \* no worker, no channel, no entry
  Entry,      \* "B7Opts": through B7Opts::new; "brute": straight to brute()
  Settings    \* what the runs may be like: a subset of Setting

FaultNames == {"timeout",   \* a run may take longer than its timeout
               "perf",      \* perf_event_open or the read of its fd may fail
               "output",    \* drrun may print no count
               "kill",      \* a child may be killed by a signal at any time
               "pid_reuse"} \* ids come round again within the life of WAITER

Status == {"Stopped", "Exited", "Signaled"}
WaitData == [child : Child, status : Status]

\* The PtraceMode of each run, how much input it writes to its child and how
\* much its child prints (fits: a pipe holds it), and what may go wrong.
Setting ==
  [mode : [Child -> {"Always", "Drop", "Never"}],
   stdin : [Child -> {"empty", "fits", "exceeds"}],
   stdout : [Child -> {"fits", "exceeds"}],
   faults : SUBSET FaultNames]

ASSUME ConstantsAssumption ==
  /\ None \notin Worker \cup Child \cup Pid \cup WaitData
  /\ Entry \in {"B7Opts", "brute"}
  /\ Settings \subseteq Setting

VARIABLES
  \* the kernel
  setting,    \* what the runs are like: chosen once
  kst,        \* state of each child
  report,     \* change of state of a child that waitpid has not returned yet
  pidOf,      \* process id of each child
  tracer,     \* the thread that traces a child
  sigchld,    \* is SIGCHLD pending for the process?
  masked,     \* the threads, the waiter apart, on which SIGCHLD is blocked
  \* WAITER
  waiter,     \* where its thread is
  poisoned,   \* has a thread panicked with the lock of proc_chans held?
  procChans,  \* proc_chans: the channel of the ChanPair under each id
  rx,         \* receiver of each channel: none, in the map, held or dropped
  buf,        \* WaitData sent into each channel and not yet received
  \* the workers
  pc,         \* where each worker is in get_inst_count
  cur,        \* the run it is at
  recv,       \* ProcessHandle::recv
  ev,         \* the WaitData that finish() is handling
  result,     \* what get_inst_count returned for each run
  fds         \* the runs whose perf file descriptor is open

kernelVars == <<setting, kst, report, pidOf, tracer, sigchld, masked>>
waiterVars == <<waiter, poisoned, procChans, rx, buf>>
workerVars == <<pc, cur, recv, ev, result, fds>>
vars == <<kernelVars, waiterVars, workerVars>>

Thread == Worker \cup {"main"}

Alive == {"exec", "running", "stopped"}
Dead == {"exited", "killed"}

TypeOK ==
  /\ setting \in Settings
  /\ kst \in [Child -> {"unborn"} \cup Alive \cup Dead]
  /\ report \in [Child -> {"none"} \cup Status]
  /\ pidOf \in [Child -> Pid \cup {None}]
  /\ tracer \in [Child -> Worker \cup {None}]
  /\ sigchld \in BOOLEAN
  /\ masked \subseteq Thread
  /\ waiter \in {"unstarted", "sigwait", "locking", "draining", "dead"}
  /\ poisoned \in BOOLEAN
  /\ procChans \in [Pid -> Child \cup {None}]
  /\ rx \in [Child -> {"none", "map", "held", "dropped"}]
  /\ buf \in [Child -> Seq(WaitData)]
  /\ pc \in [Worker -> {"idle", "writing", "registering", "opening", "receiving",
                        "handling", "continuing", "unlinking", "reading"}]
  /\ cur \in [Worker -> Child \cup {None}]
  /\ recv \in [Worker -> Child \cup {None}]
  /\ ev \in [Worker -> WaitData \cup {None}]
  /\ result \in [Child -> {"none", "Ok", "Err", "panic"}]
  /\ fds \subseteq Child

Init ==
  /\ setting \in Settings
  /\ kst = [c \in Child |-> "unborn"]
  /\ report = [c \in Child |-> "none"]
  /\ pidOf = [c \in Child |-> None]
  /\ tracer = [c \in Child |-> None]
  /\ sigchld = FALSE
  /\ masked = IF Entry = "B7Opts" THEN Thread ELSE {}
  /\ waiter = "unstarted"
  /\ poisoned = FALSE
  /\ procChans = [p \in Pid |-> None]
  /\ rx = [c \in Child |-> "none"]
  /\ buf = [c \in Child |-> <<>>]
  /\ pc = [w \in Worker |-> "idle"]
  /\ cur = [w \in Worker |-> None]
  /\ recv = [w \in Worker |-> None]
  /\ ev = [w \in Worker |-> None]
  /\ result = [c \in Child |-> "none"]
  /\ fds = {}

-----------------------------------------------------------------------------
(* The kernel and the program under test                                   *)

\* A thread that has not blocked SIGCHLD may be the one the kernel picks, and
\* by default the signal is then ignored.
RaiseSigchld ==
  sigchld' \in IF masked = Thread THEN {TRUE} ELSE {TRUE, sigchld}

\* The child gets to a new state, to be reported by waitpid as status s.
Change(c, state, s) ==
  /\ kst' = [kst EXCEPT ![c] = state]
  /\ report' = [report EXCEPT ![c] = s]
  /\ RaiseSigchld
  /\ UNCHANGED <<setting, pidOf, tracer, masked, waiterVars, workerVars>>

\* A traced child stops with SIGTRAP when it execs the program under test.
ExecTrap(c) == kst[c] = "exec" /\ Change(c, "stopped", "Stopped")

\* A breakpoint, or a signal on its way to a traced child, stops it.
SignalStop(c) ==
  /\ kst[c] = "running"
  /\ tracer[c] # None
  /\ Change(c, "stopped", "Stopped")

\* Nobody reads what the child prints before it has exited.
Stuck(c) == setting.stdout[c] = "exceeds" /\ result[c] = "none"

Exit(c) ==
  /\ kst[c] = "running"
  /\ ~Stuck(c)
  /\ Change(c, "exited", "Exited")

\* Once the run has closed the pipe it is SIGPIPE that may come.
Kill(c) ==
  /\ \/ "kill" \in setting.faults
     \/ setting.stdout[c] = "exceeds" /\ result[c] # "none" /\ kst[c] = "running"
  /\ kst[c] \in Alive
  /\ Change(c, "killed", "Signaled")

\* An id is free once waitpid has reported the death of the child it named.
Assignable(p) ==
  \A c \in Child : pidOf[c] = p =>
    "pid_reuse" \in setting.faults /\ kst[c] \in Dead /\ report[c] = "none"

-----------------------------------------------------------------------------
(* The waiter thread: ProcessWaiter::spawn_waiting_thread                  *)

\* lazy_static runs ProcessWaiter::new on the thread that first uses WAITER.
\* That thread blocks SIGCHLD, and the waiter thread it spawns inherits that.
StartWaiter(w) ==
  /\ waiter = "unstarted"
  /\ pc[w] = "idle"
  /\ masked' = masked \cup {w}
  /\ waiter' = "sigwait"
  /\ UNCHANGED <<setting, kst, report, pidOf, tracer, sigchld,
                 poisoned, procChans, rx, buf, workerVars>>

\* sigtimedwait takes the pending signal.  After a second without one it
\* returns EAGAIN and is called again: a stuttering step.
SigWait ==
  /\ waiter = "sigwait"
  /\ sigchld
  /\ sigchld' = FALSE
  /\ waiter' = "locking"
  /\ UNCHANGED <<setting, kst, report, pidOf, tracer, masked,
                 poisoned, procChans, rx, buf, workerVars>>

\* waiter_lock.lock().unwrap()
Lock ==
  /\ waiter = "locking"
  /\ waiter' = IF poisoned THEN "dead" ELSE "draining"
  /\ UNCHANGED <<kernelVars, poisoned, procChans, rx, buf, workerVars>>

AnyChannel(c) ==   \* mutant: one channel for whatever children there are
  LET used == {procChans[p] : p \in Pid} \ {None} IN
  IF used = {} THEN c ELSE CHOOSE d \in used : TRUE

\* proc_chans.entry(pid).or_insert_with(ChanPair::new), for the id of c.
ChannelFor(c) ==
  IF procChans[pidOf[c]] = None THEN c ELSE procChans[pidOf[c]]

\* An mpsc channel is a queue without a bound.
Sent(ch, data) == Append(buf[ch], data)

\* waitpid returns a change of state of c; it is sent into the channel of its
\* id.  If the receiver is gone send() fails, expect() panics, and the thread
\* dies with the lock held.
Reap(c) ==
  LET ch == ChannelFor(c) IN
  /\ waiter = "draining"
  /\ report[c] # "none"
  /\ report' = [report EXCEPT ![c] = "none"]
  /\ procChans' = [procChans EXCEPT ![pidOf[c]] = ch]
  /\ IF rx[ch] = "dropped"
       THEN /\ waiter' = "dead"
            /\ poisoned' = TRUE
            /\ UNCHANGED <<rx, buf>>
       ELSE /\ buf' = [buf EXCEPT ![ch] =
                         Sent(ch, [child |-> c, status |-> report[c]])]
            /\ rx' = [rx EXCEPT ![ch] = IF @ = "none" THEN "map" ELSE @]
            /\ UNCHANGED <<waiter, poisoned>>
  /\ UNCHANGED <<setting, kst, pidOf, tracer, sigchld, masked, workerVars>>

OneWaitpid ==   \* mutant: one waitpid for one SIGCHLD
  /\ waiter = "draining"
  /\ waiter' = "sigwait"
  /\ UNCHANGED <<kernelVars, poisoned, procChans, rx, buf, workerVars>>

\* StillAlive or ECHILD: the lock is released, back to sigtimedwait.
Drained ==
  /\ waiter = "draining"
  /\ \A c \in Child : report[c] = "none"
  /\ waiter' = "sigwait"
  /\ UNCHANGED <<kernelVars, poisoned, procChans, rx, buf, workerVars>>

-----------------------------------------------------------------------------
(* How a run ends                                                          *)

\* The ProcessHandle goes out of scope, its Receiver with it.  The ChanPair
\* stays in the map, and nobody kills the child.
DropHandle(w) ==
  IF recv[w] = None
    THEN UNCHANGED <<rx, buf>>
    ELSE /\ rx' = [rx EXCEPT ![recv[w]] = "dropped"]
         /\ buf' = [buf EXCEPT ![recv[w]] = <<>>]

EndRun(w, r) ==
  /\ pc' = [pc EXCEPT ![w] = "idle"]
  /\ cur' = [cur EXCEPT ![w] = None]
  /\ recv' = [recv EXCEPT ![w] = None]
  /\ ev' = [ev EXCEPT ![w] = None]
  /\ result' = [result EXCEPT ![cur[w]] = r]

\* A `?` returns early: the perf fd, a bare integer, is not closed.
Fail(w) ==
  /\ EndRun(w, "Err")
  /\ DropHandle(w)
  /\ UNCHANGED <<kernelVars, waiter, poisoned, procChans, fds>>

\* An expect() or unwrap() unwinds the thread, which the pool replaces.  The
\* kernel detaches the children it traced and lets those that were stopped run.
Panic(w) ==
  LET loose == {c \in Child : tracer[c] = w /\ kst[c] \in {"exec", "stopped"}} IN
  /\ EndRun(w, "panic")
  /\ DropHandle(w)
  /\ kst' = [c \in Child |-> IF c \in loose THEN "running" ELSE kst[c]]
  /\ report' = [c \in Child |-> IF c \in loose THEN "none" ELSE report[c]]
  /\ tracer' = [c \in Child |-> IF tracer[c] = w THEN None ELSE tracer[c]]
  /\ UNCHANGED <<setting, pidOf, sigchld, masked, waiter, procChans, fds>>

-----------------------------------------------------------------------------
(* A worker: ProcessWaiter::spawn_process                                  *)

TracedForMemory(c) == setting.mode[c] = "Always"     \* mutant: not in mode Drop

Traced(c) == setting.mode[c] # "Never"

TracerIsMain(w, c) == IF Traced(c) THEN "main" ELSE None    \* mutant

\* PTRACE_TRACEME makes the thread that forks the child its tracer.
TracerOf(w, c) == IF Traced(c) THEN w ELSE None

\* Process::start: fork, TRACEME unless the mode is Never, exec.
Start(w, c, p) ==
  /\ pc[w] = "idle"
  /\ waiter # "unstarted"
  /\ kst[c] = "unborn"
  /\ Assignable(p)
  /\ kst' = [kst EXCEPT ![c] = IF Traced(c) THEN "exec" ELSE "running"]
  /\ pidOf' = [pidOf EXCEPT ![c] = p]
  /\ tracer' = [tracer EXCEPT ![c] = TracerOf(w, c)]
  /\ pc' = [pc EXCEPT ![w] = "writing"]
  /\ cur' = [cur EXCEPT ![w] = c]
  /\ UNCHANGED <<setting, report, sigchld, masked, waiterVars, recv, ev, result, fds>>

\* Can write_all come to its end?  Input that fits the pipe needs a reader to
\* be there, a longer one needs it to read.
Written(c) ==
  \/ setting.stdin[c] = "empty"
  \/ setting.stdin[c] = "fits" /\ kst[c] \in Alive
  \/ setting.stdin[c] = "exceeds" /\ kst[c] = "running"

\* Process::write_input, then close_stdin.
WriteInput(w) ==
  /\ pc[w] = "writing"
  /\ Written(cur[w])
  /\ pc' = [pc EXCEPT ![w] = "registering"]
  /\ UNCHANGED <<kernelVars, waiterVars, cur, recv, ev, result, fds>>

\* EPIPE, and .expect("Failed writing input to process").
BrokenPipe(w) ==
  /\ pc[w] = "writing"
  /\ setting.stdin[cur[w]] # "empty"
  /\ kst[cur[w]] \in Dead
  /\ Panic(w)
  /\ UNCHANGED poisoned

\* The critical section of spawn_process: take the receiver of the channel
\* under the child's id, made now unless the waiter thread came first.
TakeReceiver(w) ==
  LET ch == ChannelFor(cur[w]) IN
  /\ pc[w] = "registering"
  /\ waiter # "draining"
  /\ ~poisoned
  /\ rx[ch] \in {"none", "map"}
  /\ procChans' = [procChans EXCEPT ![pidOf[cur[w]]] = ch]
  /\ rx' = [rx EXCEPT ![ch] = "held"]
  /\ recv' = [recv EXCEPT ![w] = ch]
  /\ pc' = [pc EXCEPT ![w] =
              IF Traced(cur[w]) THEN "opening" ELSE "receiving"]
  /\ UNCHANGED <<kernelVars, waiter, poisoned, buf, cur, ev, result, fds>>

\* A poisoned lock, or "Already took receiver!", which poisons it.
TakeReceiverPanics(w) ==
  /\ pc[w] = "registering"
  /\ waiter # "draining"
  /\ poisoned \/ rx[ChannelFor(cur[w])] \in {"held", "dropped"}
  /\ Panic(w)
  /\ poisoned' = TRUE

-----------------------------------------------------------------------------
(* A worker: PerfSolver::get_inst_count and ProcessHandle::finish          *)

\* get_perf_fd: the counter is enabled on a child that is still alive.
OpenPerf(w) ==
  /\ pc[w] = "opening"
  /\ kst[cur[w]] \in Alive
  /\ fds' = fds \cup {cur[w]}
  /\ pc' = [pc EXCEPT ![w] = "receiving"]
  /\ UNCHANGED <<kernelVars, waiterVars, cur, recv, ev, result>>

OpenPerfFails(w) ==
  /\ pc[w] = "opening"
  /\ "perf" \in setting.faults \/ kst[cur[w]] \in Dead
  /\ Fail(w)

SignaledIsExited(s) ==   \* mutant: any death of the child counts as its exit
  IF s = "Stopped" THEN "handling" ELSE "unlinking"

\* The match on data.status in finish().
AfterStatus(s) == IF s = "Exited" THEN "unlinking" ELSE "handling"

\* recv_timeout returns the next WaitData.
Receive(w) ==
  LET ch == recv[w] IN
  /\ pc[w] = "receiving"
  /\ buf[ch] # <<>>
  /\ ev' = [ev EXCEPT ![w] = Head(buf[ch])]
  /\ buf' = [buf EXCEPT ![ch] = Tail(@)]
  /\ pc' = [pc EXCEPT ![w] = AfterStatus(Head(buf[ch]).status)]
  /\ UNCHANGED <<kernelVars, waiter, poisoned, procChans, rx, cur, recv, result, fds>>

SenderGone(ch) == \A p \in Pid : procChans[p] # ch

ReceiveForever(w) ==   \* mutant: recv() for recv_timeout()
  /\ pc[w] = "receiving"
  /\ buf[recv[w]] = <<>>
  /\ SenderGone(recv[w])
  /\ Panic(w)
  /\ UNCHANGED poisoned

\* recv_timeout returns Timeout or Disconnected; expect("Receieve error!").
ReceivePanics(w) ==
  /\ pc[w] = "receiving"
  /\ buf[recv[w]] = <<>>
  /\ "timeout" \in setting.faults \/ SenderGone(recv[w])
  /\ Panic(w)
  /\ UNCHANGED poisoned

\* handle_stop: the time is up, or a ptrace request finds no stopped child.
HandleStopFails(w) ==
  LET c == cur[w] IN
  /\ pc[w] = "handling"
  /\ \/ "timeout" \in setting.faults
     \/ setting.mode[c] = "Always" /\ kst[c] # "stopped"
     \/ setting.mode[c] = "Drop" /\ ev[w].status = "Stopped" /\ kst[c] # "stopped"
  /\ Fail(w)

\* handle_ptrace_stop up to ptrace::cont: memory input, breakpoints.
HandlePtraceStop(w) ==
  /\ pc[w] = "handling"
  /\ setting.mode[cur[w]] = "Always"
  /\ kst[cur[w]] = "stopped"
  /\ pc' = [pc EXCEPT ![w] = "continuing"]
  /\ UNCHANGED <<kernelVars, waiterVars, cur, recv, ev, result, fds>>

\* ptrace::cont
Continue(w) ==
  /\ pc[w] = "continuing"
  /\ kst[cur[w]] = "stopped"
  /\ kst' = [kst EXCEPT ![cur[w]] = "running"]
  /\ pc' = [pc EXCEPT ![w] = "receiving"]
  /\ ev' = [ev EXCEPT ![w] = None]
  /\ UNCHANGED <<setting, report, pidOf, tracer, sigchld, masked, waiterVars,
                 cur, recv, result, fds>>

\* "Failed to call ptrace::cont": the child died since it stopped.
ContinuePanics(w) ==
  /\ pc[w] = "continuing"
  /\ kst[cur[w]] # "stopped"
  /\ Panic(w)
  /\ UNCHANGED poisoned

DetachAndReturn(w) ==   \* mutant: the run does not wait for the child to exit
  /\ pc[w] = "handling"
  /\ setting.mode[cur[w]] = "Drop"
  /\ kst[cur[w]] = "stopped"
  /\ kst' = [kst EXCEPT ![cur[w]] = "running"]
  /\ pc' = [pc EXCEPT ![w] = "reading"]
  /\ recv' = [recv EXCEPT ![w] = None]
  /\ DropHandle(w)
  /\ UNCHANGED <<setting, report, pidOf, tracer, sigchld, masked, waiter, poisoned,
                 procChans, cur, ev, result, fds>>

\* PtraceMode::Drop if signal.is_some(): ptrace::detach lets the child run.
Detach(w) ==
  /\ pc[w] = "handling"
  /\ setting.mode[cur[w]] = "Drop"
  /\ ev[w].status = "Stopped"
  /\ kst[cur[w]] = "stopped"
  /\ kst' = [kst EXCEPT ![cur[w]] = "running"]
  /\ tracer' = [tracer EXCEPT ![cur[w]] = None]
  /\ pc' = [pc EXCEPT ![w] = "receiving"]
  /\ ev' = [ev EXCEPT ![w] = None]
  /\ UNCHANGED <<setting, report, pidOf, sigchld, masked, waiterVars,
                 cur, recv, result, fds>>

UnlinkOnSignal(w) ==   \* mutant: the entry goes, yet finish() waits on
  /\ pc[w] = "handling"
  /\ setting.mode[cur[w]] # "Always"
  /\ ev[w].status = "Signaled"
  /\ procChans' = [procChans EXCEPT ![pidOf[cur[w]]] = None]
  /\ pc' = [pc EXCEPT ![w] = "receiving"]
  /\ ev' = [ev EXCEPT ![w] = None]
  /\ UNCHANGED <<kernelVars, waiter, poisoned, rx, buf, cur, recv, result, fds>>

\* The last arm of handle_stop: any other status, death by a signal included,
\* is passed over, and finish() waits for the next one.
IgnoreStatus(w) ==
  /\ pc[w] = "handling"
  /\ \/ setting.mode[cur[w]] = "Never"
     \/ setting.mode[cur[w]] = "Drop" /\ ev[w].status = "Signaled"
  /\ pc' = [pc EXCEPT ![w] = "receiving"]
  /\ ev' = [ev EXCEPT ![w] = None]
  /\ UNCHANGED <<kernelVars, waiterVars, cur, recv, result, fds>>

\* WaitStatus::Exited: the entry leaves the map, finish() returns Ok.
Unlink(w) ==
  LET p == pidOf[ev[w].child] IN
  /\ pc[w] = "unlinking"
  /\ waiter # "draining"
  /\ ~poisoned
  /\ procChans' = [procChans EXCEPT ![p] = None]
  /\ rx' = [rx EXCEPT ![recv[w]] = "none"]
  /\ buf' = [buf EXCEPT ![recv[w]] = <<>>]
  /\ recv' = [recv EXCEPT ![w] = None]
  /\ pc' = [pc EXCEPT ![w] = "reading"]
  /\ UNCHANGED <<kernelVars, waiter, poisoned, cur, ev, result, fds>>

\* inner.lock().unwrap() on a poisoned lock.
UnlinkPanics(w) ==
  /\ pc[w] = "unlinking"
  /\ waiter # "draining"
  /\ poisoned
  /\ Panic(w)
  /\ UNCHANGED poisoned

ReadThenClose(w) ==   \* mutant: an error of the read returns before the close
  /\ pc[w] = "reading"
  /\ \E r \in {"Ok", "Err"} :
       /\ EndRun(w, r)
       /\ fds' = IF r = "Ok" THEN fds \ {cur[w]} ELSE fds
  /\ UNCHANGED <<kernelVars, waiterVars>>

\* The count is read and the perf fd closed, whatever the read returned.
ReadCount(w) ==
  /\ pc[w] = "reading"
  /\ Traced(cur[w])
  /\ \E r \in {"Ok"} \cup (IF "perf" \in setting.faults THEN {"Err"} ELSE {}) : EndRun(w, r)
  /\ fds' = fds \ {cur[w]}
  /\ UNCHANGED <<kernelVars, waiterVars>>

\* DynamorioSolver::get_inst_count looks for the count in what drrun printed.
ReadOutput(w) ==
  /\ pc[w] = "reading"
  /\ ~Traced(cur[w])
  /\ \E r \in {"Ok"} \cup (IF "output" \in setting.faults THEN {"Err"} ELSE {}) : EndRun(w, r)
  /\ UNCHANGED <<kernelVars, waiterVars, fds>>

-----------------------------------------------------------------------------
ChildStep(c) ==
  \/ ExecTrap(c)
  \/ SignalStop(c)
  \/ Exit(c)
  \/ Kill(c)

WaiterStep ==
  \/ SigWait
  \/ Lock
  \/ \E c \in Child : Reap(c)
  \/ Drained

WorkerStep(w) ==
  \/ StartWaiter(w)
  \/ \E c \in Child, p \in Pid : Start(w, c, p)
  \/ WriteInput(w)
  \/ BrokenPipe(w)
  \/ TakeReceiver(w)
  \/ TakeReceiverPanics(w)
  \/ OpenPerf(w)
  \/ OpenPerfFails(w)
  \/ Receive(w)
  \/ ReceivePanics(w)
  \/ HandleStopFails(w)
  \/ HandlePtraceStop(w)
  \/ Continue(w)
  \/ ContinuePanics(w)
  \/ Detach(w)
  \/ IgnoreStatus(w)
  \/ Unlink(w)
  \/ UnlinkPanics(w)
  \/ ReadCount(w)
  \/ ReadOutput(w)

\* Every run is over: nothing is left for the pool to do.
Finished ==
  /\ \A c \in Child : result[c] # "none"
  /\ UNCHANGED vars

Next ==
  \/ \E c \in Child : ChildStep(c)
  \/ WaiterStep
  \/ \E w \in Worker : WorkerStep(w)
  \/ Finished

Spec == Init /\ [][Next]_vars

\* Threads get their turn; a child that may run reaches its exec stop, and one
\* that runs again and again exits in the end, unless it is stuck.  A run that
\* handles one stop after another runs out of time.
Fairness ==
  /\ WF_vars(WaiterStep)
  /\ \A w \in Worker : WF_vars(WorkerStep(w)) /\ SF_vars(HandleStopFails(w))
  /\ \A c \in Child : WF_vars(ExecTrap(c)) /\ SF_vars(Exit(c))

FairSpec == Spec /\ Fairness

-----------------------------------------------------------------------------
(* Properties                                                              *)

\* While ids are not reused a run only ever handles statuses of its own
\* child: whoever of spawn_process and the waiter thread comes first makes the
\* channel, the other one finds it (cases 1 and 2 of the comment on
\* spawn_waiting_thread).
OwnEvents ==
  /\ \A w \in Worker : /\ recv[w] # None => recv[w] = cur[w]
                       /\ ev[w] # None => ev[w].child = cur[w]
  /\ \A c \in Child : \A i \in 1..Len(buf[c]) : buf[c][i].child = c

\* A change of state is never left behind by the waiter thread: as long as
\* waitpid has one to return, a SIGCHLD is pending or the thread has taken one
\* and has not finished draining.  SIGCHLD coalesces, so this rests on the
\* inner loop over waitpid and on SIGCHLD being blocked on every other thread.
NoMissedWakeup ==
  (\E c \in Child : report[c] # "none") =>
    sigchld \/ waiter \in {"locking", "draining", "dead"}

\* recv_timeout in finish() never sees a disconnected channel: the Sender of
\* the channel a run listens on stays in the map until that run removes it.
\* The expect() on it can only mean a timeout, even when ids are reused.
SenderAlive ==
  \A w \in Worker : pc[w] = "receiving" => ~SenderGone(recv[w])

\* A run that reports a count has seen its own child exit by itself, and no
\* status of that child is left to be mistaken for another's.
OkMeansExited ==
  \A c \in Child : result[c] = "Ok" =>
    kst[c] = "exited" /\ report[c] = "none" /\ buf[c] = <<>>

\* A child under perf does not run an instruction before its counter is open:
\* it is held in its exec stop through get_perf_fd until finish() lets it go,
\* however the steps of its stop and of the worker interleave.
CountedFromStart ==
  \A c \in Child :
    setting.mode[c] # "Never" /\ kst[c] \in {"running", "exited"} /\ result[c] = "none"
      => c \in fds

\* What a failed get_inst_count leaks, it leaks together: a perf descriptor
\* left open belongs to a run that failed, and the map keeps the ChanPair of
\* that run as well.
LeaksComeTogether ==
  \A c \in fds : result[c] # "none" =>
    result[c] \in {"Err", "panic"} /\ procChans[pidOf[c]] = c

\* The waiter thread dies, and the lock gets poisoned, only after some run has
\* given up on a child: runs that all go well cannot bring it down.
DeathFollowsFailure ==
  waiter = "dead" \/ poisoned => \E c \in Child : result[c] \in {"Err", "panic"}

\* "We then send the 'waitpid' result over an MPSC channel, where it will be
\* consumed by the thread waiting on the child": the waiter thread never finds
\* the receiver of a channel gone, and does not die of it.
WaitDataIsConsumed == waiter # "dead"

\* When nothing goes wrong around the code no run fails.  (A child that is not
\* traced may exit before its input is written.)
NoRunFails ==
  /\ setting.faults = {}
  /\ \A c \in Child : setting.stdin[c] # "empty" => setting.mode[c] # "Never"
  => \A c \in Child : result[c] \in {"none", "Ok"}

\* Ids may come round again, yet a status never gets into the channel of
\* another id, nor a receiver into the hands of a run whose child has another.
ChannelsFollowIds ==
  /\ \A p \in Pid : procChans[p] # None => pidOf[procChans[p]] = p
  /\ \A c \in Child : \A i \in 1..Len(buf[c]) : pidOf[buf[c][i].child] = pidOf[c]
  /\ \A w \in Worker : recv[w] # None => pidOf[recv[w]] = pidOf[cur[w]]

\* Every run that starts returns, in the end.
EveryRunEnds == \A c \in Child : kst[c] # "unborn" ~> result[c] # "none"

-----------------------------------------------------------------------------
(* ProcessWaiter implements WaitDelivery.                                  *)

Statuses(c) == [i \in 1..Len(buf[c]) |-> buf[c][i].status]

phaseOf ==
  [c \in Child |-> CASE result[c] # "none" -> "closed"
                     [] result[c] = "none" /\ kst[c] \in Alive -> "open"
                     [] OTHER -> kst[c]]

queueOf ==
  [c \in Child |->
     IF result[c] # "none" THEN <<>>
     ELSE Statuses(c) \o (IF report[c] = "none" THEN <<>> ELSE <<report[c]>>)]

Delivery == INSTANCE WaitDelivery WITH phase <- phaseOf, queue <- queueOf

\* Thread, signal, map and channels together do what WaitDelivery says: each
\* run sees each status of its child, in order and once, and nothing else.
DeliverySpec == Delivery!Spec
=============================================================================
