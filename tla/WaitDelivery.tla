---------------------------- MODULE WaitDelivery ----------------------------
(***************************************************************************)
(* What ProcessWaiter promises its callers, without saying how: each run   *)
(* of a child process sees the statuses the kernel reports of that child,  *)
(* and only those, once each and in the order they happened, until the run *)
(* returns.  A run that returns Ok has seen its child exit by itself.      *)
(*                                                                         *)
(* There is no waiter thread here, no SIGCHLD, no process id, no map of    *)
(* channels and no lock: one queue per run.  ProcessWaiter implements this *)
(* specification (ProcessWaiter!DeliverySpec).                             *)
(***************************************************************************)
EXTENDS Sequences

CONSTANT Child          \* the runs: one child process each

VARIABLES
  phase,    \* the run: "unborn", "open", "exited", "killed" or "closed"
  queue,    \* statuses of the child that its run has not seen yet
  result    \* what get_inst_count returned: "none" as long as it has not

deliveryVars == <<phase, queue, result>>

Init ==
  /\ phase = [c \in Child |-> "unborn"]
  /\ queue = [c \in Child |-> <<>>]
  /\ result = [c \in Child |-> "none"]

Spawn(c) ==
  /\ phase[c] = "unborn"
  /\ phase' = [phase EXCEPT ![c] = "open"]
  /\ UNCHANGED <<queue, result>>

\* A child stops or exits only while its run has nothing left to see: it is
\* the run that lets a stopped child go on.
StopOrExit(c) ==
  /\ phase[c] = "open"
  /\ queue[c] = <<>>
  /\ \/ /\ queue' = [queue EXCEPT ![c] = <<"Stopped">>]
        /\ UNCHANGED phase
     \/ /\ queue' = [queue EXCEPT ![c] = <<"Exited">>]
        /\ phase' = [phase EXCEPT ![c] = "exited"]
  /\ UNCHANGED result

\* A kill comes at any time; the kernel forgets a stop not yet waited for.
Killed(c) ==
  /\ phase[c] = "open"
  /\ phase' = [phase EXCEPT ![c] = "killed"]
  /\ \/ queue' = [queue EXCEPT ![c] = Append(@, "Signaled")]
     \/ queue' = [queue EXCEPT ![c] = <<"Signaled">>]
  /\ UNCHANGED result

See(c) ==
  /\ queue[c] # <<>>
  /\ queue' = [queue EXCEPT ![c] = Tail(@)]
  /\ UNCHANGED <<phase, result>>

Return(c, r) ==
  /\ phase[c] \in {"open", "exited", "killed"}
  /\ r = "Ok" => phase[c] = "exited" /\ queue[c] = <<>>
  /\ phase' = [phase EXCEPT ![c] = "closed"]
  /\ queue' = [queue EXCEPT ![c] = <<>>]
  /\ result' = [result EXCEPT ![c] = r]

Next ==
  \E c \in Child :
    \/ Spawn(c)
    \/ StopOrExit(c)
    \/ Killed(c)
    \/ See(c)
    \/ \E r \in {"Ok", "Err", "panic"} : Return(c, r)

Spec == Init /\ [][Next]_deliveryVars
=============================================================================
