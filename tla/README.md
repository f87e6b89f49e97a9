# B7 in TLA+

B7 finds inputs for a program without looking into it. It runs the program on
many candidate inputs, counts the instructions each run executes (with `perf`
or DynamoRIO), and takes the input whose count stands out as one more step
towards the right one. This directory models that in TLA+, checks the models
with TLC and proves with TLAPS what TLC checks of their safety.

## 1. Inventory

| component | source | state | operations | called by / talks to |
|---|---|---|---|---|
| Command line | `src/main.rs` | - | parse options, build a `B7Opts` | `B7Opts` |
| `B7Opts` | `src/lib.rs` | options, `init_input`, solver, ui | `run`: the stages argv (argc, lengths, characters), stdin (length, characters), memory | `brute`, generators |
| `brute` | `src/brute.rs` | inputs and results of a round, a pool of threads, a channel | collect, run on the pool, receive, choose, update | generator, `InstCounter`, statistics, `Ui` |
| Generators | `src/generators.rs` | what is solved, the next candidate | `next`, `update`; `Input::combine` | `brute` |
| Statistics | `src/statistics.rs` | - | `get_average`, `find_outlier` | `brute` |
| `PerfSolver` | `src/perf.rs`, `src/bindings.rs` | a perf descriptor for each run | `get_inst_count` | `Process`, `ProcessHandle` |
| `DynamorioSolver` | `src/dynamorio.rs` | - | `get_inst_count` from the output of `drrun` | `Process`, `ProcessHandle` |
| `Process`, `ProcessHandle` | `src/process.rs` | child, input, ptrace mode; receiver | `start`, `write_input`, `close_stdin`, `finish`, `handle_stop` | kernel, `ProcessWaiter` |
| `ProcessWaiter` | `src/process.rs` | map pid -> channel under a lock; one thread | `spawn_process`; the thread: `sigtimedwait`, `waitpid`, `send` | kernel, all threads of the pool |
| Breakpoints, memory input | `src/process.rs` | breakpoint map of one `finish()`, memory of the child | `init_mem_input`, `handle_reached_breakpoint`, `write_mem_input` | kernel |
| Terminal interface | `src/b7tui.rs` | cached results, current round, tab, timeout, edit buffer | `set_timeout`, `timeout`, `update`, `wait`, `done`; the keys | `B7Opts`, `brute` |
| Binary, errors, build script | `src/binary.rs`, `src/errors.rs`, `build.rs` | - | - | - |

What is hard about them, and what makes each correct:

* **`ProcessWaiter`, `Process`, the solvers.** All threads of the pool share one
  map, one lock and one waiter thread, and everything they learn about their
  children comes through a signal that coalesces and that any thread might
  swallow. Correct means: each run sees every status of its own child, once, in
  order; no status stays behind; nobody waits forever; a run that fails does not
  harm the others; the count covers the program from its first instruction.
* **`brute`.** Jobs finish in any order, may fail, may panic. Correct means:
  every job of a round is accounted for before the choice; the choice is the
  farthest count; an error is returned only when nothing was counted; the rounds
  come to an end.
* **Generators.** `brute` relies on what `update()` returns. Correct means: if
  it says there is more, `next()` has an input to offer; the inputs of a round
  are all different; at the end the input is the one the program accepts.
* **`B7Opts`.** Each stage starts from what the one before has solved, and none undoes
  that; what `run` returns is what the options asked for; jobs run with the timeout asked
  for.
* **Breakpoints and memory input.** Only the regions asked for change, a
  breakpoint is hit once and leaves the code as it was.
* **Terminal interface.** Whatever the keys, it shows a round that exists, lets no round pass
  unseen while the user wants to be asked, and holds nobody up once told to continue.

`PROJECT.json` lists each component with what is modelled of it, and every hazard
at its line with the properties that cover it.

## 2. Modules

| module | about |
|---|---|
| `WaitDelivery` | abstract: one queue of statuses per run, nothing else |
| `ProcessWaiter` | `process.rs` with its callers in `perf.rs` and `dynamorio.rs`: kernel, waiter thread, threads of the pool. Implements `WaitDelivery` |
| `ProcessWaiterProofs` | theorems: types, routing, wakeup, channels and ids |
| `RunProofs` | theorems about single runs: blame, counting, completeness |
| `DeliveryProofs` | theorems: what failed runs leave behind; without faults no run fails; `ProcessWaiter` implements `WaitDelivery` |
| `PtraceSession` | the memory of one child under ptrace: `handle_ptrace_stop` and what it calls |
| `PtraceProofs` | theorems: the code, the regions and the instruction pointer of that child |
| `Statistics` | `get_average`, `find_outlier` |
| `Generators` | the six generators as records with pure operators, `Input::combine` |
| `Rounds` | abstract: `brute()` with each round as one choice |
| `Brute` | the rounds of `brute()` with its pool and channel; extends `Generators` and `Statistics`, implements `Rounds` |
| `Facts` | lemmas: induction, sums, the outlier of a list or of a set, the calls of `next()` in a round, what generators promise |
| `BruteProofs` | theorems: jobs, counts, inputs and outlier of a round; `Brute` implements `Rounds` |
| `B7tui` | `b7tui.rs`: the two implementations of `Ui` and the keys of a user |
| `Pipeline` | `B7Opts::run` with the options of `main()`; extends `B7tui`, calls `Rounds` for each `brute()` |
| `PipelineProofs` | theorems about the stages of `run`, the terminal interface and the timeout |
| `Target` | the programs under test that B7 is made for, in any size; what `run` finds of them |
| `TargetProofs` | theorem: it finds that |
| `MCProcessWaiter`, `MCPtraceSession`, `MCBrute`, `MCPipeline` | instances for TLC |

`WaitDelivery` and `Rounds` are the two abstract specifications. `ProcessWaiter` is below
`get_inst_count`: what it lets a run return (a count, an error, a panic) is the oracle
`CountsOf` and `Panics` of `Brute` and `Rounds`. `Pipeline` is composed of `B7tui` and an
instance of `Rounds`, which `Brute` is shown to implement, so that the pool's
interleavings need not be explored again for each session.

### ProcessWaiter

State. The kernel: `setting` (what the runs of this behaviour are like: ptrace mode of each
run, whether it has input and whether that fits a pipe, whether the child prints more than a
pipe holds, and what may go wrong; chosen in `Init` from the constant `Settings`), `kst` (state of a child), `report` (the change `waitpid` has yet
to return), `pidOf`, `tracer`, `sigchld` (the one pending bit), `masked` (threads
with SIGCHLD blocked). `WAITER`: `waiter` (where its thread is), `poisoned` (the
lock), `procChans` (the map), `rx` and `buf` (the two ends of each channel). The
pool: `pc`, `cur`, `recv`, `ev`, and `result` and `fds` (open perf descriptors) for
each run. Children and channels have names of their own, so that a reused process
id can be told from the child it used to name.

| actions | code |
|---|---|
| `StartWaiter` | `ProcessWaiter::new`, run by `lazy_static` on the first thread that needs it |
| `SigWait`, `Lock`, `Reap`, `Drained` | the loop of `spawn_waiting_thread`; the lock is held from `Lock` to `Drained` |
| `Start`, `WriteInput`, `TakeReceiver` | `spawn_process`; `BrokenPipe` and `TakeReceiverPanics` are its `expect()`s |
| `OpenPerf`, `OpenPerfFails` | `get_perf_fd` |
| `Receive`, `ReceivePanics` | `recv_timeout` in `finish` |
| `HandlePtraceStop`, `Continue`, `ContinuePanics`, `Detach`, `IgnoreStatus`, `HandleStopFails` | the arms of `handle_stop` and `handle_ptrace_stop` |
| `Unlink`, `UnlinkPanics` | the `Exited` arm of `finish` |
| `ReadCount` | the rest of `PerfSolver::get_inst_count` |
| `ReadOutput` | the rest of `DynamorioSolver::get_inst_count` |
| `ExecTrap`, `SignalStop`, `Exit`, `Kill` | the kernel and the program under test |

Critical sections other than the waiter thread's are one step each and are enabled
only while the waiter thread is not draining, which is what the mutex gives. What
`Drop` does in Rust is part of the step that returns or unwinds: the `Receiver` goes,
the map entry stays, a perf descriptor that is still a bare integer stays open, and
the kernel lets go of the children a dying thread traced.

Time is not modelled. A timeout (`"timeout"` in `setting.faults`) may strike at every place
where the code looks at the clock, and only there. Reading the memory and the
registers of a stopped child is one step (`HandlePtraceStop`) that succeeds if the
child is stopped.

Mode `Never` is how `DynamorioSolver` runs its child. It shares the path of a run
without the perf steps. Nobody reads the pipes of stdout and stderr before the child has
exited: a child that prints more than they hold (`Stuck`) does not exit while its run
lasts, and may get SIGPIPE after it.

### PtraceSession

What `ProcessWaiter` has as the step `HandlePtraceStop`, in detail. State: the child, its
instruction pointer and memory (`child`, `ip`, `mem`), the instructions it has executed
(`ran`), and the locals of `finish()` (`handler`, `init_ptrace`, `breakpoints`). A stop
arrives as `ProcessWaiter` delivers it, after the child has stopped; the child stands still
until `Continue`, unless it is killed (`Killed`), which makes the next request fail
(`RequestFails`). `InitMemInput` is the body of the loop of `init_mem_input`, which has come
past the first `loaded` regions, and `InitDone` what follows it; `Reached` and `NotReached`
are `handle_reached_breakpoint`. Memory is read and written by words of
`WordSize` bytes, as ptrace does; input is filled up with zeros (`Padded`). The program is
a graph of instructions (`Flow`), each at an address of its own.

### Brute, Generators, Statistics

A generator is a record; `Offers`, `Guess`, `Stepped`, `Updated` and `More` are what
`next()` and `update()` do to it. `next()` returns an input (`Offers`), returns None (`Ends`), or
panics (`OutOfBounds`): `ArgvGenerator` takes the number of arguments and the list of their
lengths apart, and a list that is shorter than that, or empty, is indexed beyond its end; of a longer one
the lengths that no argument has are never looked at. `brute()` is a loop of the phases collect, run,
receive and choose, with the threads of the pool taking jobs and sending counts
during run. `get_inst_count` is an oracle: `CountsOf(input)` is the set of counts the
program may have, with `Absent` for an error, and `Panics` says if it may panic. The inputs
a job takes, the message it sends and the order of the messages are those of the code;
`repeat` runs overwrite one another as in the code, so the last one is what is sent
(`CountsAreAverages` is what the documentation says of them). `NextPanics` is the call of `next()`
that panics while the inputs are collected. Each message
is taken from the channel in a step of its own (`Receive`, `received` of them so far), and
`AllReceived` ends the loop after as many as there were jobs. The calls
`brute()` makes to the terminal interface are in `Pipeline`.

`Rounds` forgets the pool: a round is the set of inputs the generator offers (`Tried`), any
subset of them that may have been counted with any counts they may have (`Counts`, one for each input:
that of its last run, where runs are repeated), and the
choice of one that lies farthest from their average (`Outliers`). `Brute!RoundsSpec` maps
`gen` to the generator at the beginning of the round (`began`, a history variable) and
`phase` to `outcome`.

### B7tui, Pipeline

`B7tui` has the trait `Ui`: `set_timeout`, `get_timeout`, `update` (with the `wait` that
follows it), `done`, for `Tui` and for `Env`, and an action for each key that `wait` and `done`
look at. `at` says where the interface is: outside, in the loop of `wait` (`waiting`, or
`editing` a number in the inner loop), about to return, in `done`, or ended by a panic
(`q`). Everything runs on the main thread, so a key is only taken while `brute` or `run` is
inside a call of the interface. stdin may end at any time, which ends the loops.

`Pipeline` goes through the stages of `run` (`pc`): `SolveArgc`, `SolveArgvLen`, `SolveArgv`,
`SolveStdinLen`, `SolveStdin`, `SolveMem`, `SolveRegion`, with the ways around them (`SkipArgv`,
`SkipStdin`, `DropConflicts`). Each of them calls `brute` with a new generator (`Call`). In a
call, `Count` is the end of a round's jobs with `update`, and `Choose` comes once the
interface has returned; `CollectPanics` is a `next()` that panics, `CountPanics` a job that does.
`edited` is a history variable: has the user edited the timeout since the stage began
(`BeginStage`, in the three actions that call `set_timeout` in the code)? `FromCommandLine` is what `main()` makes of its options, defaults
and mistakes included: `--start` is stored under another name than it is read under.
What a program that uses the library may
give is any `init_input` with the right types (`ProgramsAssumption`): nothing ties `argvlens` to
`argc`, as in the code. Durations are in ticks, `Second` of them in a second, since `Tui` keeps whole seconds.

## 3. What the runs check

Small instances: 2 threads throughout. Two are enough for a thread to be between any
two steps while the other one, the waiter thread or the kernel acts; the threads are
alike and share only what the waiter protects.

| run | instance | properties |
|---|---|---|
| `waiter_faults` | 3 runs (one per mode), 3 ids; timeouts, perf errors, missing output, kills | type, delivery to the right run, no status left behind, sender alive, Ok means exited, counted from the start, leaks, death of the waiter, refinement of `WaitDelivery` |
| `waiter_ends` | 2 runs in each combination of modes without faults, two with faults, three with a child that prints more than a pipe holds, one with timeouts, kills and reuse of ids; fairness | no run fails without faults; sender alive; channels follow ids; every run ends |
| `brute_rounds` | 10 generators and 3 with a list of lengths that is too short, characters and bytes 0..2, lengths up to 3, `repeat` 2; errors, panics, and counts that say nothing except for memory inputs; fairness | type, update contract, distinct guesses, every job reports, farthest outlier, errors skipped, refinement of `Rounds`, brute returns |
| `session` | 21 sessions (7 command lines; 14 uses of the library, 9 of them with a number of arguments and a list of lengths: as many, more, fewer, none, with lengths of zero) against a program that compares with a secret; keys, digits 1 and 3, numbers up to 40; fairness | type, run solves, lengths agree, errors have a cause, lengths suffice, timeout, shown round, newest round first, earlier stages kept, continue goes through |
| `memory_input` | 63 choices of one or two regions, bytes from none to all, breakpoints in both orders; words of 2 bytes; signals and kills at any time | type, traps are breakpoints, input loaded first, child goes on at an instruction, nothing written outside |
| `waiter_dies` | 2 runs, a perf call fails | violated: the waiter thread dies |
| `long_stdin` | 2 runs, the first with more input than a pipe holds, fairness | violated: every run ends |
| `direct_brute` | 2 runs, `brute()` called directly | violated: no status is left behind |
| `memory_overrun` | a region of 3 bytes, words of 2 | violated: nothing written outside |
| `stages_incomplete` | a command line with the default options, two regions and no stdin | violated: one of the stages argv and memory is complete |
| `empty_stdin` | a command line with a stdin length of zero | violated: an empty stdin is fine |
| `repeats_dropped` | one generator, `repeat` 2, a program that has two counts | violated: counts are averages |

Three runs of `ProcessWaiter` are enough for one to have failed, one to be in the middle
and one to begin; `waiter_faults` has one in each mode. An id comes round again in `waiter_ends`,
where the second run may get that of the first. Bounds are the size of `Child` and `Pid` and the
sizes of the generators; nothing else is cut, the queues in `buf` are bounded by the
behaviour of the children. Symmetry among threads and ids is used in the runs that check no
liveness. `long_stdin` is the only run without a deadlock check: the system stops there,
which is what the run is about. Everywhere else `Finished` (or `Returned`) is the only
way to stop.

In `session` at most two arguments, of at most two characters, and at most two characters of
stdin are tried (5, 20 and 51 in the code), characters go from 0 to 2, a second has two
ticks, the history has one line. Lengths of zero, a full `start`, a region whose bytes are
given, a timeout below a second, numbers that do not fit (above `UMax` = 40, two digits) all
occur. The user may press any key at any time; what a session does does not depend on the
history but through the bound of `selected`.

`RunSolves` says what the code can bring such a program to accept: the number of arguments,
their length if the number is given, their characters if the lengths are too, stdin, the last of
the memory regions. It is about sessions whose options do not lead astray (`Solvable`). The documentation says
more: all of the arguments (`ArgumentsSolved`) and all of the regions (`RegionsCollected`). `OneStageComplete` asks
for one of the two, and is violated: the code gives neither. `ErrHasCause` names for each stage what makes `brute()` return an error with a program
that gives counts: a timeout of zero; an argument of length zero that is the last one or is
followed by another one, since `ArgvGenerator::next` steps over one of them and no more; a start that
fills stdin, be its length given or solved; a region whose bytes are all given; and `run()`
itself for memory input with ptrace dropped. That an empty stdin belongs to these goes against a comment in the
code (`EmptyStdinIsFine`, violated). `LengthsSuffice` says the same of a `next()` that takes a length beyond
the end of the list and panics: it takes fewer lengths than arguments. The sessions have every kind of
list for both.

What the violated runs show:

* `waiter_dies`. `get_perf_fd` fails, `?` drops the `ProcessHandle`, its `Receiver` with
  it. The `ChanPair` stays in the map and the child is held in its exec stop, or running.
  Its next status makes `send()` fail, `expect()` kills the waiter thread, the lock is
  poisoned and all later runs panic. A timeout leads there as well (it panics the job and
  with it `brute()`, which hides it from the command line, not from a user of the library).
  `DeathFollowsFailure` says it takes a failed run to get there.
* `long_stdin`. `write_input` comes before `finish()`, and a traced child only runs once
  `finish()` handles its exec stop. The write blocks on a full pipe and no timeout applies.
* `direct_brute`. The comment on `block_signal` says there is normally no need to call it;
  the example of `brute()` does not. The pool exists before `WAITER` does, so its other
  threads and the main thread keep SIGCHLD unblocked. `B7Opts::new` does call it.
* `memory_overrun`. The last word of a memory input is filled with zeros and written whole,
  over the data behind a region that is no multiple of a word. The region of 26 bytes in
  `tests/run_mem_brute.rs` is such a one.
* `stages_incomplete`. Two stages leave out what they are documented to solve, and `run()` returns Ok.
  `default_arg_brute` should solve number, lengths and characters: after the number
  it reads `argc` from the input it was called with, and `combine` drops `argc` from what was solved, so
  the two stages that follow are passed over and the arguments are all empty.
  `default_mem_brute` should brute force memory regions and collect results: each region has a
  generator whose guesses hold this region alone, and `combine` puts the memory of the guess in place
  of that of the input, so the result has the last region and the others are lost. In the last
  state of the trace both parts of `OneStageComplete` fail.
* `empty_stdin`. The comment on the stage for characters says it solves stdin if there is stuff to
  solve; the condition only asks if there is a length. With a length of zero the generator has no
  input, `brute()` returns an error and with it `run()`.
* `repeats_dropped`. `brute()` documents `repeat` as how many runs to average for each input. Each run
  overwrites the count of the one before; what is sent is the count of the last one, or nothing if
  that one fails.

Two disagreements with the documentation are in the model and in no violated run, but among the hazards: `update()`
of `ArgvGenerator` says there is more when only empty arguments are left, `next()` offers nothing, and
`run()` fails (`EmptyArgument` in `ErrHasCause`; `UpdateContract` is about the other lists); and
`--start` has no effect, since `main()` stores it under `stdininput` and the stage reads `start`.

`memory_input` has regions of whole words behind the code, and breakpoints at least a word apart
(`Apart`). The code checks none of this; with breakpoints closer than a word `TrapsAreBreakpoints` fails as well, since each
saves and restores a whole word.

### Fairness

`ProcessWaiter!Fairness`: weak fairness of the waiter thread and of each thread of the
pool (the operating system schedules them; the only locks are short), weak fairness of
the exec stop of a child, and strong fairness of its exit: a program that is let run again
and again exits some time, unless it is stuck on a full pipe. A program that never exits is the
case of a timeout, which is possible whenever `"timeout"` is in the faults. Strong fairness of
`HandleStopFails` is the clock: a run that handles one stop after another finds its time
up in the end. Nothing is assumed about signals, kills or other faults. `Brute!FairSpec`:
weak fairness of the main thread and of each thread of the pool. `Pipeline!FairSpec`: weak
fairness of the program; the user may never press a key.

## 4. What is proved

For every set of threads, runs and ids, every `setting` and every set of faults unless
stated; for `Brute` every pool, `repeat`, set of generators and oracle; for `Pipeline`
every program under test.

| theorem | module | says | assumes |
|---|---|---|---|
| `TypeCorrect` | `ProcessWaiterProofs` | `Spec => []TypeOK` | - |
| `EventsStayWithTheirRun` | `ProcessWaiterProofs` | `Spec => []OwnEvents` | `NoReuse` |
| `NoStatusLeftBehind` | `ProcessWaiterProofs` | `Spec => []NoMissedWakeup` | `Entry = "B7Opts"` |
| `StatusesFollowIds` | `ProcessWaiterProofs` | `Spec => []ChannelsFollowIds` | - |
| `NeverDisconnected` | `ProcessWaiterProofs` | `Spec => []SenderAlive` | - |
| `DeathIsBlamed` | `RunProofs` | `Spec => []DeathFollowsFailure` | - |
| `NothingUncounted` | `RunProofs` | `Spec => []CountedFromStart` | - |
| `CountsAreComplete` | `RunProofs` | `Spec => []OkMeansExited` | `NoReuse` |
| `WaiterImplementsDelivery` | `DeliveryProofs` | `Spec => DeliverySpec` | `NoReuse` |
| `LeaksAreOfFailedRuns` | `DeliveryProofs` | `Spec => []LeaksComeTogether` | `NoReuse` |
| `CleanRunsSucceed` | `DeliveryProofs` | `Spec => []NoRunFails` | `NoReuse` |
| `NoJobIsLost` | `BruteProofs` | `Spec => []EveryJobReports` | - |
| `CountsAreUsed` | `BruteProofs` | `Spec => []ErrOnlyIfNothingCounted` | - |
| `OutlierStandsOut` | `BruteProofs` | `Spec => []OutlierIsFarthest` | counts |
| `BruteTypes` | `BruteProofs` | `Spec => []TypeOK` | counts, None |
| `UpdateKeepsItsWord` | `BruteProofs` | `Spec => []UpdateContract` | `CasesFit` |
| `InputsDiffer` | `BruteProofs` | `Spec => []GuessesDistinct` | counts, None, `CasesTell` |
| `BruteImplementsRounds` | `BruteProofs` | `Spec => RoundsSpec` | counts |
| `SessionTypes` | `PtraceProofs` | `Spec => []TypeOK` | `CasesApart` |
| `TheCodeIsRestored` | `PtraceProofs` | `Spec => []TrapsAreBreakpoints` | `CasesApart` |
| `InputComesFirst` | `PtraceProofs` | `Spec => []LoadedFirst` | `CasesApart` |
| `NeverWithinAnInstruction` | `PtraceProofs` | `Spec => []AtAnInstruction` | `CasesApart` |
| `NothingElseChanges` | `PtraceProofs` | `Spec => []StaysInRegions` | `CasesApart` |
| `ShownIsInCache` | `PipelineProofs` | `Spec => []ShownRoundExists` | - |
| `EachRoundIsShown` | `PipelineProofs` | `Spec => NewestShownFirst` | - |
| `JobsAreTimed` | `PipelineProofs` | `Spec => []TimeoutAsGiven` | - |
| `EarlierStagesStay` | `PipelineProofs` | `Spec => KeepsEarlierStages` | - |
| `StdinIsAsLong` | `PipelineProofs` | `Spec => []LengthsAgree` | None, `LengthsGiven` |
| `FailuresHaveCauses` | `PipelineProofs` | `Spec => []ErrHasCause` | None, `AlwaysCounts` |
| `ListsAreLongEnough` | `PipelineProofs` | `Spec => []LengthsSuffice` | - |
| `PipelineTypes` | `PipelineProofs` | `Spec => []PipelineTypeOK` | None |
| `FindsWhatIsWanted` | `TargetProofs` | `Spec => []RunSolves` | None, `Compares` |

The constants satisfy the ASSUMEs of their modules, which TLC evaluates in each run
(`ProgramsAssumption`, for one: timeouts are natural numbers of ticks, the interface is one of
the two, what is given in `init_input` has its types). What single theorems assume besides:

* `NoReuse`: no setting has the fault `pid_reuse`, process ids do not come round again while
  WAITER lives. `Entry = "B7Opts"`: SIGCHLD was blocked by `B7Opts::new`.
* counts (`CountsAssumption`): what `get_inst_count` returns is an integer or an error.
  None (`NoneAssumption`): None is neither a number nor a sequence, as in Rust. TLC has a model
  value for it.
* `CasesFit`: there is a character to try, each argument has a length, and one of length zero is
  followed by one of another length. Without it `update()` breaks its word (see the hazards).
* `CasesTell`: each of the arguments that `ArgvGenerator` is given has a length and at most one has
  characters. With two the inputs of a round are equal (see the hazards). TLC evaluates both on the generators of
  `brute_rounds` (`AllGeneratorsAssumption`).
* `CasesApart`: the memory inputs keep apart from the code and from one another, in whole words.
  Without it regions are overrun, as the run `memory_overrun` shows. TLC evaluates it on
  the memory inputs of `memory_input` (`WordsApartAssumption`).
* `LengthsGiven`: a program that uses the library and gives both stdin and its length gives the
  right one. The command line gives no stdin. TLC evaluates it on the sessions of `session`.
* `AlwaysCounts`: runs of the program under test give counts. `ErrHasCause` is about such
  programs; for others an error has the cause that nothing was counted.
* `Compares`: the program under test is one of `Target`, its count is that of `Comparing`. What it
  wants (`SecretArg`, `SecretStdin`, `SecretBytes`) is of any length and made of characters that
  are tried; the count (`Cost`) is any function that grows with the number of checks passed. A
  length has at least three candidates, and so has a character (`TargetAssumption`, which is
  satisfied by the 5, 20 and 51 lengths and the 95 characters of the code).

`RunSolves` itself is about options that are `Solvable`: what they give of an argument, of stdin or of a
region is what the program wants, and there is but one argument; a list of lengths begins with that of
this argument and may have more behind it. TLC evaluates it on the first 12 sessions of `session`
(`SolvableAssumption`).

The arguments.

`TypeOK` is inductive once `Shape` is added, which says what each step of a
thread relies on: a thread that is not idle is at a run whose child has an id, it has a
receiver from the registration on, and a status while it handles one. Without it nothing says
that `pidOf[cur[w]]` is an id, and the map would lose its type.

`RoutingInv` adds to that and to `OwnEvents` that no two children have the same id and that
the entry under an id is the channel of the child with that id. It follows that whoever comes
first, `spawn_process` or the waiter thread, both get the child's own channel
(`ChannelIsOwn`), which is what the comment on `spawn_waiting_thread` calls cases 1 and 2.

`WakeupInv` is `NoMissedWakeup` with SIGCHLD blocked on all threads, so that a raised SIGCHLD
stays pending until `SigWait`; `Drained` leaves no status behind.

`HoldingInv`, for ids that are reused, carries `ChannelsFollowIds` and `SenderAlive`: the
receiver a thread holds belongs to the entry under its child's id, no two threads hold the
same one, and the status a thread handles has that id too. So the entry that `Unlink` removes
is the thread's own and never one that another thread listens on.

`OneRunEach` (a child belongs to one thread at a time and a run returns once) is below
everything about runs. `Blame`: a channel loses its receiver only through a run that
gives up, and the waiter thread and the lock only through such a channel. `Counted`: a thread
traces no child but that of its own run, so nobody but that run lets a child go, and it does so
only after the counter was opened. `ExitIsLast`: an exit in a channel, or still to be returned
by `waitpid`, is the last there is of that child; a run that has come past it has seen
everything.

`Turns` is the heart of the refinement. A child that goes on has had all its statuses seen, and
one that is stopped has at most that stop on its way: therefore the child stands still while its
run handles a stop. With it each action is matched with a step of `WaitDelivery` or a
stutter: a child's change of state appends to the queue, the waiter thread's work does not
change it (the status moves from `report` to `buf`), `Receive` takes the head, a return
closes it. The lemmas on `Names` are what this needs of sequences.

`Kept`, in `DeliveryProofs`: the entry of a run that has failed, and of one that is under way,
stays in the map under an id that nobody else has.

`Clean`, in `DeliveryProofs`, says for settings without faults that each of the races that the
code depends on is won: a traced child is still alive when its counter is opened and its input
written, stopped when its stop is handled, nothing but stops comes before the exit, and nobody
else has the receiver when a run asks for it. With it none of the seven actions by which a run
fails is enabled (`NobodyFails`).

`Jobs`, in `BruteProofs`: the jobs of a round up to `next` are split between those at a thread and
those in the channel, without overlap, unless one has panicked. When no thread is at one
and all are taken, the channel has each of them once; counting them is `OneForEach`.

`BruteInv` adds three parts to that. `CountsInv`: a count at a thread or in the channel is one that
the program may have on the input of its job. `ResultsInv`: the results are the counts among the
first `received` messages, each once, so no error skips one. `RoundInv`: the data of the round
are what the calls of `next()` made since `began` have returned (`CallsSoFar`), and the numbers
that `next()` counts up (`Item`) tell them apart. When the generator returns None they are all
that `Calls(began)` has (`AllCalled`): this is the set that `Rounds` chooses from. The
refinement maps the messages to a function from inputs to counts (`Counted`), shows that it is
among the outcomes `Rounds` has, and that the outlier in the order of arrival lies farthest in
the set as well: a sum does not depend on the order (`SumRenamed`).

These facts are about recursion: the calls of `next()`, the running best of `find_outlier`, sums over
sets. An operator cannot be passed to an induction theorem here, but a set can. `Facts` takes the
least element of a set of numbers (`LeastNumber`, from which `NumbersInduct`) or of a set of
finite sets (`LeastSet`), and shows first that the recursive function exists (`CallsAre`,
`BestExists`, `AddsExists`). What is kept by `Stepped` is then kept by all calls (`CallsWithin`),
and `Calls(g)` is closed since `next()` counts up to a bound (`CallsClosed`, `MostOffers`).
`SteppedFits`, `UpdatedFits` and `MoreMeansOffers` are the promise of `update()`, one kind of
generator at a time. `Sibling` says of two calls of a round that they differ in the number
only, and `ItemsTell` that this number can be read off the input, at a place where both have a
character: that two inputs of a round differ is then a matter of one position.

`PtraceInv`: the memory of the child is, in every state, the program with a trap at each pending
breakpoint and the bytes of each loaded region in their place (`MemoryIs`). `LoadOne`, `TrapOne`
and `UntrapOne` say that this description survives each of the three ways in which memory is
written. `BreakpointsInv` says that what was saved at a breakpoint is the word of the program:
it is where words that overlap would fail. `RanInv` and `WhereInv` say that nothing runs before
the regions are dealt with, nor under a trap, and that a stopped child is at an instruction or
just behind a trap.

`Shown` and `Timed`, in `PipelineProofs`: `currun` is within the cache in every state, in all loops
over keys; `Timed` says of the timeout that it is what `opts` says, to the second, since the
last `set_timeout` unless `edited`.

`StageInv`: the generator of a call is of the kind of the stage that `run` is at, and pads stdin to the
length that is known by then; when the call returns Ok the answer is `combine` of the
input with a guess of such a generator. So what a stage may change is what the guess of its
kind says (`GuessParts`), which gives `KeepsEarlierStages` and `LengthsAgree`. `CauseInv`: unless
there is nothing to solve, the generator of a call that goes on has something to offer. It holds
for a new one by what the stage passes to it (`GeneratorOffers`) and in the next round by
`MoreMeansOffers`; for arguments `ArgvGoesOn` has it without an assumption on the list: either an
argument is empty where `next()` stops, or lengths are missing and it panics, or there is a character to try.
`FailuresHaveCauses` thus holds for any options. An early form of `ErrHasCause` counted only an empty
argument at the end: the attempt to prove it showed that an empty one before another empty one
belongs there too.

`ArgumentInv`: while the arguments are solved each round begins at an argument (`AtArgument`), which
`next()` leaves by one step at the most (`CallsAtArguments`) and `update()` only if it says there is
no more (`RoundAtArgument`). With a length for each argument no index is then out of bounds
(`LongEnough`). `ListsAreLongEnough` needs no assumption.

`TargetInv`, in `TargetProofs`, is about what a search has found so far. `RunSolves` only looks at
the end of `run()` and is far from inductive: it needs to be known of each round in
each stage which candidates are tried, which counts they have and where the next round begins.

* A round offers a row of numbers (`Nth`, `OffersAll`): the calls of `next()` are the candidates
  from the first number to the last (`RowOfCalls`, by induction over the numbers).
* Among three candidates or more of which all but one have the same count, that one is farthest
  from the average (`StandsOut`, in `Facts`), with the division of the code, which rounds
  (`AverageIsLow`). Of two neither stands out.
* All candidates of a stage agree in everything but one part of the input, and the wanted one
  passes more checks (`OnePartDiffers`, `StagePicks`): its count is higher by whatever `Cost` is
  higher. For a character, `Grows` and `CandidateAgrees` say that with the first `k`
  characters solved, the `k+1`st right and any padding, the comparison comes further
  than with a wrong one, be the padding right by chance or not. `GrowsBehind`
  joins the characters that `start` gives to those solved behind them.
* One lemma for each kind of round says which generator comes next: `ArgcRound`, `ArgvLenRound`,
  `StdinLenRound` end a call at once; `ArgvRound`, `StdinRound` and `MemRound` go from the
  generator with `k` characters solved to that with `k + 1`, or to the end.
* `TargetInv` puts them together: the generator of a call is one of those, solved as far as it has
  come (`CallFinds`, `Planned`), and the input has what the stages passed so far have found
  (`KnownArgv`, `KnownStdin`, `KnownMem`). `Ended`: `run()` returns Ok only from the
  last stage. It rests on `StageInv`. TLC found it true of every state of `session` before it was
  proved.

Proving it changed `Solvable`: a region given with more bytes than its size
would have the generator of a memory input go on for ever, and nothing in the first form of it
excluded that.

Only model-checked:

* liveness (`EveryRunEnds`, `BruteReturns`, `ContinueGoesThrough`): proofs under fairness need
  ENABLED, which the prover does not handle.

## 5. Plan

Done: everything of the first plan; the modules, runs and theorems above.

What is left:

1. Programs under test whose count varies from run to run: what distance between two checks
   is enough for `RunSolves`. `Target` has a count that does not vary.
2. What is solved of two arguments that both have characters, once it is settled what
   `ArgvGenerator::current` should give there: `session` has them, and `RunSolves` leaves them out.
3. `Pipeline` on top of `ProcessWaiter` rather than of an oracle, for one stage with two
   candidates: that what a panicking job leaves behind does not reach a later call of `brute()`.

## 6. Not modelled

* Drawing, the gap between bars, the format of numbers, and the value of the option Repeat, which
  the interface edits and nothing reads (`b7tui.rs`).
* Splitting a command line into options (the clap library); the text of a memory input beyond
  which of its fields are there; the text that `drrun` prints and the regular expression
  over it: conversions without state.
* `binary.rs`, which reads the class of an ELF file; `errors.rs`, types only; `build.rs` and
  `bindings.rs`, generated. They have no state and no control of their own.
* A fork or exec that fails, and `Process::new` on a missing file: no child comes about, and the
  error goes up before anything is shared.
* Setters of generators without a caller in the repository (`set_padchr`, `set_suffix`), and
  `ProcessWaiter::init_for_thread`, which has none either.
* `ArgvGenerator` with two arguments that both have characters is in the model and in `session`, but not in
  what `GuessesDistinct` and `RunSolves` are about: from the second on it offers equal inputs (see the hazards). Initial bytes longer than their
  region would make `MemGenerator` go on for ever.
* Processes of the program under test other than the child: one that keeps the pipe open holds up
  `DynamorioSolver`.
