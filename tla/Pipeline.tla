------------------------------ MODULE Pipeline ------------------------------
(***************************************************************************)
(* src/lib.rs: B7Opts::run() and the three default_*_brute functions, with *)
(* the options that src/main.rs makes of a command line.  A call of        *)
(* brute() is what Rounds says it is, with the calls of the user interface *)
(* (B7tui) that come between the counts of a round and the choice.         *)
(***************************************************************************)
EXTENDS Integers, Sequences, Generators, B7tui

CONSTANTS
  CountsOf(_),   \* see Rounds
  Panics,        \* see Rounds
  ArgcMax, ArgvLenMax, StdinLenMax,   \* 5, 20 and 51 in the code
  MinChr, MaxChr,                     \* 0x20 and 0x7e
  Programs       \* the B7Opts to run

ASSUME PipelineAssumption ==
  /\ {ArgcMax, ArgvLenMax, StdinLenMax, MinChr, MaxChr} \subseteq Nat
  /\ MinChr <= MaxChr /\ MinChr <= ByteMax

ASSUME ProgramsAssumption == \A o \in Programs :
  /\ o.timeout \in Nat /\ o.ui \in {"tui", "env"}
  /\ "start" \in DOMAIN o.vars => o.vars["start"] \in Seq(Nat)
  /\ LET given == o.init_input IN
     /\ DOMAIN given = DOMAIN Input
     /\ {given.argc, given.stdinlen} \subseteq Nat \cup {Absent}
     /\ given.argvlens = Absent \/ given.argvlens \in Seq(Nat)
     /\ given.mem = Absent \/ given.mem \in Seq({given.mem[i] : i \in DOMAIN given.mem})

VARIABLES
  opts,      \* the B7Opts
  pc,        \* where run() is: the call of brute() it is at or comes to next
  calling,   \* is that call under way?
  timed,     \* the timeout that the jobs of the last round ran with
  input,     \* `solved`, outside of brute()
  left,      \* regions that default_mem_brute has yet to come to
  result,    \* what run() returned
  gen, solved, outcome, answer   \* of the call of brute()

runVars == <<opts, pc, calling, timed, input, left, result>>
bruteVars == <<gen, solved, outcome, answer>>
vars == <<runVars, bruteVars, tuiVars>>

brute == INSTANCE Rounds

-----------------------------------------------------------------------------
(* The options                                                             *)

\* B7Opts::new; a duration is in ticks.
B7Opts ==
  [init_input |-> Input, drop_ptrace |-> FALSE, solve_argv |-> FALSE,
   solve_stdin |-> FALSE, ui |-> "env", timeout |-> Second, vars |-> [dynpath |-> <<>>]]

\* MemInput::parse_from_arg takes an argument with an address and a size that
\* it can read, and an initial input in hex if there is one.
Parses_mem(arg) == arg.addr /\ arg.size # Absent
MemInput(arg) == [size |-> arg.size, bytes |-> Or(arg.init, <<>>)]

\* Does main() come to run()?  clap lets no --drop-ptrace with --mem-brute pass.
Accepts(m) ==
  m.mem_brute # Absent =>
    /\ ~m.drop_ptrace
    /\ \A i \in DOMAIN m.mem_brute : Parses_mem(m.mem_brute[i])

\* main(): --no-arg and --no-stdin switch a stage off, --start goes into vars.
FromCommandLine(m) ==
  [init_input |->
     [Input EXCEPT !.stdinlen = m.stdin_len,
                   !.argv = m.args,
                   !.mem = IF m.mem_brute = Absent THEN Absent
                           ELSE [i \in DOMAIN m.mem_brute |-> MemInput(m.mem_brute[i])]],
   drop_ptrace |-> m.drop_ptrace,
   solve_argv |-> ~m.no_arg,
   solve_stdin |-> ~m.no_stdin,
   ui |-> Or(m.ui, "tui"),
   timeout |-> Second * Or(m.timeout, 5),
   vars |-> [dynpath |-> <<>>, stdininput |-> Or(m.start, <<>>)]]

-----------------------------------------------------------------------------
Init ==
  /\ opts \in Programs
  /\ pc = "argc"
  /\ calling = FALSE
  /\ timed = Absent
  /\ input = opts.init_input
  /\ left = <<>>
  /\ result = "none"
  /\ gen = Absent /\ solved = Absent
  /\ outcome = "running" /\ answer = Absent
  /\ TuiInit(opts.ui)

At(p) == pc = p /\ ~calling /\ result = "none"

GoTo(p) == pc' = p /\ UNCHANGED <<opts, calling, timed, input, left, result, bruteVars>>

\* A call of brute() with a new generator.
Call(g) ==
  /\ calling' = TRUE
  /\ gen' = g
  /\ solved' = input
  /\ outcome' = "running"
  /\ answer' = Absent
  /\ UNCHANGED <<opts, pc, timed, input, result>>

BeginStage == edited' = FALSE

\* Where run() goes when the call it is at has returned Ok.
Following ==
  [argc |-> "argvlen", argvlen |-> "argv", argv |-> "stdinlen",
   stdinlen |-> "stdinchar", stdinchar |-> "mem", region |-> "region"]

-----------------------------------------------------------------------------
(* default_arg_brute                                                       *)

SolveArgc ==
  /\ At("argc")
  /\ opts.solve_argv
  /\ BeginStage /\ set_timeout(opts.timeout)
  /\ Call(LenGenerator("argc", 0, ArgcMax))
  /\ UNCHANGED left

\* `init_input` is what the stage was called with, without what it has solved.
ArgvToSolve == opts.solve_argv /\ opts.init_input.argc \notin {Absent, 0}

SolveArgvLen ==
  /\ At("argvlen")
  /\ ArgvToSolve
  /\ Call(ArgvLenGenerator(opts.init_input.argc, 0, ArgvLenMax))
  /\ UNCHANGED <<left, tuiVars>>

SolveArgv ==
  /\ At("argv")
  /\ ArgvToSolve
  /\ opts.init_input.argvlens # Absent
  /\ Call(ArgvGenerator(opts.init_input.argc, opts.init_input.argvlens, MinChr, MaxChr))
  /\ UNCHANGED <<left, tuiVars>>

SkipArgv ==
  /\ \/ At("argc") /\ ~opts.solve_argv
     \/ At("argvlen") /\ ~ArgvToSolve
     \/ At("argv") /\ (ArgvToSolve => opts.init_input.argvlens = Absent)
  /\ GoTo("stdinlen")
  /\ UNCHANGED tuiVars

-----------------------------------------------------------------------------
(* default_stdin_brute                                                     *)

SolveStdinLenNoTimeout ==   \* mutant: the stage takes over the timeout it finds
  /\ At("stdinlen")
  /\ opts.solve_stdin
  /\ BeginStage
  /\ UNCHANGED <<left, ui, at, numrun, currun, cont, tab, selected, timeout, buffer, eof>>
  /\ IF input.stdinlen = Absent
       THEN Call(LenGenerator("stdinlen", 0, StdinLenMax))
       ELSE GoTo("stdinchar")

\* The length is solved unless it is known.
SolveStdinLen ==
  /\ At("stdinlen")
  /\ opts.solve_stdin
  /\ BeginStage /\ set_timeout(opts.timeout)
  /\ UNCHANGED left
  /\ IF input.stdinlen = Absent
       THEN Call(LenGenerator("stdinlen", 0, StdinLenMax))
       ELSE GoTo("stdinchar")

\* vars.get("start")
Start == IF "start" \in DOMAIN opts.vars THEN opts.vars["start"] ELSE <<>>

\* There is a length now; the characters are solved even if it is zero.
SolveStdin ==
  /\ At("stdinchar")
  /\ Call(StdinCharGenerator(input.stdinlen, MinChr, MaxChr, Start))
  /\ UNCHANGED <<left, tuiVars>>

SkipStdin ==
  /\ At("stdinlen")
  /\ ~opts.solve_stdin
  /\ GoTo("mem")
  /\ UNCHANGED tuiVars

-----------------------------------------------------------------------------
(* default_mem_brute                                                       *)

DropConflicts ==
  /\ At("mem")
  /\ opts.init_input.mem # Absent
  /\ opts.drop_ptrace
  /\ result' = "Err"
  /\ UNCHANGED <<opts, pc, calling, timed, input, left, bruteVars, tuiVars>>

SolveMem ==
  /\ At("mem")
  /\ opts.init_input.mem # Absent
  /\ ~opts.drop_ptrace
  /\ BeginStage /\ set_timeout(opts.timeout)
  /\ left' = input.mem
  /\ pc' = "region"
  /\ UNCHANGED <<opts, calling, timed, input, result, bruteVars>>

SolveRegion ==
  /\ At("region")
  /\ left # <<>>
  /\ Call(MemGenerator(Head(left).size, Head(left).bytes))
  /\ left' = Tail(left)
  /\ UNCHANGED tuiVars

Done ==
  /\ \/ At("mem") /\ opts.init_input.mem = Absent
     \/ At("region") /\ left = <<>>
  /\ GoTo("done")
  /\ done

-----------------------------------------------------------------------------
(* brute()                                                                 *)

\* The jobs of a round are over; terminal.update() and terminal.wait().
Count ==
  /\ calling
  /\ outcome = "running"
  /\ \A h \in Calls(gen) : ~OutOfBounds(h)
  /\ timed' = get_timeout
  /\ update
  /\ UNCHANGED <<opts, pc, calling, input, left, result, bruteVars>>

\* A job panics, and brute() with it.
CountPanics ==
  /\ calling
  /\ at = "idle"
  /\ brute!Panic
  /\ UNCHANGED <<runVars, tuiVars>>

\* The next input cannot be made, and brute() panics.
CollectPanics ==
  /\ calling
  /\ at = "idle"
  /\ brute!NextPanics
  /\ UNCHANGED <<runVars, tuiVars>>

\* No run under perf gives a count in no time: it has a stop to handle first.
NoTime ==
  /\ timed = 0
  /\ outcome = "running"
  /\ outcome' = "Err"
  /\ UNCHANGED <<gen, solved, answer>>

Choose ==
  /\ calling
  /\ \/ timed # 0 /\ brute!Round
     \/ NoTime
     \/ brute!NoResult
  /\ resume
  /\ UNCHANGED runVars

BruteReturns ==
  /\ calling
  /\ outcome = "Ok"
  /\ input' = answer
  /\ calling' = FALSE
  /\ pc' = Following[pc]
  /\ UNCHANGED <<opts, timed, left, result, bruteVars, tuiVars>>

\* `?`, a panic in brute(), or `q`.
RunFails ==
  /\ result = "none"
  /\ \/ calling /\ outcome \in {"Err", "panicked"} /\ result' = outcome
     \/ at = "quit" /\ result' = "panicked"
  /\ UNCHANGED <<opts, pc, calling, timed, input, left, bruteVars, tuiVars>>

RunReturns ==
  /\ result = "none"
  /\ at = "closed"
  /\ result' = "Ok"
  /\ UNCHANGED <<opts, pc, calling, timed, input, left, bruteVars, tuiVars>>

-----------------------------------------------------------------------------
RunStep ==
  \/ SolveArgc \/ SolveArgvLen \/ SolveArgv \/ SkipArgv
  \/ SolveStdinLen \/ SolveStdin \/ SkipStdin
  \/ DropConflicts \/ SolveMem \/ SolveRegion \/ Done
  \/ Count \/ CountPanics \/ CollectPanics \/ Choose \/ BruteReturns
  \/ RunFails \/ RunReturns
  \/ LoopEnds /\ UNCHANGED <<runVars, bruteVars>>

Returned == result # "none" /\ UNCHANGED vars

Next ==
  \/ RunStep
  \/ UserStep /\ UNCHANGED <<runVars, bruteVars>>
  \/ Returned

Spec == Init /\ [][Next]_vars

\* The program goes on by itself; the user may never press a key.
FairSpec == Spec /\ WF_vars(RunStep)
-----------------------------------------------------------------------------
(* Properties                                                              *)

PipelineTypeOK ==
  /\ pc \in DOMAIN Following \cup {"mem", "done"}
  /\ calling \in BOOLEAN
  /\ result \in {"none", "Ok", "Err", "panicked"}
  /\ outcome \in {"running", "Ok", "Err", "panicked"}
  /\ at \in {"idle", "waiting", "editing", "back", "done", "closed", "quit"}
  /\ numrun \in Nat /\ timeout \in Nat
  /\ tab \in Tabs /\ selected \in 0..TimeoutOption \cup 0..HistoryLen + 1
  /\ Len(left) <= (IF input.mem = Absent THEN 0 ELSE Len(opts.init_input.mem))
  /\ timed \in Nat \cup {Absent}
  /\ calling => gen # Absent /\ solved = input

\* The code of default_stdin_brute: "solve stdin if there is stuff to solve".
\* Of a stdin of length zero there is not, and run() does not fail there.
EmptyStdinIsFine == ~(result = "Err" /\ pc = "stdinchar" /\ input.stdinlen = 0)

\* The documentation of default_mem_brute: "Brute force memory regions and
\* collect results".  Each of the regions given is there, in full.
RegionsCollected ==
  opts.init_input.mem # Absent =>
    \A i \in DOMAIN opts.init_input.mem : \E j \in DOMAIN input.mem :
      LET size == opts.init_input.mem[i].size IN
      input.mem[j].size = size /\ Len(input.mem[j].bytes) = size

\* What a stage has solved stays as it is in the stages after it.
KeepsEarlierStages ==
  [][/\ pc \in {"stdinlen", "stdinchar", "region"} => input'.argv = input.argv
     /\ pc \in {"stdinchar", "region"} => input'.stdinlen = input.stdinlen
     /\ pc = "region" => input'.stdin = input.stdin]_vars

\* All along, what is passed as stdin has the length that was solved or given.
LengthsAgree ==
  input.stdin # Absent /\ input.stdinlen # Absent => Len(input.stdin) = input.stdinlen

\* A program that uses the library may give both.
LengthsGiven == \A o \in Programs :
  LET given == o.init_input IN
  given.stdin # Absent /\ given.stdinlen # Absent => Len(given.stdin) = given.stdinlen

\* What leaves a generator without an input to offer.  An argument of length
\* zero that is the last one, or that another one follows:
EmptyArgument ==
  LET lens == opts.init_input.argvlens
      argc == opts.init_input.argc
  IN \E p \in DOMAIN lens \cap 1..argc :
       lens[p] = 0 /\ (p = argc \/ (p + 1 \in DOMAIN lens /\ lens[p + 1] = 0))

\* no character of stdin behind the start:
StartFillsStdin == input.stdinlen <= Len(Start)

\* and all bytes of the region at hand given.
RegionGiven ==
  LET region == opts.init_input.mem[Len(opts.init_input.mem) - Len(left)]
  IN Len(region.bytes) = region.size

\* A program whose runs give counts is solved, and an error of run() comes from
\* the stage it was at: a timeout of zero, ptrace dropped where memory input
\* needs it, or a stage of which the options, or for stdin the length solved
\* before, leave nothing to do.  That an empty stdin is an error goes against
\* what the code says of it: see EmptyStdinIsFine.
ErrHasCause ==
  result = "Err" =>
    \/ timed = 0
    \/ pc = "argv" /\ EmptyArgument
    \/ pc = "stdinchar" /\ StartFillsStdin
    \/ pc = "region" /\ RegionGiven
    \/ pc = "mem" /\ opts.drop_ptrace

\* From the first round to the last next() takes a length beyond the list of
\* ArgvGenerator only if that has fewer than there are arguments: update() does
\* not lead beyond the last argument, and an empty one does not either.
LengthsSuffice ==
  calling /\ outcome = "running" /\ (\E h \in Calls(gen) : OutOfBounds(h)) =>
    pc = "argv" /\ Len(opts.init_input.argvlens) < opts.init_input.argc

\* Jobs run with the timeout of B7Opts, down to a second in Tui, from the first
\* round of each stage on, unless the user has edited it within the stage.
TimeoutAsGiven ==
  calling /\ at = "idle" /\ ~edited =>
    /\ get_timeout <= opts.timeout /\ opts.timeout - get_timeout < Second
    /\ ui = "env" => get_timeout = opts.timeout

\* Once the user has said to continue, no key is needed until all is solved.
ContinueGoesThrough == cont ~> (result # "none" \/ at = "done")
=============================================================================
