----------------------------- MODULE MCPipeline -----------------------------
(***************************************************************************)
(* Instances of Pipeline for TLC: command lines and options, and what the  *)
(* program under test wants.                                               *)
(***************************************************************************)
EXTENDS Target

WantedArg == <<2, 0>>
WantedStdin == <<2, 0>>
WantedBytes == <<1, 2>>

\* A check is the more costly the further it comes.
Longer(n) == 10 + n * n

-----------------------------------------------------------------------------
(* Command lines                                                           *)

NoFlags ==
  [args |-> Absent, no_arg |-> FALSE, no_stdin |-> FALSE, stdin_len |-> Absent,
   mem_brute |-> Absent, drop_ptrace |-> FALSE, timeout |-> Absent,
   start |-> Absent, ui |-> Absent]
Region(size, init) == [addr |-> TRUE, size |-> size, init |-> init]

CommandLines ==
  {NoFlags,
   [NoFlags EXCEPT !.no_arg = TRUE, !.ui = "env", !.timeout = 1, !.start = <<2>>],
   [NoFlags EXCEPT !.no_arg = TRUE, !.stdin_len = 0, !.ui = "env"],
   [NoFlags EXCEPT !.no_arg = TRUE, !.no_stdin = TRUE, !.args = <<<<1>>>>],
   [NoFlags EXCEPT !.no_stdin = TRUE, !.args = <<<<1>>>>, !.ui = "env",
                   !.mem_brute = <<Region(1, Absent), Region(2, <<1>>)>>],
   [NoFlags EXCEPT !.no_arg = TRUE, !.ui = "env", !.mem_brute = <<Region(2, Absent)>>],
   [NoFlags EXCEPT !.no_arg = TRUE, !.no_stdin = TRUE, !.mem_brute = <<Region(1, <<1>>)>>],
   [NoFlags EXCEPT !.no_arg = TRUE, !.no_stdin = TRUE, !.mem_brute = <<Region(Absent, <<1>>)>>],
   [NoFlags EXCEPT !.drop_ptrace = TRUE, !.mem_brute = <<Region(1, Absent)>>]}

\* Programs that use the library.
LibraryUses ==
  {[B7Opts EXCEPT !.init_input.argc = 1, !.init_input.argvlens = <<2, 1>>,
                  !.solve_argv = TRUE, !.solve_stdin = TRUE, !.timeout = 1],
   [B7Opts EXCEPT !.init_input.argc = 1, !.solve_argv = TRUE],
   [B7Opts EXCEPT !.init_input.stdinlen = 2, !.solve_stdin = TRUE, !.ui = "tui",
                  !.vars = [start |-> <<2>>], !.timeout = Second + 1],
   [B7Opts EXCEPT !.solve_stdin = TRUE, !.ui = "tui", !.timeout = 1],
   [B7Opts EXCEPT !.init_input.mem = <<[size |-> 1, bytes |-> <<>>]>>,
                  !.solve_stdin = TRUE, !.drop_ptrace = TRUE]}

Sessions == {FromCommandLine(m) : m \in {m \in CommandLines : Accepts(m)}} \cup LibraryUses

\* Lists of lengths of all kinds: as many as arguments, more, fewer, with empty ones.
ArgvSession(argc, lens) ==
  [B7Opts EXCEPT !.init_input.argc = argc, !.init_input.argvlens = lens, !.solve_argv = TRUE]

ArgvLists ==
  {ArgvSession(1, <<1>>), ArgvSession(1, <<1, 0>>), ArgvSession(1, <<0, 2>>), ArgvSession(1, <<>>),
   ArgvSession(2, <<2, 1>>), ArgvSession(2, <<0, 2>>), ArgvSession(2, <<2, 0>>),
   ArgvSession(2, <<2>>), ArgvSession(2, <<0, 0, 1>>)}

AllSessions == Sessions \cup ArgvLists

\* Arguments and two regions; a stdin of length zero.
ArgumentsAndRegions ==
  {FromCommandLine([NoFlags EXCEPT !.no_stdin = TRUE, !.ui = "env",
                                   !.mem_brute = <<Region(1, Absent), Region(2, <<1>>)>>])}
EmptyStdin ==
  {FromCommandLine([NoFlags EXCEPT !.no_arg = TRUE, !.stdin_len = 0, !.ui = "env"])}

\* The theorem on LengthsAgree is about programs like these, and RunSolves about
\* the sessions that do not lead astray.
ASSUME LengthsGivenAssumption == LengthsGiven
ASSUME SolvableAssumption == Solvable(Sessions)
=============================================================================
