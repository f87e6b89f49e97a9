------------------------------- MODULE Target -------------------------------
(***************************************************************************)
(* A program under test that B7 is made for, as those that src/tests       *)
(* solves: it compares its argument, its stdin and its memory with what it *)
(* wants, one element after the other, and executes more instructions with *)
(* each check that passes.  B7Opts::run() finds what it wants.             *)
(***************************************************************************)
EXTENDS Pipeline, FiniteSets

CONSTANTS
  SecretArg, SecretStdin, SecretBytes,   \* what it wants
  Cost(_)                                \* instructions it executes when so
                                         \* many of its checks have passed

MostChecks == 2 + Len(SecretArg) + 1 + Len(SecretStdin) + Len(SecretBytes)

\* What it wants is among what is tried, and it is costly to come further.  At
\* least three candidates make up a round: two are always as far from their
\* average as each other.
ASSUME TargetAssumption ==
  /\ SecretArg \in Seq(MinChr..MaxChr) /\ Len(SecretArg) <= ArgvLenMax
  /\ SecretStdin \in Seq(MinChr..MaxChr) /\ Len(SecretStdin) <= StdinLenMax
  /\ SecretBytes \in Seq(0..ByteMax)
  /\ MinChr + 2 <= MaxChr /\ MaxChr <= ByteMax
  /\ \A most \in {ArgcMax, ArgvLenMax, StdinLenMax} : 2 <= most
  /\ \A n \in 0..MostChecks : Cost(n) \in Nat /\ \A m \in 0..n - 1 : Cost(m) < Cost(n)

\* How far a comparison from the left comes.
Agree(s, t) ==
  Cardinality({n \in 1..Len(t) : \A i \in 1..n : i \in DOMAIN s /\ s[i] = t[i]})

Compared(s, t) == IF Len(s) = Len(t) THEN 1 + Agree(s, t) ELSE 0

ArgvPassed(argv) ==
  IF argv # Absent /\ Len(argv) = 1 THEN 1 + Compared(argv[1], SecretArg) ELSE 0

StdinPassed(stdin) == IF stdin # Absent THEN Compared(stdin, SecretStdin) ELSE 0

MemPassed(mem) ==
  IF mem # Absent /\ mem # <<>> THEN Agree(mem[1].bytes, SecretBytes) ELSE 0

Comparing(inp) == {Cost(ArgvPassed(inp.argv) + StdinPassed(inp.stdin) + MemPassed(inp.mem))}

-----------------------------------------------------------------------------
\* Options that do not lead astray: what they give is what the program wants,
\* or leaves nothing to solve.
Solvable(sessions) == \A o \in sessions :
  LET given == o.init_input
      start == IF "start" \in DOMAIN o.vars THEN o.vars["start"] ELSE <<>>
      len == Or(given.stdinlen, Len(SecretStdin))
  IN
  /\ o.solve_argv /\ given.argc \notin {Absent, 0} =>
       /\ given.argc = 1
       /\ given.argvlens # Absent =>
            given.argvlens # <<>> /\ given.argvlens[1] = Len(SecretArg)
  /\ o.solve_stdin /\ Len(start) < len =>
       len = Len(SecretStdin) /\ start = SubSeq(SecretStdin, 1, Len(start))
  /\ given.mem # Absent => \A i \in DOMAIN given.mem :
       LET r == given.mem[i] IN
       /\ r.size \in 0..Len(SecretBytes) /\ Len(r.bytes) \in 0..r.size
       /\ r.bytes = SubSeq(SecretBytes, 1, Len(r.bytes))

\* What run() can bring such a program to accept: the number of arguments, their
\* length if the number was given, and their characters if the lengths were;
\* stdin; and the last region, the only one that is left (see RegionsCollected).
RunSolves ==
  result = "Ok" /\ Solvable({opts}) =>
    /\ opts.solve_argv => Len(input.argv) = 1
    /\ ArgvToSolve => Len(input.argv[1]) = Len(SecretArg)
    /\ ArgvToSolve /\ opts.init_input.argvlens # Absent => input.argv = <<SecretArg>>
    /\ opts.solve_stdin => input.stdin = SecretStdin
    /\ opts.init_input.mem \notin {Absent, <<>>} =>
         LET region == input.mem[Len(input.mem)] IN
         region.bytes = SubSeq(SecretBytes, 1, region.size)

\* The documentation of default_arg_brute: it solves the number of arguments,
\* their lengths and their characters.
ArgumentsSolved == opts.solve_argv => input.argv = <<SecretArg>>

\* What run() returns is complete in one of these two stages at least, as the
\* documentation has it of both: where this fails neither is.
OneStageComplete == result = "Ok" => ArgumentsSolved \/ RegionsCollected
=============================================================================
