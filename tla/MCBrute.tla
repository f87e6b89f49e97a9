------------------------------- MODULE MCBrute -------------------------------
(***************************************************************************)
(* Instances of Brute for TLC: generators at a small scale, and a program  *)
(* under test that is helpful with its memory only.                        *)
(***************************************************************************)
EXTENDS Brute

With(g, s) == [gen |-> g, solved |-> s]
Padlen(n) == [Input EXCEPT !.stdinlen = n]

\* Characters and bytes go from 0 to 2.
AllGenerators ==
  {With(LenGenerator("stdinlen", 0, 2), Input),
   With(LenGenerator("argc", 0, 2), Input),
   With(StdinCharGenerator(2, 0, 2, <<>>), Padlen(2)),
   With(StdinCharGenerator(3, 0, 2, <<2>>), Padlen(3)),
   With(ArgvLenGenerator(2, 0, 2), Input),
   With(ArgvGenerator(1, <<2>>, 0, 2), Input),
   With(ArgvGenerator(1, <<1, 0>>, 0, 2), Input),
   With(ArgvGenerator(2, <<0, 2>>, 0, 2), Input),
   With(MemGenerator(2, <<>>), Input),
   With(MemGenerator(2, <<1>>), Input)}

\* All of them can keep their promises, with what is solved already.
ASSUME AllGeneratorsAssumption ==
  \A c \in AllGenerators : /\ Fits(c.gen) /\ TellsApart(c.gen)
                           /\ DOMAIN c.solved = DOMAIN Input

\* Fewer lengths than arguments: next() panics.
ShortLists ==
  {With(ArgvGenerator(1, <<>>, 0, 2), Input),
   With(ArgvGenerator(2, <<0>>, 0, 2), Input),
   With(ArgvGenerator(2, <<2>>, 0, 2), Input)}

GeneratorsAndShortLists == AllGenerators \cup ShortLists

OneGenerator == {With(LenGenerator("stdinlen", 0, 1), Input)}

\* A program that does not take the same way each time.
Unsteady(inp) == {10, 14}

Wanted == <<1, 2>>

\* A program that compares memory with what it wants, where it runs longer if
\* all is right so far.  Of any other input its counts say nothing, and its
\* runs may fail.
Program(inp) ==
  IF inp.mem = Absent
    THEN {10, 11, Absent}
    ELSE LET bytes == inp.mem[1].bytes IN
         IF bytes = SubSeq(Wanted, 1, Len(bytes)) THEN {11} ELSE {10}
=============================================================================
