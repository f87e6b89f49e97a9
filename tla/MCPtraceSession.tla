--------------------------- MODULE MCPtraceSession ---------------------------
(***************************************************************************)
(* Instances of PtraceSession for TLC: a program of five instructions,     *)
(* of one byte or two, with a loop, and data behind it for memory input.   *)
(***************************************************************************)
EXTENDS PtraceSession, TLC

SmallProgram == 0 :> {2} @@ 2 :> {3} @@ 3 :> {4} @@ 4 :> {2, 6} @@ 6 :> {}
SmallImage == [a \in 0..15 |-> 10 + a]

R(addr, size, bytes, bp) ==
  [addr |-> addr, size |-> size, bytes |-> bytes, breakpoint |-> bp]

\* What brute() makes of a region of two bytes, from nothing to all of it.
Guesses == {<<>>, <<5>>, <<5, 6>>}

\* Regions of whole words, breakpoints no closer than a word.
WordsApart ==
  {<<R(8, 2, g, bp)>> : g \in Guesses, bp \in {0, 2, None}} \cup
  {<<R(8, 2, g, bp), R(12, 2, h, 4)>> :
     g \in Guesses, h \in Guesses, bp \in {0, 2, None}} \cup
  {<<R(12, 4, g \o g, 4), R(8, 2, h, bp)>> :
     g \in Guesses, h \in Guesses, bp \in {2, 6, None}}

ASSUME WordsApartAssumption == \A c \in WordsApart : Apart(c)

\* A region that ends within a word.
ThreeBytes == {<<R(8, 3, <<5, 6, 7>>, None)>>}
=============================================================================
