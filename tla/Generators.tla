----------------------------- MODULE Generators -----------------------------
(***************************************************************************)
(* src/generators.rs: the iterators that propose the inputs of each round, *)
(* as records, and what they do to them.  For a generator g                *)
(*   Offers(g)      next() returns Some                                    *)
(*   Ends(g)        next() returns None                                    *)
(*   OutOfBounds(g) next() panics: it indexes a list that is too short     *)
(*   Item(g)        its GenItem                                            *)
(*   Guess(g)       its Input                                              *)
(*   Stepped(g)     the generator after next(), if it returned             *)
(*   Updated(g, i)  the generator after update(i)                          *)
(*   More(g, i)     what update(i) returns                                 *)
(* A character is a number; an index into a vector is one more than in the *)
(* code.  Breakpoints and addresses of memory inputs play no part here.    *)
(* Prefix, suffix and padding character keep the values of the             *)
(* constructors, since no code calls the setters.                          *)
(***************************************************************************)
EXTENDS Integers, Sequences

CONSTANTS
  ByteMax,    \* 255 in the code
  PadChr,     \* 0x41
  Absent      \* Option::None

ASSUME GeneratorAssumption ==
  /\ ByteMax \in Nat
  /\ PadChr \in 0..ByteMax

Or(a, b) == IF a # Absent THEN a ELSE b

Input == [argc |-> Absent, argvlens |-> Absent, argv |-> Absent,
          stdinlen |-> Absent, stdin |-> Absent, mem |-> Absent]

combineOver(self, tmp) ==   \* mutant: stdin is taken over even if there is none
  [self EXCEPT !.argv = Or(tmp.argv, @), !.stdinlen = Or(tmp.stdinlen, @),
               !.stdin = tmp.stdin, !.mem = Or(tmp.mem, @)]

\* Input::combine.  Neither argc nor argvlens comes from the second input.
combine(self, tmp) ==
  [self EXCEPT !.argv = Or(tmp.argv, @), !.stdinlen = Or(tmp.stdinlen, @),
               !.stdin = Or(tmp.stdin, @), !.mem = Or(tmp.mem, @)]

PadTo(s, n) == [i \in 1..n |-> IF i <= Len(s) THEN s[i] ELSE PadChr]
Pads(n) == PadTo(<<>>, n)

-----------------------------------------------------------------------------
(* StdinLenGenerator and ArgcGenerator: one round of lengths               *)

LenGenerator(kind, min, max) == [kind |-> kind, len |-> min, max |-> max, correct |-> 0]

StdinLenGuess(g) == [Input EXCEPT !.stdinlen = g.len, !.stdin = Pads(g.len)]

ArgcGuess(g) ==
  [Input EXCEPT !.argv = [i \in 1..g.len |-> <<>>], !.argc = g.len]

-----------------------------------------------------------------------------
(* StdinCharGenerator: one round for each character of stdin               *)

\* `new` has an empty start.
StdinCharGenerator(padlen, min, max, start) ==
  [kind |-> "stdinchar", padlen |-> padlen, prefix |-> start, idx |-> Len(start),
   cur |-> min, correct |-> <<>>, min |-> min, max |-> max]

StdinCharOffers(g) ==
  /\ g.padlen # Absent
  /\ g.idx < g.padlen /\ g.cur <= ByteMax /\ g.cur <= g.max

StdinCharGuessShort(g) ==   \* mutant: off by one, the last character is cut off
  [Input EXCEPT !.stdin = PadTo(Append(g.prefix \o g.correct, g.cur), g.padlen - 1)]

StdinCharGuessAlone(g) ==   \* mutant: without the characters found so far
  [Input EXCEPT !.stdin = PadTo(Append(g.prefix, g.cur), g.padlen)]

StdinCharGuess(g) ==
  [Input EXCEPT !.stdin = PadTo(Append(g.prefix \o g.correct, g.cur), g.padlen)]

StdinCharUpdated(g, chosen) ==
  [g EXCEPT !.correct = Append(@, chosen), !.idx = @ + 1, !.cur = g.min]

-----------------------------------------------------------------------------
(* ArgvLenGenerator: one round for the length of each argument             *)

ArgvLenGenerator(argc, min, max) ==
  [kind |-> "argvlen", len |-> min, min |-> min, max |-> max, pos |-> 1,
   argc |-> argc, correct |-> [i \in 1..argc |-> 0]]

ArgvLenGuess(g) ==
  [Input EXCEPT !.argv = [i \in 1..g.argc |->
                            Pads(IF i = g.pos THEN g.len ELSE g.correct[i])]]

ArgvLenUpdated(g, chosen) ==
  [g EXCEPT !.correct[g.pos] = chosen, !.pos = @ + 1, !.len = g.min]

-----------------------------------------------------------------------------
(* ArgvGenerator: one round for each character of each argument            *)

\* Nothing ties the number of lengths to the number of arguments.
ArgvGenerator(argc, lens, min, max) ==
  [kind |-> "argv", len |-> lens, idx |-> 0, min |-> min, max |-> max, pos |-> 1,
   argc |-> argc, correct |-> [i \in 1..argc |-> <<>>], current |-> <<>>, cur |-> min]

\* next() first steps over an argument of length zero, over one and no more.
SkipEmpty(g) ==
  IF g.argc # 0 /\ g.pos \in DOMAIN g.len /\ g.len[g.pos] = 0
    THEN [g EXCEPT !.pos = @ + 1] ELSE g

\* There is an argument to solve, and a character to try for it.  Only an empty
\* argument leads beyond the last: otherwise update() has ended the rounds.
ArgvTries(h) ==
  /\ h.argc # 0 /\ h.pos <= h.argc
  /\ h.pos \in DOMAIN h.len
  /\ h.idx < h.len[h.pos] /\ h.cur <= ByteMax /\ h.cur <= h.max

\* The guess takes a length for each of the arguments from the list.
HasLengths(g) == 1..g.argc \subseteq DOMAIN g.len

ArgvOffers(g) == ArgvTries(SkipEmpty(g)) /\ HasLengths(g)

\* The argument at pos, or one behind it that the guess fills up, has no length.
\* next() does not look at pos before it takes the first length.
ArgvOutOfBounds(g) ==
  LET h == SkipEmpty(g) IN
  /\ g.argc # 0
  /\ \/ h.pos \notin DOMAIN h.len /\ (h.pos = g.pos \/ h.pos <= h.argc)
     \/ ArgvTries(h) /\ ~HasLengths(h)

ArgvGuess(g) ==
  LET h == SkipEmpty(g)
      inp == PadTo(Append(h.current, h.cur), h.len[h.pos])
  IN [Input EXCEPT !.argv = [i \in 1..h.argc |-> CASE i = h.pos -> inp
                                                   [] i < h.pos -> h.correct[i]
                                                   [] i > h.pos -> Pads(h.len[i])]]

ArgvUpdatedLate(g, chosen) ==   \* mutant: `>` for `>=`
  IF g.pos > g.argc THEN g
  ELSE LET full == g.idx + 1 > g.len[g.pos] IN
       [g EXCEPT !.correct[g.pos] = Append(@, chosen),
                 !.current = Append(@, chosen),
                 !.cur = g.min,
                 !.idx = IF full THEN 0 ELSE @ + 1,
                 !.pos = IF full THEN @ + 1 ELSE @]

\* `current` keeps the characters of the arguments before.
ArgvUpdated(g, chosen) ==
  IF g.pos > g.argc THEN g
  ELSE LET full == g.idx + 1 >= g.len[g.pos] IN
       [g EXCEPT !.correct[g.pos] = Append(@, chosen),
                 !.current = Append(@, chosen),
                 !.cur = g.min,
                 !.idx = IF full THEN 0 ELSE @ + 1,
                 !.pos = IF full THEN @ + 1 ELSE @]

-----------------------------------------------------------------------------
(* MemGenerator: one round for each byte of a memory region                *)

MemGenerator(size, init) ==
  [kind |-> "mem", cur |-> 0, correct |-> [size |-> size, bytes |-> init]]

finished(g) == Len(g.correct.bytes) = g.correct.size

MemGuess(g) ==
  [Input EXCEPT !.mem = <<[g.correct EXCEPT !.bytes = Append(@, g.cur)]>>]

MemUpdated(g, chosen) ==
  [g EXCEPT !.correct.bytes = Append(@, chosen), !.cur = 0]

-----------------------------------------------------------------------------
(* The traits Iterator and Update                                          *)

Lengths == {"stdinlen", "argc"}
ByLen == Lengths \cup {"argvlen"}

Offers(g) ==
  CASE g.kind \in ByLen -> g.len <= g.max
    [] g.kind = "stdinchar" -> StdinCharOffers(g)
    [] g.kind = "argv" -> ArgvOffers(g)
    [] g.kind = "mem" -> g.cur <= ByteMax /\ ~finished(g)

OutOfBounds(g) == g.kind = "argv" /\ ArgvOutOfBounds(g)

Ends(g) == ~Offers(g) /\ ~OutOfBounds(g)

Item(g) == IF g.kind \in ByLen THEN g.len ELSE g.cur

Guess(g) ==
  CASE g.kind = "stdinlen" -> StdinLenGuess(g)
    [] g.kind = "argc" -> ArgcGuess(g)
    [] g.kind = "stdinchar" -> StdinCharGuess(g)
    [] g.kind = "argvlen" -> ArgvLenGuess(g)
    [] g.kind = "argv" -> ArgvGuess(g)
    [] g.kind = "mem" -> MemGuess(g)

Stepped(g) ==
  LET h == IF g.kind = "argv" THEN SkipEmpty(g) ELSE g IN
  CASE ~Offers(g) -> h
    [] Offers(g) /\ g.kind \in ByLen -> [h EXCEPT !.len = @ + 1]
    [] Offers(g) /\ g.kind \notin ByLen -> [h EXCEPT !.cur = @ + 1]

Updated(g, chosen) ==
  CASE g.kind \in Lengths -> [g EXCEPT !.correct = chosen]
    [] g.kind = "stdinchar" -> StdinCharUpdated(g, chosen)
    [] g.kind = "argvlen" -> ArgvLenUpdated(g, chosen)
    [] g.kind = "argv" -> ArgvUpdated(g, chosen)
    [] g.kind = "mem" -> MemUpdated(g, chosen)

MorePastEnd(g, chosen) ==   \* mutant: `<=` for `<`, for the arguments
  LET h == Updated(g, chosen) IN
  CASE h.kind \in Lengths -> FALSE
    [] h.kind = "stdinchar" -> h.padlen # Absent /\ h.idx < h.padlen
    [] h.kind \in {"argvlen", "argv"} -> h.pos <= h.argc + 1
    [] h.kind = "mem" -> ~finished(h)

MoreOnceMore(g, chosen) ==   \* mutant: `<=` for `<`, for stdin
  LET h == Updated(g, chosen) IN
  CASE h.kind \in Lengths -> FALSE
    [] h.kind = "stdinchar" -> h.padlen # Absent /\ h.idx <= h.padlen
    [] h.kind \in {"argvlen", "argv"} -> h.pos <= h.argc
    [] h.kind = "mem" -> ~finished(h)

More(g, chosen) ==
  LET h == Updated(g, chosen) IN
  CASE h.kind \in Lengths -> FALSE
    [] h.kind = "stdinchar" -> h.padlen # Absent /\ h.idx < h.padlen
    [] h.kind \in {"argvlen", "argv"} -> h.pos <= h.argc
    [] h.kind = "mem" -> ~finished(h)

Kinds == ByLen \cup {"stdinchar", "argv", "mem"}

\* What all generators have in common: a number that next() counts up, and
\* that update() sets back for the next round.
Counting(g) ==
  /\ g = [x \in DOMAIN g |-> g[x]]
  /\ "kind" \in DOMAIN g /\ g.kind \in Kinds
  /\ g.kind \in ByLen => "len" \in DOMAIN g /\ g.len \in Nat /\ g.max \in Nat
  /\ g.kind = "argvlen" => g.min \in Nat
  /\ g.kind \notin ByLen => "cur" \in DOMAIN g /\ g.cur \in Nat
  /\ g.kind \in {"stdinchar", "argv"} => g.min \in Nat

\* A generator that can keep what update() promises: there is a character to
\* try, each argument has a length, and behind one of length zero there is one
\* of another length.
Fits(g) ==
  /\ g.kind \in {"stdinchar", "argvlen", "argv"} => g.max \in Nat /\ g.min <= g.max
  /\ g.kind \in {"stdinchar", "argv"} => g.min <= ByteMax
  /\ g.kind = "argv" =>
       /\ {"pos", "idx"} \subseteq DOMAIN g
       /\ g.argc \in Nat /\ g.pos \in Nat \ {0} /\ g.idx \in Nat
       /\ HasLengths(g)
       /\ \A p \in 1..g.argc : /\ g.len[p] \in Nat
                               /\ g.len[p] = 0 => p < g.argc /\ g.len[p + 1] # 0
       /\ g.idx = 0 \/ (g.pos <= g.argc /\ g.idx < g.len[g.pos])

\* A generator whose guesses differ in the place of the number it counts up:
\* for argv that takes a `current` that belongs to the argument at pos.
TellsApart(g) ==
  /\ g.kind = "stdinchar" =>
       /\ {"prefix", "correct", "idx", "padlen"} \subseteq DOMAIN g
       /\ g.prefix \in Seq(Nat) /\ g.correct \in Seq(Nat)
       /\ g.idx = Len(g.prefix) + Len(g.correct)
       /\ g.padlen # Absent => g.padlen \in Nat
  /\ g.kind = "argvlen" =>
       /\ {"argc", "correct", "pos"} \subseteq DOMAIN g
       /\ g.argc \in Nat /\ g.pos \in 1..g.argc
  /\ g.kind = "argv" =>
       /\ {"argc", "len", "correct", "pos", "idx", "current"} \subseteq DOMAIN g
       /\ g.argc \in Nat /\ g.pos \in Nat \ {0} /\ g.idx \in Nat /\ g.current \in Seq(Nat)
       /\ HasLengths(g)
       /\ \A p \in 1..g.argc : g.len[p] \in Nat
       /\ \A p, q \in 1..g.argc : g.len[p] # 0 /\ g.len[q] # 0 => p = q
       /\ Len(g.current) = g.idx \/ \A p \in g.pos..g.argc : g.len[p] = 0
  /\ g.kind = "mem" => /\ "correct" \in DOMAIN g /\ "bytes" \in DOMAIN g.correct
                       /\ g.correct.bytes \in Seq(Nat)

-----------------------------------------------------------------------------
(* A round                                                                 *)

\* No generator offers more in a round.
MostOffers(g) == 1 + (IF g.kind \in ByLen THEN g.max ELSE ByteMax)

\* The generator before each of the calls of next() in a round that begins
\* with g: by_ref() calls it until it returns None or panics.
Calls(g) ==
  LET calls[n \in 0..MostOffers(g)] ==
        IF n = 0 THEN {g}
        ELSE {g} \cup {Stepped(h) : h \in {h \in calls[n - 1] : Offers(h)}}
  IN calls[MostOffers(g)]
=============================================================================
