--------------------------- MODULE PipelineProofs ---------------------------
(***************************************************************************)
(* Theorems about the user interface under B7Opts::run(), whatever the     *)
(* program under test, the options and the keys that are pressed.          *)
(***************************************************************************)
EXTENDS Pipeline, Facts

\* All that run() and the user do to the interface.
TuiStep ==
  \/ \E t : set_timeout(t)
  \/ update
  \/ resume
  \/ done
  \/ UserStep
  \/ LoopEnds

LEMMA NextTui == [Next]_vars => [TuiStep]_tuiVars
<1> SUFFICES ASSUME [Next]_vars PROVE TuiStep \/ UNCHANGED tuiVars
  OBVIOUS
<1>1. CASE UNCHANGED vars \/ Returned
  BY <1>1 DEF Returned, vars
<1>2. CASE UserStep
  BY <1>2 DEF TuiStep
<1>3. CASE RunStep
  <2>1. CASE SolveArgc \/ SolveStdinLen \/ SolveMem
    BY <2>1 DEF SolveArgc, SolveStdinLen, SolveMem, TuiStep
  <2>2. CASE SolveArgvLen \/ SolveArgv \/ SkipArgv \/ SolveStdin \/ SkipStdin
             \/ DropConflicts \/ SolveRegion
    BY <2>2 DEF SolveArgvLen, SolveArgv, SkipArgv, SolveStdin, SkipStdin,
       DropConflicts, SolveRegion
  <2>3. CASE Done \/ Count \/ Choose
    BY <2>3 DEF Done, Count, Choose, TuiStep
  <2>4. CASE CountPanics \/ CollectPanics \/ BruteReturns \/ RunFails \/ RunReturns
    BY <2>4 DEF CountPanics, CollectPanics, BruteReturns, RunFails, RunReturns
  <2>5. CASE LoopEnds
    BY <2>5 DEF TuiStep
  <2> QED BY <1>3, <2>1, <2>2, <2>3, <2>4, <2>5 DEF RunStep
<1> QED BY <1>1, <1>2, <1>3 DEF Next

-----------------------------------------------------------------------------
(* The round on the screen.  The second part is what NewestShownFirst rests
   on: a wait that the user ends by going on ends at the last round.         *)
Shown ==
  /\ numrun \in Nat /\ currun \in Nat
  /\ IF numrun = 0 THEN currun = 0 ELSE 1 <= currun /\ currun <= numrun
  /\ cont \in BOOLEAN /\ eof \in BOOLEAN
  /\ at \in {"waiting", "editing"} => ~cont
  /\ at \in {"idle", "back"} /\ ui = "tui" /\ ~cont /\ ~eof => currun = numrun

LEMMA InitShown == Init => Shown
<1> SUFFICES ASSUME Init PROVE Shown
  OBVIOUS
<1>1. TuiInit(opts.ui)
  BY DEF Init
<1> QED BY <1>1 DEF TuiInit, Shown

LEMMA KeyShown == Shown /\ UserStep => Shown'
<1> SUFFICES ASSUME Shown, UserStep PROVE Shown'
  OBVIOUS
<1> USE DEF Shown, Key
<1>1. CASE Right
  BY <1>1 DEF Right
<1>2. CASE Left
  BY <1>2 DEF Left
<1>3. CASE Continue
  BY <1>3 DEF Continue
<1>4. CASE Quit
  BY <1>4 DEF Quit
<1>5. CASE SwitchTab \/ Up \/ Down
  BY <1>5 DEF SwitchTab, Up, Down
<1>6. CASE Enter \/ EditKey \/ EndEdit
  BY <1>6 DEF Enter, EditKey, Edit, EndEdit
<1>7. CASE EndOfInput
  BY <1>7 DEF EndOfInput
<1> QED BY <1>1, <1>2, <1>3, <1>4, <1>5, <1>6, <1>7 DEF UserStep

LEMMA NextShown == Shown /\ [Next]_vars => Shown'
<1> SUFFICES ASSUME Shown, TuiStep \/ UNCHANGED tuiVars PROVE Shown'
  BY NextTui
<1> USE DEF Shown
<1>1. CASE UNCHANGED tuiVars
  BY <1>1 DEF tuiVars
<1>2. CASE \E t : set_timeout(t)
  BY <1>2 DEF set_timeout
<1>3. CASE update
  BY <1>3 DEF update, Wait
<1>4. CASE resume \/ done
  BY <1>4 DEF resume, done
<1>5. CASE UserStep
  BY <1>5, KeyShown
<1>6. CASE LoopEnds
  BY <1>6 DEF LoopEnds
<1> QED BY <1>1, <1>2, <1>3, <1>4, <1>5, <1>6 DEF TuiStep

\* redraw() finds the round it shows in the cache, whatever keys are pressed
\* in however many rounds: its index neither underflows nor runs off the end.
THEOREM ShownIsInCache == Spec => []ShownRoundExists
<1>1. Shown => ShownRoundExists
  BY DEF Shown, ShownRoundExists
<1> QED BY InitShown, NextShown, <1>1, PTL DEF Spec

\* No round passes the user by: whenever wait() asks, it shows the last one.
THEOREM EachRoundIsShown == Spec => NewestShownFirst
<1>1. Shown /\ [Next]_vars =>
        [at = "idle" /\ at' = "waiting" /\ ~eof => currun' = numrun']_tuiVars
  <2> SUFFICES ASSUME Shown, TuiStep, at = "idle", at' = "waiting", ~eof
               PROVE  currun' = numrun'
    BY NextTui
  <2>1. update
    BY DEF TuiStep, set_timeout, resume, done, UserStep, LoopEnds, Key, Right, Left,
       Continue, Quit, SwitchTab, Up, Down, Enter, EditKey, EndEdit, EndOfInput
  <2> QED BY <2>1 DEF update, Wait, Shown
<1> QED BY InitShown, NextShown, <1>1, PTL DEF Spec, NewestShownFirst

-----------------------------------------------------------------------------
(* TimeoutAsGiven.  Each of the three functions sets the timeout before its
   first call of brute(), and nothing but an edit changes it afterwards.     *)
Timed ==
  ~edited =>
    /\ get_timeout <= opts.timeout /\ opts.timeout - get_timeout < Second
    /\ ui = "env" => get_timeout = opts.timeout

TimedInv ==
  /\ opts \in Programs /\ ui = opts.ui
  /\ calling \/ pc \in {"argvlen", "argv", "stdinchar", "region"} => Timed

LEMMA WholeSeconds ==
  ASSUME NEW t \in Nat
  PROVE  /\ (t \div Second) * Second <= t
         /\ t - (t \div Second) * Second < Second
BY TuiAssumption

LEMMA SetTimed ==
  ASSUME opts \in Programs, ui = opts.ui,
         set_timeout(opts.timeout), opts' = opts
  PROVE  Timed'
<1>1. opts.timeout \in Nat /\ ui \in {"tui", "env"} /\ ui' = ui
  BY ProgramsAssumption DEF set_timeout
<1>2. CASE ui = "tui"
  BY <1>1, <1>2, WholeSeconds DEF set_timeout, Timed, get_timeout
<1>3. CASE ui = "env"
  BY <1>1, <1>3, TuiAssumption DEF set_timeout, Timed, get_timeout
<1> QED BY <1>1, <1>2, <1>3

\* Steps that leave the timeout alone, or note that it was edited.
LEMMA KeepsTimed ==
  ASSUME opts' = opts, ui' = ui, (timeout' = timeout /\ edited' = edited) \/ edited' = TRUE
  PROVE  Timed => Timed'
BY DEF Timed, get_timeout

LEMMA UserTimed ==
  ASSUME UserStep
  PROVE  ui' = ui /\ ((timeout' = timeout /\ edited' = edited) \/ edited' = TRUE)
BY DEF UserStep, Key, Right, Left, Continue, Quit, SwitchTab, Up, Down, Enter,
   EditKey, Edit, EndEdit, EndOfInput

LEMMA NextTimed ==
  ASSUME TimedInv, [Next]_vars
  PROVE  TimedInv'
<1> USE DEF TimedInv
<1>1. ASSUME opts' = opts, tuiVars' = tuiVars, calling' => calling, pc' = pc
      PROVE  TimedInv'
  BY <1>1, KeepsTimed DEF tuiVars
<1>2. CASE UNCHANGED vars \/ Returned
  BY <1>1, <1>2 DEF Returned, vars, runVars
<1>3. CASE UserStep /\ UNCHANGED <<runVars, bruteVars>>
  BY <1>3, UserTimed, KeepsTimed DEF runVars
<1>4. CASE RunStep
  <2>1. CASE SolveArgc \/ SolveStdinLen \/ SolveMem
    <3>1. set_timeout(opts.timeout) /\ opts' = opts
      BY <2>1 DEF SolveArgc, SolveStdinLen, SolveMem, Call, GoTo
    <3>2. ui' = ui
      BY <3>1 DEF set_timeout
    <3> QED BY <3>1, <3>2, SetTimed
  <2>2. CASE SolveArgvLen \/ SolveArgv \/ SolveStdin \/ SolveRegion
    <3>1. opts' = opts /\ tuiVars' = tuiVars /\ pc \in {"argvlen", "argv", "stdinchar", "region"}
      BY <2>2 DEF SolveArgvLen, SolveArgv, SolveStdin, SolveRegion, At, Call
    <3> QED BY <3>1, KeepsTimed DEF tuiVars
  <2>3. CASE SkipArgv \/ SkipStdin
    <3>1. opts' = opts /\ tuiVars' = tuiVars /\ pc' \in {"stdinlen", "mem"} /\ ~calling'
      BY <2>3 DEF SkipArgv, SkipStdin, At, GoTo
    <3> QED BY <3>1 DEF tuiVars
  <2>4. CASE DropConflicts \/ CountPanics \/ CollectPanics \/ RunFails \/ RunReturns
    BY <1>1, <2>4 DEF DropConflicts, CountPanics, CollectPanics, RunFails, RunReturns, runVars
  <2>5. CASE Done
    BY <2>5 DEF Done, GoTo, At, done
  <2>6. CASE Count \/ Choose
    <3>1. /\ opts' = opts /\ calling' = calling /\ pc' = pc
          /\ ui' = ui /\ timeout' = timeout /\ edited' = edited
      BY <2>6 DEF Count, Choose, update, resume, runVars
    <3> QED BY <3>1, KeepsTimed
  <2>7. CASE BruteReturns
    <3>1. opts' = opts /\ tuiVars' = tuiVars /\ calling
      BY <2>7 DEF BruteReturns
    <3> QED BY <3>1, KeepsTimed DEF tuiVars
  <2>8. CASE LoopEnds /\ UNCHANGED <<runVars, bruteVars>>
    <3>1. /\ opts' = opts /\ calling' = calling /\ pc' = pc
          /\ ui' = ui /\ timeout' = timeout /\ edited' = edited
      BY <2>8 DEF LoopEnds, runVars
    <3> QED BY <3>1, KeepsTimed
  <2> QED BY <1>4, <2>1, <2>2, <2>3, <2>4, <2>5, <2>6, <2>7, <2>8 DEF RunStep
<1> QED BY <1>2, <1>3, <1>4 DEF Next

\* The jobs of every round run with the timeout the user has given: whatever
\* stages are skipped, one that is entered has set it, or one before it has.
THEOREM JobsAreTimed == Spec => []TimeoutAsGiven
<1>1. Init => TimedInv
  <2> SUFFICES ASSUME Init PROVE TimedInv
    OBVIOUS
  <2>1. opts \in Programs /\ pc = "argc" /\ calling = FALSE /\ TuiInit(opts.ui)
    BY DEF Init
  <2> QED BY <2>1 DEF TuiInit, TimedInv
<1>2. TimedInv /\ [Next]_vars => TimedInv'
  BY NextTimed
<1>3. TimedInv => TimeoutAsGiven
  BY DEF TimedInv, TimeoutAsGiven, Timed
<1> QED BY <1>1, <1>2, <1>3, PTL DEF Spec

-----------------------------------------------------------------------------
(* A call of brute().  The operators of Generators, as the instance brute   *)
(* sees them, are those that Pipeline has.                                  *)

LEMMA SameOffers == \A g : brute!Offers(g) = Offers(g)
BY DEF brute!Offers, Offers, brute!StdinCharOffers, StdinCharOffers,
       brute!ArgvOffers, ArgvOffers, brute!ArgvTries, ArgvTries,
       brute!HasLengths, HasLengths, brute!SkipEmpty, SkipEmpty,
       brute!finished, finished, brute!ByLen, ByLen, brute!Lengths, Lengths

LEMMA SameOutOfBounds == \A g : brute!OutOfBounds(g) = OutOfBounds(g)
BY DEF brute!OutOfBounds, OutOfBounds, brute!ArgvOutOfBounds, ArgvOutOfBounds,
       brute!ArgvTries, ArgvTries, brute!HasLengths, HasLengths,
       brute!SkipEmpty, SkipEmpty

LEMMA SameEnds == \A g : brute!Ends(g) = Ends(g)
BY SameOffers, SameOutOfBounds DEF brute!Ends, Ends

LEMMA SameStepped == \A g : brute!Stepped(g) = Stepped(g)
BY SameOffers DEF brute!Stepped, Stepped, brute!SkipEmpty, SkipEmpty,
                  brute!ByLen, ByLen, brute!Lengths, Lengths

LEMMA SameGuess == \A g : brute!Guess(g) = Guess(g)
BY DEF brute!Guess, Guess, brute!StdinLenGuess, StdinLenGuess,
       brute!ArgcGuess, ArgcGuess, brute!StdinCharGuess, StdinCharGuess,
       brute!ArgvLenGuess, ArgvLenGuess, brute!ArgvGuess, ArgvGuess,
       brute!MemGuess, MemGuess, brute!SkipEmpty, SkipEmpty,
       brute!Input, Input, brute!Pads, Pads, brute!PadTo, PadTo

LEMMA SameUpdated == \A g, i : brute!Updated(g, i) = Updated(g, i)
BY DEF brute!Updated, Updated, brute!StdinCharUpdated, StdinCharUpdated,
       brute!ArgvLenUpdated, ArgvLenUpdated, brute!ArgvUpdated, ArgvUpdated,
       brute!MemUpdated, MemUpdated, brute!Lengths, Lengths

LEMMA SameMore == \A g, i : brute!More(g, i) = More(g, i)
BY SameUpdated DEF brute!More, More, brute!finished, finished, brute!Lengths, Lengths

LEMMA SameCalls == \A g : brute!Calls(g) = Calls(g)
<1> TAKE g
<1>1. brute!MostOffers(g) = MostOffers(g)
  BY DEF brute!MostOffers, MostOffers, brute!ByLen, ByLen, brute!Lengths, Lengths
<1>2. \A G : {brute!Stepped(h) : h \in {h \in G : brute!Offers(h)}} =
               {Stepped(h) : h \in {h \in G : Offers(h)}}
  BY SameOffers, SameStepped
<1> QED BY <1>1, <1>2 DEF brute!Calls, Calls

LEMMA LastIs == brute!Last(gen) = {h \in Calls(gen) : Ends(h)}
BY SameCalls, SameEnds DEF brute!Last

LEMMA TriedIs ==
  brute!Tried(gen) =
    {[item |-> Item(h), inp |-> combine(solved, Guess(h))] : h \in {h \in Calls(gen) : Offers(h)}}
<1>1. \A g : brute!Item(g) = Item(g)
  BY DEF brute!Item, Item, brute!ByLen, ByLen, brute!Lengths, Lengths
<1>2. \A s, t : brute!combine(s, t) = combine(s, t)
  BY DEF brute!combine, combine, brute!Or, Or
<1> QED BY <1>1, <1>2, SameCalls, SameOffers, SameGuess DEF brute!Tried

\* A round chooses one of the inputs tried, and goes on or returns it.
LEMMA RoundIs ==
  ASSUME brute!Round
  PROVE  \E h, last \in Calls(gen) :
           /\ Offers(h) /\ Ends(last)
           /\ gen' = Updated(Stepped(last), Item(h))
           /\ IF More(Stepped(last), Item(h))
                THEN outcome' = outcome /\ answer' = answer
                ELSE outcome' = "Ok" /\ answer' = combine(solved, Guess(h))
<1>1. PICK t \in brute!Tried(gen), last \in brute!Last(gen) :
        /\ gen' = brute!Updated(brute!Stepped(last), t.item)
        /\ IF brute!More(brute!Stepped(last), t.item)
             THEN outcome' = outcome /\ answer' = answer
             ELSE outcome' = "Ok" /\ answer' = t.inp
  BY DEF brute!Round
<1>2. last \in Calls(gen) /\ Ends(last)
  BY LastIs
<1>3. PICK h \in Calls(gen) : Offers(h) /\ t = [item |-> Item(h), inp |-> combine(solved, Guess(h))]
  BY TriedIs
<1>4. gen' = Updated(Stepped(last), Item(h))
  BY <1>1, <1>3, SameUpdated, SameStepped
<1>5. IF More(Stepped(last), Item(h))
        THEN outcome' = outcome /\ answer' = answer
        ELSE outcome' = "Ok" /\ answer' = combine(solved, Guess(h))
  BY <1>1, <1>3, SameMore, SameStepped
<1> QED BY <1>2, <1>3, <1>4, <1>5

\* Without an input that may fail to give a count, only a generator that has
\* nothing to offer leads to "No valid results found".
LEMMA NoResultMeans ==
  ASSUME brute!NoResult, Counting(gen), \A inp : Absent \notin CountsOf(inp)
  PROVE  ~Offers(gen)
<1>1. gen \in Calls(gen)
  BY CallsClosed
<1>2. \A t \in brute!Tried(gen) : FALSE
  BY DEF brute!NoResult
<1> QED BY <1>1, <1>2, TriedIs

-----------------------------------------------------------------------------
(* The generator of a call                                                  *)

\* next() and update() leave alone what the generator was made with.
Settings(g) ==
  CASE g.kind = "stdinchar" -> <<g.padlen>>
    [] g.kind = "argv" -> <<g.argc, g.len>>
    [] g.kind \in Kinds \ {"stdinchar", "argv"} -> <<>>

LEMMA SettingsStay ==
  ASSUME NEW g, Counting(g), NEW i
  PROVE  Settings(Stepped(g)) = Settings(g) /\ Settings(Updated(g, i)) = Settings(g)
<1> USE DEF Settings
<1>1. Stepped(g).kind = g.kind /\ Updated(g, i).kind = g.kind /\ g.kind \in Kinds
  BY SteppedCounts, UpdatedCounts DEF Counting
<1>2. CASE g.kind \in Kinds \ {"stdinchar", "argv"}
  BY <1>1, <1>2
<1>3. CASE g.kind = "stdinchar"
  <2>1. Stepped(g) = IF Offers(g) THEN [g EXCEPT !.cur = @ + 1] ELSE g
    BY <1>3 DEF Stepped, ByLen, Lengths
  <2>2. Updated(g, i) = StdinCharUpdated(g, i)
    BY <1>3 DEF Updated, Lengths
  <2> QED BY <1>1, <1>3, <2>1, <2>2 DEF StdinCharUpdated
<1>4. CASE g.kind = "argv"
  <2> DEFINE h == SkipEmpty(g)
  <2>1. Stepped(g) = IF Offers(g) THEN [h EXCEPT !.cur = @ + 1] ELSE h
    BY <1>4 DEF Stepped, ByLen, Lengths
  <2>2. Updated(g, i) = ArgvUpdated(g, i)
    BY <1>4 DEF Updated, Lengths
  <2>3. h.argc = g.argc /\ h.len = g.len
    BY DEF SkipEmpty
  <2>4. Updated(g, i).argc = g.argc /\ Updated(g, i).len = g.len
    BY <2>2 DEF ArgvUpdated
  <2> HIDE DEF h
  <2>5. Stepped(g).argc = g.argc /\ Stepped(g).len = g.len
    BY <2>1, <2>3
  <2> QED BY <1>1, <1>4, <2>4, <2>5
<1> QED BY <1>1, <1>2, <1>3, <1>4

LEMMA CallsSettings ==
  ASSUME NEW g, Counting(g)
  PROVE  \A h \in Calls(g) : Settings(h) = Settings(g)
<1> DEFINE H == {h \in Calls(g) : Settings(h) = Settings(g)}
<1>1. /\ g \in Calls(g) /\ After(Calls(g)) \subseteq Calls(g)
      /\ \A h \in Calls(g) : Counting(h)
  BY CallsClosed
<1>2. MostOffers(g) \in Nat
  BY SteppedCounts
<1>3. g \in H
  BY <1>1
<1>4. ASSUME NEW h \in H, Offers(h)
      PROVE  Stepped(h) \in H
  BY <1>1, <1>4, SettingsStay DEF After
<1>5. After(H) \subseteq H
  BY <1>4 DEF After
<1> HIDE DEF H
<1>6. Calls(g) \subseteq H
  BY <1>2, <1>3, <1>5, CallsWithin
<1> QED BY <1>6 DEF H

LEMMA CallsFit ==
  ASSUME NEW g, Counting(g), Fits(g)
  PROVE  \A h \in Calls(g) : Fits(h)
<1> DEFINE H == {h \in Calls(g) : Fits(h)}
<1>1. /\ g \in Calls(g) /\ After(Calls(g)) \subseteq Calls(g)
      /\ \A h \in Calls(g) : Counting(h) /\ h.kind = g.kind
  BY CallsClosed
<1>2. MostOffers(g) \in Nat
  BY SteppedCounts
<1>3. g \in H
  BY <1>1
<1>4. ASSUME NEW h \in H, Offers(h)
      PROVE  Stepped(h) \in H
  BY <1>1, <1>4, SteppedFits DEF After
<1>5. After(H) \subseteq H
  BY <1>4 DEF After
<1> HIDE DEF H
<1>6. Calls(g) \subseteq H
  BY <1>2, <1>3, <1>5, CallsWithin
<1> QED BY <1>6 DEF H

\* What an Input of each generator says, and what it leaves open.
LEMMA GuessParts ==
  ASSUME NEW h
  PROVE  /\ h.kind \in {"stdinlen", "stdinchar", "mem"} => Guess(h).argv = Absent
         /\ h.kind \in {"argc", "argvlen", "argv", "stdinchar", "mem"} => Guess(h).stdinlen = Absent
         /\ h.kind \in {"argc", "argvlen", "argv", "mem"} => Guess(h).stdin = Absent
         /\ h.kind \in Kinds \ {"mem"} => Guess(h).mem = Absent
         /\ h.kind = "stdinlen" => Guess(h).stdinlen = h.len /\ Guess(h).stdin = Pads(h.len)
         /\ h.kind = "stdinchar" =>
              Guess(h).stdin = PadTo(Append(h.prefix \o h.correct, h.cur), h.padlen)
BY DEF Guess, StdinLenGuess, ArgcGuess, StdinCharGuess, ArgvLenGuess, ArgvGuess, MemGuess,
       Input, Kinds, ByLen, Lengths

LEMMA PadLen ==
  ASSUME NEW s, NEW n \in Nat
  PROVE  Len(PadTo(s, n)) = n
BY DEF PadTo

LEMMA PadsAreNotNone ==
  ASSUME NoneAssumption
  PROVE  \A s, n : PadTo(s, n) # Absent
BY DEF PadTo, NoneAssumption

-----------------------------------------------------------------------------
(* The inductive invariant of run()                                         *)

Stages == DOMAIN Following
Kind == [argc |-> "argc", argvlen |-> "argvlen", argv |-> "argv", stdinlen |-> "stdinlen",
         stdinchar |-> "stdinchar", region |-> "mem"]

(* A generator of the stage that run() is at.                                *)
OfStage(h) ==
  /\ Counting(h)
  /\ h.kind = Kind[pc]
  /\ pc = "stdinchar" => h.padlen = input.stdinlen
  /\ pc = "argv" => /\ h.argc = opts.init_input.argc /\ h.argc \in Nat
                    /\ h.len = opts.init_input.argvlens /\ h.len \in Seq(Nat)

Returns(h) == OfStage(h) /\ Offers(h) /\ answer = combine(input, Guess(h))

CallInv ==
  calling =>
    /\ pc \in Stages
    /\ solved = input
    /\ OfStage(gen)
    /\ outcome = "Ok" => \E h : Returns(h)

Regions == {opts.init_input.mem[i] : i \in DOMAIN opts.init_input.mem}

(* s is the end of t.                                                        *)
EndOf(s, t) == \A i \in 1..Len(s) : s[i] = t[Len(t) - Len(s) + i]

InputInv ==
  /\ opts \in Programs
  /\ pc \in Stages \cup {"mem", "done"}
  /\ DOMAIN input = DOMAIN Input
  /\ input.stdinlen \in Nat \cup {Absent}
  /\ pc = "stdinchar" => opts.solve_stdin /\ input.stdinlen \in Nat
  /\ pc = "stdinlen" /\ calling => opts.solve_stdin
  /\ input.mem # Absent => opts.init_input.mem # Absent
  /\ pc \notin {"region", "done"} => input.mem = opts.init_input.mem
  /\ pc = "region" => /\ opts.init_input.mem # Absent /\ input.mem # Absent
                      /\ left \in Seq(Regions)
                      /\ Len(left) <= Len(opts.init_input.mem)
                      /\ EndOf(left, opts.init_input.mem)
  /\ pc # "region" => left = <<>>

StageInv == CallInv /\ InputInv

LEMMA FollowingIs ==
  /\ Stages = {"argc", "argvlen", "argv", "stdinlen", "stdinchar", "region"}
  /\ \A p \in Stages : Following[p] \in Stages \cup {"mem"}
BY DEF Stages, Following

LEMMA InitStage == Init => StageInv
<1> SUFFICES ASSUME Init PROVE StageInv
  OBVIOUS
<1>1. /\ opts \in Programs /\ pc = "argc" /\ calling = FALSE
      /\ input = opts.init_input /\ left = <<>>
  BY DEF Init
<1>2. DOMAIN input = DOMAIN Input /\ input.stdinlen \in Nat \cup {Absent}
  BY <1>1, ProgramsAssumption
<1> QED BY <1>1, <1>2, FollowingIs DEF StageInv, CallInv, InputInv

\* What run() does between two calls of brute().
LEMMA SameStage ==
  ASSUME StageInv, calling' => calling,
         UNCHANGED <<opts, pc, input, left, bruteVars>>
  PROVE  StageInv'
<1>1. UNCHANGED <<gen, solved, outcome, answer>>
  BY DEF bruteVars
<1>2. \A h : (OfStage(h) => OfStage(h)') /\ (Returns(h) => Returns(h)')
  BY <1>1 DEF OfStage, Returns
<1>3. CallInv'
  BY <1>1, <1>2 DEF StageInv, CallInv
<1>4. InputInv'
  BY DEF StageInv, InputInv, Regions, EndOf
<1> QED BY <1>3, <1>4 DEF StageInv

LEMMA TailIsEnd ==
  ASSUME NEW S, NEW s \in Seq(S), NEW t \in Seq(S), s # <<>>, EndOf(s, t)
  PROVE  /\ EndOf(Tail(s), t)
         /\ Head(s) = t[Len(t) - Len(Tail(s))]
<1>1. /\ Len(s) \in Nat \ {0} /\ Len(t) \in Nat
      /\ Len(Tail(s)) = Len(s) - 1 /\ Head(s) = s[1]
      /\ \A i \in 1..Len(Tail(s)) : Tail(s)[i] = s[i + 1]
  OBVIOUS
<1>2. \A i \in 1..Len(s) : s[i] = t[Len(t) - Len(s) + i]
  BY DEF EndOf
<1>3. Head(s) = t[Len(t) - Len(Tail(s))]
  <2>1. Len(t) - Len(s) + 1 = Len(t) - Len(Tail(s)) /\ 1 \in 1..Len(s)
    BY <1>1
  <2> QED BY <1>1, <1>2, <2>1
<1>4. ASSUME NEW i \in 1..Len(Tail(s))
      PROVE  Tail(s)[i] = t[Len(t) - Len(Tail(s)) + i]
  <2>1. i + 1 \in 1..Len(s) /\ Len(t) - Len(s) + (i + 1) = Len(t) - Len(Tail(s)) + i
    BY <1>1
  <2> QED BY <1>1, <1>2, <2>1
<1> QED BY <1>3, <1>4 DEF EndOf

\* A new call.
LEMMA CallStage ==
  ASSUME InputInv, pc \in Stages, NEW g, Call(g), OfStage(g),
         pc = "stdinlen" => opts.solve_stdin,
         left' = left \/ (pc = "region" /\ left # <<>> /\ left' = Tail(left))
  PROVE  StageInv'
<1>1. /\ calling' = TRUE /\ gen' = g /\ solved' = input /\ outcome' = "running"
      /\ UNCHANGED <<opts, pc, input>>
  BY DEF Call
<1>2. OfStage(g)'
  BY <1>1 DEF OfStage
<1>3. CallInv'
  BY <1>1, <1>2 DEF CallInv, OfStage
<1>4. pc = "region" => /\ left' \in Seq(Regions) /\ Len(left') <= Len(opts.init_input.mem)
                       /\ EndOf(left', opts.init_input.mem)
  <2> DEFINE mem == opts.init_input.mem
  <2> SUFFICES ASSUME pc = "region", left # <<>>, left' = Tail(left)
               PROVE  left' \in Seq(Regions) /\ Len(left') <= Len(mem) /\ EndOf(left', mem)
    BY DEF InputInv
  <2>1. left \in Seq(Regions) /\ Len(left) <= Len(mem) /\ EndOf(left, mem)
    BY DEF InputInv
  <2>2. mem \in Seq(Regions)
    BY ProgramsAssumption DEF InputInv, Regions
  <2> HIDE DEF mem
  <2>3. EndOf(left', mem)
    BY <2>1, <2>2, TailIsEnd
  <2> QED BY <2>1, <2>2, <2>3
<1>5. InputInv'
  BY <1>1, <1>4 DEF InputInv, Regions, EndOf
<1> QED BY <1>3, <1>5 DEF StageInv

\* What argc, lengths and characters of arguments are solved from.
LEMMA GivenInput ==
  ASSUME InputInv
  PROVE  /\ opts.init_input.argc \in Nat \cup {Absent}
         /\ opts.init_input.argvlens = Absent \/ opts.init_input.argvlens \in Seq(Nat)
         /\ opts.init_input.mem = Absent \/ opts.init_input.mem \in Seq(Regions)
         /\ ArgcMax \in Nat /\ ArgvLenMax \in Nat /\ StdinLenMax \in Nat
         /\ MinChr \in Nat /\ MaxChr \in Nat /\ MinChr <= MaxChr /\ MinChr <= ByteMax
         /\ Start \in Seq(Nat)
<1>1. Start \in Seq(Nat)
  <2>1. "start" \in DOMAIN opts.vars => opts.vars["start"] \in Seq(Nat)
    BY ProgramsAssumption DEF InputInv
  <2> QED BY <2>1 DEF Start
<1> QED BY <1>1, ProgramsAssumption, PipelineAssumption DEF InputInv, Regions

\* Each stage makes a generator of its kind.
LEMMA NewGenerator ==
  ASSUME InputInv,
         NEW g,
         \/ pc = "argc" /\ g = LenGenerator("argc", 0, ArgcMax)
         \/ pc = "argvlen" /\ g = ArgvLenGenerator(opts.init_input.argc, 0, ArgvLenMax)
         \/ /\ pc = "argv" /\ ArgvToSolve /\ opts.init_input.argvlens # Absent
            /\ g = ArgvGenerator(opts.init_input.argc, opts.init_input.argvlens, MinChr, MaxChr)
         \/ pc = "stdinlen" /\ g = LenGenerator("stdinlen", 0, StdinLenMax)
         \/ pc = "stdinchar" /\ g = StdinCharGenerator(input.stdinlen, MinChr, MaxChr, Start)
         \/ pc = "region" /\ g = MemGenerator(Head(left).size, Head(left).bytes)
  PROVE  OfStage(g)
<1> USE DEF OfStage, Counting, Kind, Kinds, ByLen, Lengths
<1>1. CASE pc \in {"argc", "stdinlen"}
  BY <1>1, GivenInput DEF LenGenerator
<1>2. CASE pc = "argvlen"
  BY <1>2, GivenInput DEF ArgvLenGenerator
<1>3. CASE pc = "argv"
  BY <1>3, GivenInput DEF ArgvGenerator, ArgvToSolve
<1>4. CASE pc = "stdinchar"
  BY <1>4, GivenInput DEF StdinCharGenerator
<1>5. CASE pc = "region"
  BY <1>5 DEF MemGenerator
<1> QED BY <1>1, <1>2, <1>3, <1>4, <1>5

\* The calls of next() and the next round are of the same stage.
LEMMA SameKind ==
  ASSUME NEW g, OfStage(g), NEW h \in Calls(g), NEW i
  PROVE  OfStage(h) /\ OfStage(Updated(Stepped(h), i))
<1>1. Counting(g) /\ g.kind = Kind[pc]
  BY DEF OfStage
<1>2. Counting(h) /\ h.kind = g.kind /\ Settings(h) = Settings(g)
  BY <1>1, CallsClosed, CallsSettings
<1>3. Counting(Stepped(h)) /\ Stepped(h).kind = g.kind /\ Settings(Stepped(h)) = Settings(g)
  BY <1>2, SteppedCounts, SettingsStay
<1> DEFINE n == Updated(Stepped(h), i)
<1>4. Counting(n) /\ n.kind = g.kind /\ Settings(n) = Settings(g)
  BY <1>3, UpdatedCounts, SettingsStay
<1> HIDE DEF n
<1>5. ASSUME NEW k, k \in {h, n}
      PROVE  OfStage(k)
  <2>1. Counting(k) /\ k.kind = Kind[pc] /\ Settings(k) = Settings(g)
    BY <1>1, <1>2, <1>4, <1>5
  <2>2. pc = "stdinchar" => k.padlen = g.padlen
    BY <1>1, <2>1 DEF Settings, Kind
  <2>3. pc = "argv" => k.argc = g.argc /\ k.len = g.len
    BY <1>1, <2>1 DEF Settings, Kind
  <2> QED BY <2>1, <2>2, <2>3 DEF OfStage
<1> QED BY <1>5 DEF n

LEMMA ChooseStage ==
  ASSUME StageInv, Choose
  PROVE  StageInv'
<1>1. calling /\ UNCHANGED <<opts, pc, calling, input, left>> /\ outcome = "running"
  BY DEF Choose, runVars, brute!Round, NoTime, brute!NoResult
<1>2. pc \in Stages /\ solved = input /\ OfStage(gen)
  BY <1>1 DEF StageInv, CallInv
<1>3. InputInv'
  BY <1>1 DEF StageInv, InputInv, Regions, EndOf
<1>4. ASSUME NEW h, OfStage(h)
      PROVE  OfStage(h)'
  BY <1>1, <1>4 DEF OfStage
<1>5. CASE brute!Round
  <2>1. PICK h, last \in Calls(gen) :
          /\ Offers(h) /\ Ends(last)
          /\ gen' = Updated(Stepped(last), Item(h))
          /\ IF More(Stepped(last), Item(h))
               THEN outcome' = outcome /\ answer' = answer
               ELSE outcome' = "Ok" /\ answer' = combine(solved, Guess(h))
    BY <1>5, RoundIs
  <2>2. OfStage(h) /\ OfStage(gen')
    BY <1>2, <2>1, SameKind
  <2>3. solved' = solved
    BY <1>5 DEF brute!Round
  <2>4. OfStage(gen)'
    BY <1>1, <2>2 DEF OfStage
  <2>5. ASSUME outcome' = "Ok"
        PROVE  Returns(h)'
    <3>1. answer' = combine(input, Guess(h))
      BY <1>1, <1>2, <2>1, <2>5
    <3> QED BY <1>1, <1>4, <2>1, <2>2, <3>1 DEF Returns
  <2>6. CallInv'
    BY <1>1, <1>2, <2>3, <2>4, <2>5 DEF CallInv
  <2> QED BY <1>3, <2>6 DEF StageInv
<1>6. CASE NoTime \/ brute!NoResult
  <2>1. UNCHANGED <<gen, solved>> /\ outcome' = "Err"
    BY <1>6 DEF NoTime, brute!NoResult
  <2>2. OfStage(gen)'
    BY <1>1, <1>2, <2>1 DEF OfStage
  <2>3. CallInv'
    BY <1>1, <1>2, <2>1, <2>2 DEF CallInv
  <2> QED BY <1>3, <2>3 DEF StageInv
<1> QED BY <1>5, <1>6 DEF Choose

\* What has been solved when brute() returns.
LEMMA Answered ==
  ASSUME StageInv, BruteReturns
  PROVE  \E h : OfStage(h) /\ Offers(h) /\ input' = combine(input, Guess(h)) /\ pc \in Stages
<1> QED BY DEF StageInv, CallInv, BruteReturns, Returns

LEMMA AnsweredStage ==
  ASSUME StageInv, BruteReturns
  PROVE  StageInv'
<1>1. PICK h : OfStage(h) /\ Offers(h) /\ input' = combine(input, Guess(h)) /\ pc \in Stages
  BY Answered
<1>2. UNCHANGED <<opts, left>> /\ calling /\ calling' = FALSE /\ pc' = Following[pc]
  BY DEF BruteReturns
<1>3. h.kind = Kind[pc] /\ Counting(h)
  BY <1>1 DEF OfStage
<1>4. DOMAIN input = DOMAIN Input
  BY DEF StageInv, InputInv
<1>5. /\ input'.stdinlen = Or(Guess(h).stdinlen, input.stdinlen)
      /\ input'.mem = Or(Guess(h).mem, input.mem)
      /\ DOMAIN input' = DOMAIN Input
  BY <1>1, <1>4, Combined DEF combine
<1>6. pc # "stdinlen" => input'.stdinlen = input.stdinlen
  BY <1>1, <1>3, <1>5, FollowingIs, GuessParts DEF Kind, Or
<1>7. pc = "stdinlen" => input'.stdinlen \in Nat
  <2>1. pc = "stdinlen" => h.len \in Nat /\ Guess(h).stdinlen = h.len
    BY <1>3, GuessParts DEF Kind, Counting, ByLen, Lengths
  <2> QED BY <1>5, <2>1 DEF Or, StageInv, InputInv
<1>8. pc # "region" => input'.mem = input.mem
  BY <1>1, <1>3, <1>5, FollowingIs, GuessParts DEF Kind, Or, Kinds, ByLen, Lengths
<1>9. pc = "region" => input'.mem # Absent
  BY <1>5 DEF Or, StageInv, InputInv
<1>10. pc' \in Stages \cup {"mem"} /\ (pc' = "region" <=> pc = "region")
       /\ (pc' = "stdinchar" => pc = "stdinlen")
  BY <1>1, <1>2, FollowingIs DEF Following
<1>11. InputInv'
  <2>1. Regions' = Regions /\ opts' = opts /\ left' = left /\ ~calling'
    BY <1>2 DEF Regions
  <2>2. pc # "done" /\ InputInv
    BY <1>1, FollowingIs DEF StageInv
  <2>3. input'.stdinlen \in Nat \cup {Absent}
    BY <1>6, <1>7, <2>2 DEF InputInv
  <2>4. pc' = "stdinchar" => opts.solve_stdin /\ input'.stdinlen \in Nat
    BY <1>2, <1>7, <1>10, <2>2 DEF InputInv
  <2>5. pc' \notin {"region", "done"} => input'.mem = opts.init_input.mem
    BY <1>8, <1>10, <2>2 DEF InputInv
  <2>6. input'.mem # Absent => opts.init_input.mem # Absent
    BY <1>8, <2>2 DEF InputInv
  <2> QED BY <1>5, <1>9, <1>10, <2>1, <2>2, <2>3, <2>4, <2>5, <2>6 DEF InputInv, EndOf
<1>12. CallInv'
  BY <1>2 DEF CallInv
<1> QED BY <1>11, <1>12 DEF StageInv

LEMMA NextStage ==
  ASSUME StageInv, [Next]_vars
  PROVE  StageInv'
<1>1. CASE UNCHANGED vars \/ Returned
  BY <1>1, SameStage DEF Returned, vars, runVars
<1>2. CASE (UserStep \/ LoopEnds) /\ UNCHANGED <<runVars, bruteVars>>
  BY <1>2, SameStage DEF runVars
<1>3. CASE RunStep
  <2> USE DEF At
  <2>1. CASE SolveArgc
    BY <2>1, NewGenerator, CallStage, FollowingIs DEF SolveArgc, StageInv
  <2>2. CASE SolveArgvLen
    BY <2>2, NewGenerator, CallStage, FollowingIs DEF SolveArgvLen, StageInv
  <2>3. CASE SolveArgv
    BY <2>3, NewGenerator, CallStage, FollowingIs DEF SolveArgv, StageInv
  <2>4. CASE SolveStdinLen /\ input.stdinlen = Absent
    BY <2>4, NewGenerator, CallStage, FollowingIs DEF SolveStdinLen, StageInv
  <2>5. CASE SolveStdin
    BY <2>5, NewGenerator, CallStage, FollowingIs DEF SolveStdin, StageInv
  <2>6. CASE SolveRegion
    BY <2>6, NewGenerator, CallStage, FollowingIs DEF SolveRegion, StageInv
  <2>7. CASE SolveStdinLen /\ input.stdinlen # Absent
    <3>1. /\ pc = "stdinlen" /\ ~calling /\ opts.solve_stdin /\ input.stdinlen # Absent
          /\ pc' = "stdinchar" /\ UNCHANGED <<opts, calling, input, left>>
      BY <2>7 DEF SolveStdinLen, GoTo
    <3> QED BY <3>1, FollowingIs DEF StageInv, InputInv, CallInv, Regions, EndOf
  <2>8. CASE SkipArgv \/ SkipStdin
    <3>1. /\ pc \in Stages \ {"region"} /\ pc' \in {"stdinlen", "mem"} /\ ~calling
          /\ UNCHANGED <<opts, calling, input, left>>
      BY <2>8, FollowingIs DEF SkipArgv, SkipStdin, GoTo
    <3> QED BY <3>1, FollowingIs DEF StageInv, InputInv, CallInv, Regions, EndOf
  <2>9. CASE SolveMem
    <3>1. /\ pc = "mem" /\ ~calling /\ opts.init_input.mem # Absent
          /\ pc' = "region" /\ left' = input.mem /\ UNCHANGED <<opts, calling, input>>
      BY <2>9 DEF SolveMem
    <3>2. input.mem = opts.init_input.mem /\ input.mem \in Seq(Regions)
      BY <3>1, GivenInput DEF StageInv, InputInv
    <3>3. Len(left') <= Len(opts.init_input.mem) /\ EndOf(left', opts.init_input.mem)
      BY <3>1, <3>2 DEF EndOf
    <3> QED BY <3>1, <3>2, <3>3, FollowingIs DEF StageInv, InputInv, CallInv, Regions, EndOf
  <2>10. CASE Done
    <3>1. /\ pc \in {"mem", "region"} /\ ~calling /\ (pc = "region" => left = <<>>)
          /\ pc' = "done" /\ UNCHANGED <<opts, calling, input, left>>
      BY <2>10 DEF Done, GoTo
    <3> QED BY <3>1, FollowingIs DEF StageInv, InputInv, CallInv, Regions, EndOf
  <2>11. CASE DropConflicts \/ Count \/ RunFails \/ RunReturns
    BY <2>11, SameStage DEF DropConflicts, Count, RunFails, RunReturns
  <2>12. CASE CountPanics \/ CollectPanics
    <3>1. /\ outcome' = "panicked"
          /\ UNCHANGED <<gen, solved, opts, pc, calling, input, left>>
      BY <2>12 DEF CountPanics, CollectPanics, brute!Panic, brute!NextPanics, runVars
    <3>2. OfStage(gen) => OfStage(gen)'
      BY <3>1 DEF OfStage
    <3>3. CallInv'
      BY <3>1, <3>2 DEF StageInv, CallInv
    <3> QED BY <3>1, <3>3 DEF StageInv, InputInv, Regions, EndOf
  <2> QED BY <1>2, <1>3, <2>1, <2>2, <2>3, <2>4, <2>5, <2>6, <2>7, <2>8, <2>9, <2>10, <2>11,
             <2>12, ChooseStage, AnsweredStage DEF RunStep
<1> QED BY <1>1, <1>2, <1>3 DEF Next

LEMMA StageInvariant == Spec => []StageInv
<1>1. StageInv /\ [Next]_vars => StageInv'
  BY NextStage
<1> QED BY InitStage, <1>1, PTL DEF Spec

\* Only the return of brute() changes the input.
LEMMA InputChanges ==
  ASSUME [Next]_vars
  PROVE  BruteReturns \/ input' = input
BY DEF Next, RunStep, SolveArgc, SolveArgvLen, SolveArgv, SkipArgv, SolveStdinLen, SolveStdin,
   SkipStdin, DropConflicts, SolveMem, SolveRegion, Done, Count, CountPanics, CollectPanics,
   Choose, RunFails, RunReturns, Returned, Call, GoTo, runVars, vars

\* No stage undoes what one before it has solved: arguments stay while stdin is
\* solved, the length of stdin while its characters are, both for the memory.
THEOREM EarlierStagesStay == Spec => KeepsEarlierStages
<1> DEFINE Kept == /\ pc \in {"stdinlen", "stdinchar", "region"} => input'.argv = input.argv
                   /\ pc \in {"stdinchar", "region"} => input'.stdinlen = input.stdinlen
                   /\ pc = "region" => input'.stdin = input.stdin
<1>1. ASSUME StageInv, BruteReturns
      PROVE  Kept
  <2>1. PICK h : OfStage(h) /\ input' = combine(input, Guess(h))
    BY <1>1, Answered
  <2>2. h.kind = Kind[pc] /\ DOMAIN input = DOMAIN Input
    BY <1>1, <2>1 DEF OfStage, StageInv, InputInv
  <2>3. /\ input'.argv = Or(Guess(h).argv, input.argv)
        /\ input'.stdinlen = Or(Guess(h).stdinlen, input.stdinlen)
        /\ input'.stdin = Or(Guess(h).stdin, input.stdin)
    BY <2>1, <2>2, Combined
  <2>4. pc \in {"stdinlen", "stdinchar", "region"} => input'.argv = input.argv
    BY <2>2, <2>3, GuessParts DEF Kind, Or
  <2>5. pc \in {"stdinchar", "region"} => input'.stdinlen = input.stdinlen
    BY <2>2, <2>3, GuessParts DEF Kind, Or
  <2>6. pc = "region" => input'.stdin = input.stdin
    BY <2>2, <2>3, GuessParts DEF Kind, Or
  <2> QED BY <2>4, <2>5, <2>6
<1>2. StageInv /\ [Next]_vars => [Kept]_vars
  BY <1>1, InputChanges
<1> QED BY StageInvariant, <1>2, PTL DEF Spec, KeepsEarlierStages

-----------------------------------------------------------------------------
(* LengthsAgree: a length that is given is that of the stdin given with it.  *)

LEMMA AnsweredLengths ==
  ASSUME NoneAssumption, StageInv, LengthsAgree, BruteReturns
  PROVE  LengthsAgree'
<1>1. PICK h : OfStage(h) /\ Offers(h) /\ input' = combine(input, Guess(h)) /\ pc \in Stages
  BY Answered
<1>2. h.kind = Kind[pc] /\ Counting(h) /\ DOMAIN input = DOMAIN Input
  BY <1>1 DEF OfStage, StageInv, InputInv
<1>3. /\ input'.stdinlen = Or(Guess(h).stdinlen, input.stdinlen)
      /\ input'.stdin = Or(Guess(h).stdin, input.stdin)
  BY <1>1, <1>2, Combined
<1>4. CASE pc \in {"argc", "argvlen", "argv", "region"}
  <2>1. Guess(h).stdinlen = Absent /\ Guess(h).stdin = Absent
    BY <1>2, <1>4, GuessParts DEF Kind
  <2> QED BY <1>3, <2>1 DEF Or, LengthsAgree
<1>5. CASE pc = "stdinlen"
  <2>1. Guess(h).stdinlen = h.len /\ Guess(h).stdin = Pads(h.len) /\ h.len \in Nat
    BY <1>2, <1>5, GuessParts DEF Kind, Counting, ByLen, Lengths
  <2>2. Pads(h.len) # Absent /\ Len(Pads(h.len)) = h.len
    BY <2>1, PadLen, PadsAreNotNone DEF Pads
  <2>3. input'.stdinlen = h.len /\ input'.stdin = Pads(h.len)
    BY <1>3, <2>1, <2>2 DEF Or, NoneAssumption
  <2> QED BY <2>2, <2>3 DEF LengthsAgree
<1>6. CASE pc = "stdinchar"
  <2>1. PICK s : Guess(h).stdin = PadTo(s, h.padlen)
    BY <1>2, <1>6, GuessParts DEF Kind
  <2>2. h.padlen = input.stdinlen /\ input.stdinlen \in Nat
    BY <1>1, <1>6 DEF OfStage, StageInv, InputInv
  <2>3. PadTo(s, h.padlen) # Absent /\ Len(PadTo(s, h.padlen)) = input.stdinlen
    BY <2>2, PadLen, PadsAreNotNone
  <2>4. Guess(h).stdinlen = Absent
    BY <1>2, <1>6, GuessParts DEF Kind
  <2>5. input'.stdinlen = input.stdinlen /\ input'.stdin = PadTo(s, h.padlen)
    BY <1>3, <2>1, <2>3, <2>4 DEF Or
  <2> QED BY <2>3, <2>5 DEF LengthsAgree
<1> QED BY <1>1, <1>4, <1>5, <1>6, FollowingIs

\* What is passed as stdin is as long as the length that was solved or given,
\* in the answer of every stage: the one for the characters pads to it.
THEOREM StdinIsAsLong ==
  ASSUME NoneAssumption, LengthsGiven
  PROVE  Spec => []LengthsAgree
<1>1. Init => LengthsAgree
  BY DEF Init, LengthsGiven, LengthsAgree
<1>2. StageInv /\ LengthsAgree /\ [Next]_vars => LengthsAgree'
  <2> SUFFICES ASSUME StageInv, LengthsAgree, [Next]_vars
               PROVE  LengthsAgree'
    OBVIOUS
  <2>1. CASE input' = input
    BY <2>1 DEF LengthsAgree
  <2> QED BY <2>1, InputChanges, AnsweredLengths
<1> QED BY StageInvariant, <1>1, <1>2, PTL DEF Spec

-----------------------------------------------------------------------------
(* LengthsSuffice.  A round of ArgvGenerator begins at one of its arguments,  *)
(* and so does each call of next() in it: beyond the lengths it comes only   *)
(* if there are fewer of them than arguments.                                *)

\* The argument that the generator is at.
AtArgument(g) == "pos" \in DOMAIN g /\ g.pos \in 1..g.argc

LEMMA SkipMoves ==
  ASSUME NEW g, g.argc \in Nat, AtArgument(g)
  PROVE  /\ DOMAIN SkipEmpty(g) = DOMAIN g
         /\ SkipEmpty(g).argc = g.argc /\ SkipEmpty(g).len = g.len
         /\ SkipEmpty(g).pos \in {g.pos, g.pos + 1}
BY DEF SkipEmpty, AtArgument

LEMMA CallsAtArguments ==
  ASSUME NEW g, Counting(g), g.kind = "argv", g.argc \in Nat, AtArgument(g)
  PROVE  \A h \in Calls(g) : h.argc = g.argc /\ h.len = g.len /\ AtArgument(h)
<1> DEFINE H == {h \in Calls(g) : h.argc = g.argc /\ AtArgument(h)}
<1>1. /\ g \in Calls(g) /\ After(Calls(g)) \subseteq Calls(g)
      /\ \A h \in Calls(g) : Counting(h) /\ h.kind = "argv"
  BY CallsClosed
<1>2. MostOffers(g) \in Nat
  BY SteppedCounts
<1>3. g \in H
  BY <1>1
<1>4. ASSUME NEW h \in H, Offers(h)
      PROVE  Stepped(h) \in H
  <2> DEFINE s == SkipEmpty(h)
  <2>1. h.argc \in Nat /\ AtArgument(h) /\ h.kind = "argv" /\ Stepped(h) \in Calls(g)
    BY <1>1, <1>4 DEF After
  <2>2. /\ DOMAIN s = DOMAIN h /\ s.argc = h.argc
        /\ s.pos \in {h.pos, h.pos + 1}
    BY <2>1, SkipMoves
  <2>3. s.pos <= s.argc
    BY <1>4, <2>1 DEF Offers, ArgvOffers, ArgvTries, ByLen, Lengths
  <2>4. Stepped(h) = [s EXCEPT !.cur = @ + 1]
    BY <1>4, <2>1 DEF Stepped, ByLen, Lengths
  <2> HIDE DEF s
  <2>5. /\ DOMAIN Stepped(h) = DOMAIN h
        /\ Stepped(h).argc = h.argc /\ Stepped(h).pos = s.pos
    BY <2>2, <2>4 DEF AtArgument
  <2>6. AtArgument(Stepped(h))
    BY <2>1, <2>2, <2>3, <2>5 DEF AtArgument
  <2> QED BY <1>4, <2>1, <2>5, <2>6
<1>5. After(H) \subseteq H
  BY <1>4 DEF After
<1> HIDE DEF H
<1>6. Calls(g) \subseteq H
  BY <1>2, <1>3, <1>5, CallsWithin
<1>7. \A h \in Calls(g) : h.len = g.len
  BY <1>1, CallsSettings DEF Settings
<1> QED BY <1>6, <1>7 DEF H

\* A list with a length for each argument is never left.
LEMMA LongEnough ==
  ASSUME NEW g, g.argc \in Nat, g.len \in Seq(Nat), g.argc <= Len(g.len), AtArgument(g)
  PROVE  ~OutOfBounds(g)
<1> DEFINE h == SkipEmpty(g)
<1>1. h.argc = g.argc /\ h.len = g.len /\ h.pos \in {g.pos, g.pos + 1}
  BY SkipMoves
<1>2. g.pos \in 1..g.argc /\ DOMAIN g.len = 1..Len(g.len) /\ Len(g.len) \in Nat
  BY DEF AtArgument
<1> HIDE DEF h
<1>3. HasLengths(h)
  BY <1>1, <1>2 DEF HasLengths
<1>4. h.pos \notin DOMAIN h.len => h.pos # g.pos /\ ~(h.pos <= h.argc)
  BY <1>1, <1>2
<1> QED BY <1>3, <1>4 DEF OutOfBounds, ArgvOutOfBounds, h

\* The next round begins at an argument too.
LEMMA RoundAtArgument ==
  ASSUME NEW g, Counting(g), g.kind = "argv", g.argc \in Nat, AtArgument(g),
         NEW last \in Calls(g), Ends(last), NEW i, More(Stepped(last), i)
  PROVE  AtArgument(Updated(Stepped(last), i))
<1> DEFINE s == Stepped(last)
<1>1. Counting(last) /\ last.kind = "argv" /\ last.argc = g.argc /\ AtArgument(last)
  BY CallsClosed, CallsAtArguments
<1>2. s = SkipEmpty(last) /\ s.kind = "argv"
  BY <1>1, SteppedCounts DEF Stepped, Ends
<1>3. s.argc \in Nat /\ DOMAIN s = DOMAIN last /\ s.pos \in Nat \ {0} /\ "pos" \in DOMAIN s
  BY <1>1, <1>2, SkipMoves DEF AtArgument
<1> HIDE DEF s
<1>4. Updated(s, i) = ArgvUpdated(s, i)
  BY <1>2 DEF Updated, Lengths
<1>5. /\ "pos" \in DOMAIN Updated(s, i) /\ Updated(s, i).kind = "argv"
      /\ Updated(s, i).pos \in {s.pos, s.pos + 1}
  BY <1>2, <1>3, <1>4 DEF ArgvUpdated
<1>6. Updated(s, i).argc = s.argc
  BY <1>3, <1>4 DEF ArgvUpdated
<1>7. Updated(s, i).pos <= Updated(s, i).argc
  BY <1>2, <1>5 DEF More, Lengths, s
<1> QED BY <1>3, <1>5, <1>6, <1>7 DEF AtArgument, s

ArgumentInv == calling /\ outcome = "running" /\ pc = "argv" => AtArgument(gen)

\* Steps that leave the call, or its absence, as it is.
LEMMA SameArgument ==
  ASSUME ArgumentInv, UNCHANGED <<pc, calling, gen>>, outcome' = outcome \/ outcome' # "running"
  PROVE  ArgumentInv'
BY DEF ArgumentInv, AtArgument

LEMMA ChooseArgument ==
  ASSUME StageInv, ArgumentInv, brute!Round, calling, outcome = "running", UNCHANGED <<calling, pc>>
  PROVE  ArgumentInv'
<1>1. PICK h, last \in Calls(gen) :
        /\ Offers(h) /\ Ends(last)
        /\ gen' = Updated(Stepped(last), Item(h))
        /\ IF More(Stepped(last), Item(h))
             THEN outcome' = outcome /\ answer' = answer
             ELSE outcome' = "Ok" /\ answer' = combine(solved, Guess(h))
  BY RoundIs
<1>2. ASSUME outcome' = "running", pc = "argv"
      PROVE  AtArgument(gen')
  <2>1. Counting(gen) /\ gen.kind = "argv" /\ gen.argc \in Nat /\ AtArgument(gen)
    BY <1>2 DEF StageInv, CallInv, OfStage, Kind, ArgumentInv
  <2>2. More(Stepped(last), Item(h))
    BY <1>1, <1>2
  <2> QED BY <1>1, <2>1, <2>2, RoundAtArgument
<1>3. AtArgument(gen)' <=> AtArgument(gen')
  BY DEF AtArgument
<1> QED BY <1>2, <1>3 DEF ArgumentInv

LEMMA NextArgument ==
  ASSUME StageInv, ArgumentInv, [Next]_vars
  PROVE  ArgumentInv'
<1>1. CASE UNCHANGED vars \/ Returned \/ ((UserStep \/ LoopEnds) /\ UNCHANGED <<runVars, bruteVars>>)
  BY <1>1, SameArgument DEF Returned, vars, runVars, bruteVars
<1>2. CASE RunStep
  <2> USE DEF At
  <2>1. CASE SolveArgc \/ SolveArgvLen \/ SolveStdin \/ SolveRegion
    <3>1. pc' # "argv"
      BY <2>1 DEF SolveArgc, SolveArgvLen, SolveStdin, SolveRegion, Call
    <3> QED BY <3>1 DEF ArgumentInv
  <2>2. CASE SolveArgv
    <3> DEFINE g == ArgvGenerator(opts.init_input.argc, opts.init_input.argvlens, MinChr, MaxChr)
    <3>1. gen' = g
      BY <2>2 DEF SolveArgv, Call
    <3>2. opts.init_input.argc \in Nat \ {0}
      BY <2>2, GivenInput DEF SolveArgv, ArgvToSolve, StageInv
    <3>3. AtArgument(gen)'
      BY <3>1, <3>2 DEF ArgvGenerator, AtArgument
    <3> QED BY <3>3 DEF ArgumentInv
  <2>3. CASE SolveStdinLen
    <3>1. ~calling' \/ pc' = "stdinlen"
      BY <2>3 DEF SolveStdinLen, Call, GoTo
    <3> QED BY <3>1 DEF ArgumentInv
  <2>4. CASE SkipArgv \/ SkipStdin \/ SolveMem \/ Done \/ BruteReturns
    <3>1. ~calling'
      BY <2>4 DEF SkipArgv, SkipStdin, SolveMem, Done, GoTo, BruteReturns
    <3> QED BY <3>1 DEF ArgumentInv
  <2>5. CASE DropConflicts \/ Count \/ RunFails \/ RunReturns
    BY <2>5, SameArgument DEF DropConflicts, Count, RunFails, RunReturns, runVars, bruteVars
  <2>6. CASE CountPanics \/ CollectPanics
    BY <2>6, SameArgument DEF CountPanics, CollectPanics, brute!Panic, brute!NextPanics, runVars
  <2>7. CASE Choose
    <3>1. calling /\ outcome = "running" /\ UNCHANGED <<calling, pc>>
      BY <2>7 DEF Choose, runVars, brute!Round, NoTime, brute!NoResult
    <3>2. brute!Round \/ outcome' = "Err"
      BY <2>7 DEF Choose, NoTime, brute!NoResult
    <3> QED BY <3>1, <3>2, ChooseArgument DEF ArgumentInv
  <2> QED BY <1>1, <1>2, <2>1, <2>2, <2>3, <2>4, <2>5, <2>6, <2>7 DEF RunStep
<1> QED BY <1>1, <1>2 DEF Next

\* Whatever is given, however many arguments and lengths: a list is left only if
\* it has fewer lengths than there are arguments, and in no other stage of run()
\* is an index out of bounds.
THEOREM ListsAreLongEnough == Spec => []LengthsSuffice
<1>1. Init => ArgumentInv
  BY DEF Init, ArgumentInv
<1>2. StageInv /\ ArgumentInv /\ [Next]_vars => ArgumentInv'
  BY NextArgument
<1>3. StageInv /\ ArgumentInv => LengthsSuffice
  <2> SUFFICES ASSUME StageInv, ArgumentInv, calling, outcome = "running",
                      NEW h \in Calls(gen), OutOfBounds(h)
               PROVE  pc = "argv" /\ Len(opts.init_input.argvlens) < opts.init_input.argc
    BY DEF LengthsSuffice
  <2>1. OfStage(gen) /\ OfStage(h) /\ pc \in Stages
    BY SameKind DEF StageInv, CallInv
  <2>2. pc = "argv"
    BY <2>1, FollowingIs DEF OutOfBounds, OfStage, Kind
  <2>3. Counting(gen) /\ gen.kind = "argv" /\ gen.argc \in Nat /\ AtArgument(gen)
    BY <2>1, <2>2 DEF OfStage, Kind, ArgumentInv
  <2>4. AtArgument(h)
    BY <2>3, CallsAtArguments
  <2>5. /\ h.argc \in Nat /\ h.len \in Seq(Nat) /\ Len(h.len) \in Nat
        /\ h.argc = opts.init_input.argc /\ h.len = opts.init_input.argvlens
    BY <2>1, <2>2 DEF OfStage
  <2>6. Len(h.len) < h.argc
    BY <2>4, <2>5, LongEnough
  <2> QED BY <2>2, <2>5, <2>6
<1> QED BY StageInvariant, <1>1, <1>2, <1>3, PTL DEF Spec

-----------------------------------------------------------------------------
(* ErrHasCause.  A generator that can keep what update() promises, and that  *)
(* has something to offer, has both in the next round as well.  A list with  *)
(* too few lengths ends in a panic, not in an error.                         *)

(* Programs whose runs give counts.                                          *)
AlwaysCounts == \A inp : Absent \notin CountsOf(inp)

(* The stage that run() is at has nothing to solve.                          *)
NothingLeft ==
  \/ pc = "argv" /\ EmptyArgument
  \/ pc = "stdinchar" /\ StartFillsStdin
  \/ pc = "region" /\ RegionGiven

GoesOn(g) == (Fits(g) /\ Offers(g)) \/ OutOfBounds(g)

CauseInv ==
  /\ calling /\ outcome = "running" => NothingLeft \/ GoesOn(gen)
  /\ calling /\ outcome = "Err" => NothingLeft \/ timed = 0
  /\ result = "Err" => \/ calling /\ outcome = "Err"
                       \/ ~calling /\ pc = "mem" /\ opts.drop_ptrace

\* A list that is left at once: no round comes to its end.
LEMMA NoLast ==
  ASSUME Counting(gen), OutOfBounds(gen)
  PROVE  brute!Last(gen) = {}
<1> DEFINE h == SkipEmpty(gen)
<1>1. gen.kind = "argv" /\ ArgvOutOfBounds(gen)
  BY DEF OutOfBounds
<1>2. HasLengths(h) = HasLengths(gen)
  BY DEF SkipEmpty, HasLengths
<1>3. ~(ArgvTries(h) /\ HasLengths(h))
  BY <1>1 DEF ArgvOutOfBounds, ArgvTries
<1> HIDE DEF h
<1>4. ~Offers(gen)
  BY <1>1, <1>2, <1>3 DEF Offers, ArgvOffers, ByLen, Lengths, h
<1>5. Calls(gen) \subseteq {gen}
  <2>1. After({gen}) \subseteq {gen}
    BY <1>4 DEF After
  <2>2. MostOffers(gen) \in Nat
    BY SteppedCounts
  <2> QED BY <2>1, <2>2, CallsWithin
<1> QED BY <1>5, LastIs DEF Ends

\* ArgvGenerator as run() makes it: without an argument to begin with, it
\* offers a guess, or leaves the list.
LEMMA ArgvGoesOn ==
  ASSUME NEW argc \in Nat \ {0}, NEW lens \in Seq(Nat),
         MinChr \in Nat, MaxChr \in Nat, MinChr <= MaxChr, MinChr <= ByteMax,
         \A p \in DOMAIN lens \cap 1..argc :
           lens[p] = 0 => p # argc /\ (p + 1 \in DOMAIN lens => lens[p + 1] # 0)
  PROVE  GoesOn(ArgvGenerator(argc, lens, MinChr, MaxChr))
<1> DEFINE g == ArgvGenerator(argc, lens, MinChr, MaxChr)
           h == SkipEmpty(g)
<1>1. /\ g.kind = "argv" /\ g.len = lens /\ g.idx = 0 /\ g.min = MinChr /\ g.max = MaxChr
      /\ g.pos = 1 /\ g.argc = argc /\ g.cur = MinChr
      /\ {"pos", "idx"} \subseteq DOMAIN g
  BY DEF ArgvGenerator
<1>2. DOMAIN lens = 1..Len(lens) /\ Len(lens) \in Nat /\ \A p \in DOMAIN lens : lens[p] \in Nat
  OBVIOUS
<1> HIDE DEF g
<1>3. /\ h.len = lens /\ h.idx = 0 /\ h.max = MaxChr /\ h.argc = argc /\ h.cur = MinChr
      /\ h.pos = IF 1 \in DOMAIN lens /\ lens[1] = 0 THEN 2 ELSE 1
  BY <1>1 DEF SkipEmpty
<1> HIDE DEF h
<1>4. h.pos \in 1..argc /\ (h.pos \in DOMAIN lens => lens[h.pos] # 0)
  <2>1. CASE 1 \in DOMAIN lens /\ lens[1] = 0
    <3>1. 1 \in DOMAIN lens \cap 1..argc
      BY <2>1
    <3>2. 1 # argc /\ (1 + 1 \in DOMAIN lens => lens[1 + 1] # 0)
      BY <2>1, <3>1
    <3> QED BY <1>3, <2>1, <3>2
  <2>2. CASE ~(1 \in DOMAIN lens /\ lens[1] = 0)
    BY <1>3, <2>2
  <2> QED BY <2>1, <2>2
<1>5. CASE argc <= Len(lens)
  <2>1. \A p \in 1..argc : lens[p] \in Nat /\ (lens[p] = 0 => p < argc /\ lens[p + 1] # 0)
    <3> TAKE p \in 1..argc
    <3>1. p \in DOMAIN lens \cap 1..argc
      BY <1>2, <1>5
    <3>2. p # argc => p < argc /\ p + 1 \in DOMAIN lens
      BY <1>2, <1>5
    <3> QED BY <1>2, <3>1, <3>2
  <2>2. 1..argc \subseteq DOMAIN lens
    BY <1>2, <1>5
  <2>3. Fits(g)
    BY <1>1, <2>1, <2>2 DEF Fits, HasLengths
  <2>4. ArgvTries(h)
    <3>1. h.pos \in DOMAIN lens /\ lens[h.pos] \in Nat /\ lens[h.pos] # 0
      BY <1>2, <1>4, <2>2
    <3> QED BY <1>3, <1>4, <3>1 DEF ArgvTries
  <2>5. Offers(g)
    BY <1>1, <2>2, <2>4 DEF Offers, ArgvOffers, HasLengths, ByLen, Lengths, h
  <2> QED BY <2>3, <2>5 DEF GoesOn, g
<1>6. CASE Len(lens) < argc
  <2>1. ~HasLengths(h)
    <3>1. argc \in 1..argc /\ argc \notin DOMAIN lens
      BY <1>2, <1>6
    <3> QED BY <1>3, <3>1 DEF HasLengths
  <2>2. h.pos \in DOMAIN lens => ArgvTries(h)
    <3> SUFFICES ASSUME h.pos \in DOMAIN lens PROVE ArgvTries(h)
      OBVIOUS
    <3>1. lens[h.pos] \in Nat /\ lens[h.pos] # 0
      BY <1>2, <1>4
    <3> QED BY <1>3, <1>4, <3>1 DEF ArgvTries
  <2>3. OutOfBounds(g)
    BY <1>1, <1>3, <1>4, <2>1, <2>2 DEF OutOfBounds, ArgvOutOfBounds, h
  <2> QED BY <2>3 DEF GoesOn, g
<1> QED BY <1>2, <1>5, <1>6

LEMMA GeneratorGoesOn ==
  ASSUME NoneAssumption, InputInv,
         NEW g,
         \/ pc = "argc" /\ g = LenGenerator("argc", 0, ArgcMax)
         \/ pc = "argvlen" /\ g = ArgvLenGenerator(opts.init_input.argc, 0, ArgvLenMax)
         \/ /\ pc = "argv" /\ ArgvToSolve /\ opts.init_input.argvlens # Absent /\ ~EmptyArgument
            /\ g = ArgvGenerator(opts.init_input.argc, opts.init_input.argvlens, MinChr, MaxChr)
         \/ pc = "stdinlen" /\ g = LenGenerator("stdinlen", 0, StdinLenMax)
         \/ /\ pc = "stdinchar" /\ ~StartFillsStdin
            /\ g = StdinCharGenerator(input.stdinlen, MinChr, MaxChr, Start)
         \/ /\ pc = "region" /\ Len(Head(left).bytes) # Head(left).size
            /\ g = MemGenerator(Head(left).size, Head(left).bytes)
  PROVE  GoesOn(g)
<1> USE DEF ByLen, Lengths, GoesOn
<1>1. CASE pc \in {"argc", "stdinlen"}
  <2>1. PICK kind \in Lengths, max \in Nat : g = LenGenerator(kind, 0, max)
    BY <1>1, GivenInput
  <2>2. g.kind \in Lengths /\ g.len <= g.max
    BY <2>1 DEF LenGenerator
  <2>3. Fits(g)
    BY <2>2 DEF Fits
  <2>4. Offers(g)
    BY <2>2 DEF Offers
  <2> QED BY <2>3, <2>4
<1>2. CASE pc = "argvlen"
  <2>1. g.kind = "argvlen" /\ g.len = 0 /\ g.min = 0 /\ g.max \in Nat
    BY <1>2, GivenInput DEF ArgvLenGenerator
  <2> QED BY <2>1 DEF Fits, Offers
<1>3. CASE pc = "argv"
  <2> DEFINE argc == opts.init_input.argc
             lens == opts.init_input.argvlens
  <2>1. /\ argc \in Nat \ {0} /\ lens \in Seq(Nat)
        /\ g = ArgvGenerator(argc, lens, MinChr, MaxChr)
    BY <1>3, GivenInput DEF ArgvToSolve
  <2>2. \A p \in DOMAIN lens \cap 1..argc :
          lens[p] = 0 => p # argc /\ (p + 1 \in DOMAIN lens => lens[p + 1] # 0)
    BY <1>3 DEF EmptyArgument
  <2> HIDE DEF argc, lens, GoesOn
  <2> QED BY <2>1, <2>2, GivenInput, ArgvGoesOn
<1>4. CASE pc = "stdinchar"
  <2>1. /\ g = StdinCharGenerator(input.stdinlen, MinChr, MaxChr, Start)
        /\ input.stdinlen \in Nat /\ input.stdinlen # Absent
    BY <1>4 DEF InputInv, NoneAssumption
  <2>2. Start \in Seq(Nat) /\ Len(Start) < input.stdinlen
    BY <1>4, <2>1, GivenInput DEF StartFillsStdin
  <2> QED BY <2>1, <2>2, GivenInput DEF StdinCharGenerator, Fits, Offers, StdinCharOffers
<1>5. CASE pc = "region"
  BY <1>5, GeneratorAssumption DEF MemGenerator, Fits, Offers, finished
<1> QED BY <1>1, <1>2, <1>3, <1>4, <1>5

\* Steps that leave the call, or its absence, as it is.
LEMMA SameCause ==
  ASSUME CauseInv, result' = result \/ result' # "Err",
         UNCHANGED <<opts, pc, left, calling, timed, input, gen, outcome>>
  PROVE  CauseInv'
<1>1. NothingLeft' = NothingLeft /\ GoesOn(gen)' = GoesOn(gen')
  BY DEF NothingLeft, EmptyArgument, StartFillsStdin, Start, RegionGiven, GoesOn, Fits, HasLengths,
         Offers, StdinCharOffers, ArgvOffers, ArgvTries, SkipEmpty, finished, OutOfBounds,
         ArgvOutOfBounds
<1> QED BY <1>1 DEF CauseInv

LEMMA CallCause ==
  ASSUME result = "none", NEW g, Call(g), NothingLeft' \/ GoesOn(g)
  PROVE  CauseInv'
<1>1. calling' /\ gen' = g /\ outcome' = "running" /\ result' = "none"
  BY DEF Call
<1>2. GoesOn(gen)' = GoesOn(gen')
  BY DEF GoesOn, Fits, HasLengths, Offers, StdinCharOffers, ArgvOffers, ArgvTries, SkipEmpty,
         finished, OutOfBounds, ArgvOutOfBounds
<1> HIDE DEF GoesOn
<1> QED BY <1>1, <1>2 DEF CauseInv

LEMMA ChooseCause ==
  ASSUME AlwaysCounts, StageInv, CauseInv, Choose
  PROVE  CauseInv'
<1>1. calling /\ UNCHANGED runVars /\ outcome = "running" /\ Counting(gen)
  BY DEF Choose, brute!Round, NoTime, brute!NoResult, StageInv, CallInv, OfStage
<1>2. NothingLeft' = NothingLeft
  BY <1>1 DEF runVars, NothingLeft, EmptyArgument, StartFillsStdin, Start, RegionGiven
<1>3. NothingLeft \/ GoesOn(gen)
  BY <1>1 DEF CauseInv
<1>4. result # "Err"
  BY <1>1 DEF CauseInv
<1>5. OutOfBounds(gen) => brute!Last(gen) = {}
  BY <1>1, NoLast
<1>6. CASE brute!Round
  <2>1. PICK h, last \in Calls(gen) :
          /\ Offers(h) /\ Ends(last)
          /\ gen' = Updated(Stepped(last), Item(h))
          /\ IF More(Stepped(last), Item(h))
               THEN outcome' = outcome /\ answer' = answer
               ELSE outcome' = "Ok" /\ answer' = combine(solved, Guess(h))
    BY <1>6, RoundIs
  <2>2. outcome' \in {"running", "Ok"}
    BY <1>1, <2>1
  <2>3. NothingLeft \/ Fits(gen)
    BY <1>3, <1>5, <2>1, LastIs DEF GoesOn
  <2>4. ASSUME Fits(gen), outcome' = "running"
        PROVE  Fits(gen') /\ Offers(gen')
    <3>1. Counting(Stepped(last)) /\ Fits(Stepped(last))
      BY <1>1, <2>4, CallsClosed, CallsFit, SteppedCounts, SteppedFits
    <3>2. More(Stepped(last), Item(h))
      BY <2>1, <2>4
    <3> QED BY <2>1, <3>1, <3>2, UpdatedFits, MoreMeansOffers
  <2>5. Fits(gen') /\ Offers(gen') => GoesOn(gen)'
    BY DEF GoesOn, Fits, HasLengths, Offers, StdinCharOffers, ArgvOffers, ArgvTries, SkipEmpty,
           finished
  <2> QED BY <1>1, <1>2, <1>4, <2>2, <2>3, <2>4, <2>5 DEF CauseInv, runVars
<1>7. CASE timed = 0 /\ NoTime
  BY <1>1, <1>4, <1>7 DEF CauseInv, runVars, NoTime
<1>8. CASE brute!NoResult
  <2>1. ~Offers(gen) /\ ~OutOfBounds(gen)
    BY <1>1, <1>5, <1>8, NoResultMeans DEF AlwaysCounts, brute!NoResult
  <2>2. NothingLeft' /\ outcome' = "Err"
    BY <1>2, <1>3, <1>8, <2>1 DEF brute!NoResult, GoesOn
  <2> QED BY <1>1, <1>4, <2>2 DEF CauseInv, runVars
<1> QED BY <1>6, <1>7, <1>8 DEF Choose, NoTime

LEMMA NextCause ==
  ASSUME NoneAssumption, AlwaysCounts, StageInv, CauseInv, [Next]_vars
  PROVE  CauseInv'
<1>1. CASE UNCHANGED vars \/ Returned
  BY <1>1, SameCause DEF Returned, vars, runVars, bruteVars
<1>2. CASE (UserStep \/ LoopEnds) /\ UNCHANGED <<runVars, bruteVars>>
  BY <1>2, SameCause DEF runVars, bruteVars
<1>3. CASE RunStep
  <2> USE DEF At, StageInv
  <2>1. CASE SolveArgc
    BY <2>1, GeneratorGoesOn, CallCause DEF SolveArgc
  <2>2. CASE SolveArgvLen
    BY <2>2, GeneratorGoesOn, CallCause DEF SolveArgvLen
  <2>3. CASE SolveArgv
    <3>1. EmptyArgument => NothingLeft'
      BY <2>3 DEF SolveArgv, Call, NothingLeft, EmptyArgument
    <3> QED BY <2>3, <3>1, GeneratorGoesOn, CallCause DEF SolveArgv
  <2>4. CASE SolveStdinLen /\ input.stdinlen = Absent
    BY <2>4, GeneratorGoesOn, CallCause DEF SolveStdinLen
  <2>5. CASE SolveStdin
    <3>1. StartFillsStdin => NothingLeft'
      BY <2>5 DEF SolveStdin, Call, NothingLeft, StartFillsStdin, Start
    <3> QED BY <2>5, <3>1, GeneratorGoesOn, CallCause DEF SolveStdin
  <2>6. CASE SolveRegion
    <3> DEFINE mem == opts.init_input.mem
    <3>1. /\ pc = "region" /\ left # <<>> /\ left' = Tail(left) /\ UNCHANGED <<pc, opts>>
          /\ Call(MemGenerator(Head(left).size, Head(left).bytes)) /\ result = "none"
      BY <2>6 DEF SolveRegion, Call
    <3>2. Head(left) = mem[Len(mem) - Len(Tail(left))]
      <4>1. left \in Seq(Regions) /\ mem \in Seq(Regions) /\ EndOf(left, mem)
        BY <3>1, GivenInput DEF InputInv
      <4> HIDE DEF mem
      <4> QED BY <3>1, <4>1, TailIsEnd
    <3>3. Len(Head(left).bytes) = Head(left).size => NothingLeft'
      BY <3>1, <3>2 DEF NothingLeft, RegionGiven
    <3> QED BY <3>1, <3>3, GeneratorGoesOn, CallCause
  <2>7. CASE \/ SolveStdinLen /\ input.stdinlen # Absent
             \/ SkipArgv \/ SkipStdin \/ SolveMem \/ Done
    <3>1. ~calling' /\ result' = "none"
      BY <2>7 DEF SolveStdinLen, SkipArgv, SkipStdin, SolveMem, Done, GoTo
    <3> QED BY <3>1 DEF CauseInv
  <2>8. CASE DropConflicts
    BY <2>8 DEF DropConflicts, CauseInv
  <2>9. CASE Count
    <3>1. /\ calling /\ outcome = "running" /\ UNCHANGED <<opts, pc, left, input, gen, outcome>>
          /\ UNCHANGED <<calling, result>>
      BY <2>9 DEF Count, bruteVars
    <3>2. NothingLeft' = NothingLeft /\ GoesOn(gen)' = GoesOn(gen)
      BY <3>1 DEF NothingLeft, EmptyArgument, StartFillsStdin, Start, RegionGiven, GoesOn, Fits,
                  HasLengths, Offers, StdinCharOffers, ArgvOffers, ArgvTries, SkipEmpty, finished,
                  OutOfBounds, ArgvOutOfBounds
    <3> QED BY <3>1, <3>2 DEF CauseInv
  <2>10. CASE CountPanics \/ CollectPanics
    <3>1. /\ calling /\ outcome = "running" /\ outcome' = "panicked" /\ UNCHANGED <<calling, result>>
      BY <2>10 DEF CountPanics, CollectPanics, brute!Panic, brute!NextPanics, runVars
    <3> QED BY <3>1 DEF CauseInv
  <2>11. CASE BruteReturns
    <3>1. calling /\ outcome = "Ok" /\ ~calling' /\ result' = result
      BY <2>11 DEF BruteReturns
    <3> QED BY <3>1 DEF CauseInv
  <2>12. CASE RunFails \/ RunReturns
    <3>1. /\ UNCHANGED <<opts, pc, left, calling, timed, input, gen, outcome>>
          /\ result' = "Err" => calling /\ outcome = "Err"
      BY <2>12 DEF RunFails, RunReturns, bruteVars
    <3>2. ASSUME result' = "Err"
          PROVE  CauseInv'
      <4>1. NothingLeft' = NothingLeft
        BY <3>1 DEF NothingLeft, EmptyArgument, StartFillsStdin, Start, RegionGiven
      <4> QED BY <3>1, <3>2, <4>1 DEF CauseInv
    <3> QED BY <3>1, <3>2, SameCause
  <2> QED BY <1>2, <1>3, <2>1, <2>2, <2>3, <2>4, <2>5, <2>6, <2>7, <2>8, <2>9, <2>10, <2>11,
             <2>12, ChooseCause DEF RunStep
<1> QED BY <1>1, <1>2, <1>3 DEF Next

\* "No valid results found" is never the answer for a program that is counted
\* as long as its runs have time and the stage has something to solve.  Number
\* of arguments and list of lengths are given apart: lengths that no argument
\* has make no difference, and too few of them no error (PanicsHaveCauses).
THEOREM FailuresHaveCauses ==
  ASSUME NoneAssumption, AlwaysCounts
  PROVE  Spec => []ErrHasCause
<1>1. Init => CauseInv
  BY DEF Init, CauseInv
<1>2. StageInv /\ CauseInv /\ [Next]_vars => CauseInv'
  BY NextCause
<1>3. CauseInv => ErrHasCause
  BY DEF CauseInv, ErrHasCause, NothingLeft
<1> QED BY StageInvariant, <1>1, <1>2, <1>3, PTL DEF Spec

-----------------------------------------------------------------------------
(* PipelineTypeOK.  The timeout is a number whatever digits are typed.       *)

\* `to` has the numbers that the first n digits make.
Reads(to, digits, n) ==
  to = [i \in 0..n |-> IF i = 0 THEN 0 ELSE 10 * to[i - 1] + digits[i]]

LEMMA ReadsIs ==
  ASSUME NEW to, NEW digits, NEW n \in Nat, Reads(to, digits, n)
  PROVE  to[0] = 0 /\ \A i \in 1..n : to[i] = 10 * to[i - 1] + digits[i]
<1>1. ASSUME NEW i \in 0..n
      PROVE  to[i] = IF i = 0 THEN 0 ELSE 10 * to[i - 1] + digits[i]
  BY DEF Reads
<1>2. 0 \in 0..n /\ \A i \in 1..n : i \in 0..n /\ i # 0
  OBVIOUS
<1> QED BY <1>1, <1>2

LEMMA ReadsExists ==
  ASSUME NEW digits, NEW m \in Nat
  PROVE  \E to : Reads(to, digits, m)
<1> DEFINE Has(n) == \E to : Reads(to, digits, n)
           S == {n \in Nat : Has(n)}
<1>1. Has(0)
  <2> DEFINE to == [i \in 0..0 |-> 0]
  <2>1. Reads(to, digits, 0)
    BY DEF Reads
  <2> QED BY <2>1
<1>2. ASSUME NEW n \in Nat, Has(n)
      PROVE  Has(n + 1)
  <2>1. PICK to : Reads(to, digits, n)
    BY <1>2
  <2> DEFINE Step(v, i) == 10 * v + digits[i]
             d == [i \in 0..n + 1 |-> IF i = n + 1 THEN Step(to[n], n + 1) ELSE to[i]]
             e == [i \in 0..n + 1 |-> IF i = 0 THEN 0 ELSE Step(d[i - 1], i)]
  <2>2. to[0] = 0 /\ \A i \in 1..n : to[i] = Step(to[i - 1], i)
    BY <2>1, ReadsIs
  <2>3. ASSUME NEW i \in 0..n + 1
        PROVE  d[i] = e[i]
    <3> HIDE DEF Step
    <3>1. CASE i = n + 1
      <4>1. d[i] = Step(to[n], n + 1) /\ d[n] = to[n] /\ e[i] = Step(d[n], i)
        BY <3>1
      <4> HIDE DEF d, e
      <4> QED BY <3>1, <4>1
    <3>2. CASE i \in 1..n
      <4>1. d[i] = to[i] /\ d[i - 1] = to[i - 1] /\ e[i] = Step(d[i - 1], i)
        BY <3>2
      <4> HIDE DEF d, e
      <4> QED BY <2>2, <3>2, <4>1
    <3>3. CASE i = 0
      <4>1. 0 \in 0..n /\ 0 # n + 1
        OBVIOUS
      <4>2. d[0] = to[0] /\ e[0] = 0
        BY <4>1
      <4> HIDE DEF d, e
      <4> QED BY <2>2, <3>3, <4>2
    <3> QED BY <3>1, <3>2, <3>3
  <2>4. d = e
    <3> HIDE DEF Step
    <3> QED BY <2>3
  <2>5. Reads(d, digits, n + 1)
    BY <2>4 DEF Reads
  <2> QED BY <2>5
<1>3. 0 \in S /\ \A n \in Nat : n \in S => n + 1 \in S
  <2> HIDE DEF Has
  <2> QED BY <1>1, <1>2
<1>4. Nat \subseteq S
  <2> HIDE DEF S
  <2> QED BY <1>3, NumbersInduct
<1> QED BY <1>4

LEMMA NumberType ==
  ASSUME NEW digits, Len(digits) \in Nat, \A i \in 1..Len(digits) : digits[i] \in Nat
  PROVE  Number(digits) \in Nat
<1> DEFINE N == Len(digits)
           to == CHOOSE to : Reads(to, digits, N)
           S == {n \in Nat : n \in 0..N => to[n] \in Nat}
<1>1. N \in Nat /\ \A i \in 1..N : digits[i] \in Nat
  OBVIOUS
<1>2. Number(digits) = to[N]
  BY DEF Number, Reads
<1>3. Reads(to, digits, N)
  BY <1>1, ReadsExists
<1> HIDE DEF to, N
<1>4. to[0] = 0 /\ \A i \in 1..N : to[i] = 10 * to[i - 1] + digits[i]
  BY <1>1, <1>3, ReadsIs
<1>5. ASSUME NEW n \in Nat, n \in S
      PROVE  n + 1 \in S
  <2>1. ASSUME n + 1 \in 0..N
        PROVE  to[n + 1] \in Nat
    <3>1. to[n] \in Nat /\ n + 1 \in 1..N /\ (n + 1) - 1 = n
      BY <1>1, <1>5, <2>1
    <3>2. to[n + 1] = 10 * to[n] + digits[n + 1] /\ digits[n + 1] \in Nat
      BY <1>1, <1>4, <3>1
    <3> QED BY <3>1, <3>2
  <2> QED BY <2>1
<1>6. 0 \in S
  BY <1>4
<1>7. Nat \subseteq S
  <2> HIDE DEF S
  <2> QED BY <1>5, <1>6, NumbersInduct
<1> QED BY <1>1, <1>2, <1>7

TuiTypes ==
  /\ ui \in {"tui", "env"}
  /\ at \in {"idle", "waiting", "editing", "back", "done", "closed", "quit"}
  /\ tab \in Tabs
  /\ selected \in 0..TimeoutOption \cup 0..HistoryLen + 1
  /\ timeout \in Nat
  /\ buffer \in Seq(Digits)

LEMMA UserTypes ==
  ASSUME TuiTypes, UserStep
  PROVE  TuiTypes'
<1> USE DEF TuiTypes, Key
<1>1. CASE Right
  BY <1>1 DEF Right
<1>2. CASE Left
  BY <1>2 DEF Left
<1>3. CASE Continue
  BY <1>3 DEF Continue
<1>4. CASE Quit \/ SwitchTab \/ EndOfInput \/ Enter
  BY <1>4 DEF Quit, SwitchTab, EndOfInput, Enter
<1>5. CASE Up
  BY <1>5, TuiAssumption DEF Up, TimeoutOption
<1>6. CASE Down
  BY <1>6, TuiAssumption DEF Down, TimeoutOption
<1>7. CASE EditKey
  <2>1. PICK digits \in Seq(Digits) : Edit(digits)
    <3>1. \A d \in Digits : Append(buffer, d) \in Seq(Digits)
      OBVIOUS
    <3>2. buffer # <<>> => SubSeq(buffer, 1, Len(buffer) - 1) \in Seq(Digits)
      OBVIOUS
    <3> QED BY <1>7, <3>1, <3>2 DEF EditKey
  <2>2. Len(digits) \in Nat /\ \A i \in 1..Len(digits) : digits[i] \in Nat
    <3>1. Digits \subseteq Nat
      BY TuiAssumption
    <3>2. Len(digits) \in Nat
      BY <2>1
    <3>3. \A i \in 1..Len(digits) : digits[i] \in Digits
      BY <2>1
    <3> QED BY <3>1, <3>2, <3>3
  <2>3. timeout' \in Nat /\ buffer' \in Seq(Digits)
    BY <2>1, <2>2, NumberType DEF Edit
  <2> QED BY <1>7, <2>3 DEF EditKey
<1>8. CASE EndEdit
  BY <1>8 DEF EndEdit
<1> QED BY <1>1, <1>2, <1>3, <1>4, <1>5, <1>6, <1>7, <1>8 DEF UserStep

LEMMA SetTypes ==
  ASSUME TuiTypes, NEW t \in Nat, set_timeout(t)
  PROVE  TuiTypes'
<1>1. t \div Second \in Nat
  BY TuiAssumption
<1> QED BY <1>1 DEF set_timeout, TuiTypes

RunTypes ==
  /\ calling \in BOOLEAN
  /\ result \in {"none", "Ok", "Err", "panicked"}
  /\ outcome \in {"running", "Ok", "Err", "panicked"}
  /\ timed \in Nat \cup {Absent}
  /\ TuiTypes

LEMMA NextTypes ==
  ASSUME InputInv, RunTypes, [Next]_vars
  PROVE  RunTypes'
<1> USE DEF RunTypes
<1>1. CASE UNCHANGED vars \/ Returned
  BY <1>1 DEF Returned, vars, runVars, bruteVars, tuiVars, TuiTypes
<1>2. CASE UserStep /\ UNCHANGED <<runVars, bruteVars>>
  BY <1>2, UserTypes DEF runVars, bruteVars
<1>3. CASE RunStep
  <2>1. CASE SolveArgc \/ SolveStdinLen \/ SolveMem
    <3>1. set_timeout(opts.timeout) /\ opts.timeout \in Nat
      BY <2>1, ProgramsAssumption DEF SolveArgc, SolveStdinLen, SolveMem, InputInv
    <3>2. TuiTypes'
      BY <3>1, SetTypes
    <3>3. /\ calling' \in BOOLEAN
          /\ UNCHANGED <<result, timed>> /\ outcome' \in {outcome, "running"}
      <4>1. CASE SolveArgc
        BY <4>1 DEF SolveArgc, Call
      <4>2. CASE SolveStdinLen
        BY <4>2 DEF SolveStdinLen, Call, GoTo, bruteVars
      <4>3. CASE SolveMem
        BY <4>3 DEF SolveMem, bruteVars
      <4> QED BY <2>1, <4>1, <4>2, <4>3
    <3> QED BY <3>2, <3>3
  <2>2. CASE SolveArgvLen \/ SolveArgv \/ SolveStdin \/ SolveRegion
    <3>1. calling' = TRUE /\ outcome' = "running" /\ UNCHANGED <<result, timed, tuiVars>>
      BY <2>2 DEF SolveArgvLen, SolveArgv, SolveStdin, SolveRegion, Call
    <3> QED BY <3>1 DEF tuiVars, TuiTypes
  <2>3. CASE SkipArgv \/ SkipStdin \/ DropConflicts \/ RunFails \/ RunReturns
    <3>1. /\ UNCHANGED <<calling, timed, outcome, tuiVars>>
          /\ result' \in {"none", "Ok", "Err", "panicked"}
      BY <2>3 DEF SkipArgv, SkipStdin, DropConflicts, RunFails, RunReturns, GoTo, bruteVars
    <3> QED BY <3>1 DEF tuiVars, TuiTypes
  <2>4. CASE Done
    BY <2>4 DEF Done, GoTo, bruteVars, done, TuiTypes
  <2>5. CASE Count
    <3>1. get_timeout \in Nat
      BY TuiAssumption DEF get_timeout, TuiTypes
    <3> QED BY <2>5, <3>1 DEF Count, bruteVars, update, Wait, TuiTypes
  <2>6. CASE CountPanics \/ CollectPanics
    BY <2>6 DEF CountPanics, CollectPanics, brute!Panic, brute!NextPanics, runVars, tuiVars, TuiTypes
  <2>7. CASE Choose
    <3>1. outcome' \in {"running", "Ok", "Err"}
      BY <2>7 DEF Choose, brute!Round, NoTime, brute!NoResult
    <3> QED BY <2>7, <3>1 DEF Choose, runVars, resume, TuiTypes
  <2>8. CASE BruteReturns
    BY <2>8 DEF BruteReturns, bruteVars, tuiVars, TuiTypes
  <2>9. CASE LoopEnds /\ UNCHANGED <<runVars, bruteVars>>
    BY <2>9 DEF LoopEnds, runVars, bruteVars, TuiTypes
  <2> QED BY <1>3, <2>1, <2>2, <2>3, <2>4, <2>5, <2>6, <2>7, <2>8, <2>9 DEF RunStep
<1> QED BY <1>1, <1>2, <1>3 DEF Next

\* run() and the interface stay in their states, and regions are left as many
\* as were given at most.
THEOREM PipelineTypes ==
  ASSUME NoneAssumption
  PROVE  Spec => []PipelineTypeOK
<1>1. Init => RunTypes
  <2> SUFFICES ASSUME Init PROVE RunTypes
    OBVIOUS
  <2>1. /\ calling = FALSE /\ result = "none" /\ outcome = "running" /\ timed = Absent
        /\ opts \in Programs /\ TuiInit(opts.ui)
    BY DEF Init
  <2>2. TuiTypes
    <3>1. opts.ui \in {"tui", "env"}
      BY <2>1, ProgramsAssumption
    <3>2. 5 * Second \in Nat
      BY TuiAssumption
    <3>3. timeout \in Nat /\ buffer \in Seq(Digits) /\ ui \in {"tui", "env"} /\ at = "idle"
      BY <2>1, <3>1, <3>2 DEF TuiInit
    <3>4. tab \in Tabs /\ selected \in 0..TimeoutOption
      BY <2>1 DEF TuiInit, Tabs, TimeoutOption
    <3> QED BY <3>3, <3>4 DEF TuiTypes
  <2> QED BY <2>1, <2>2 DEF RunTypes
<1>2. StageInv /\ RunTypes /\ [Next]_vars => RunTypes'
  BY NextTypes DEF StageInv
<1>3. StageInv /\ RunTypes /\ Shown => PipelineTypeOK
  <2> SUFFICES ASSUME StageInv, RunTypes, Shown PROVE PipelineTypeOK
    OBVIOUS
  <2>1. Len(left) <= (IF input.mem = Absent THEN 0 ELSE Len(opts.init_input.mem))
    <3>1. CASE pc = "region"
      BY <3>1 DEF StageInv, InputInv
    <3>2. CASE pc # "region"
      <4>1. left = <<>> /\ Len(left) = 0
        BY <3>2 DEF StageInv, InputInv
      <4>2. input.mem # Absent => Len(opts.init_input.mem) \in Nat
        BY GivenInput DEF StageInv, InputInv
      <4> QED BY <4>1, <4>2
    <3> QED BY <3>1, <3>2
  <2>2. calling => gen # Absent /\ solved = input
    BY DEF StageInv, CallInv, OfStage, Counting, NoneAssumption
  <2>3. pc \in Stages \cup {"mem", "done"}
    BY DEF StageInv, InputInv
  <2> QED BY <2>1, <2>2, <2>3 DEF PipelineTypeOK, RunTypes, TuiTypes, Shown, Stages
<1> QED BY StageInvariant, InitShown, NextShown, <1>1, <1>2, <1>3, PTL DEF Spec

=============================================================================
