-------------------------------- MODULE B7tui --------------------------------
(***************************************************************************)
(* src/b7tui.rs: the two implementations of the trait Ui, Tui and Env, as  *)
(* brute() and B7Opts::run() call them, and the keys a user presses while  *)
(* Tui waits.  Everything happens on the main thread.  Left out is what    *)
(* only changes the looks: the format of numbers, the gap between bars and *)
(* all drawing, and the value of the option Repeat, which nothing reads.   *)
(* As in Generators an index is one more than in the code, here 0 is None. *)
(***************************************************************************)
EXTENDS Integers, Sequences

CONSTANTS
  Second,       \* ticks of the clock in a second, 10^9 in the code
  Digits,       \* the digits a user may type
  UMax,         \* u64::MAX
  HistoryLen    \* lines in the cache file of the program under test

ASSUME TuiAssumption ==
  /\ Second \in Nat \ {0}
  /\ Digits \subseteq 0..9
  /\ UMax \in Nat
  /\ HistoryLen \in Nat

VARIABLES
  ui,         \* the implementation: "tui" or "env"
  at,         \* where it is: "idle" outside of wait() and done()
  numrun,     \* rounds shown so far, and the length of `cache`
  currun,     \* the round on the screen
  cont,       \* has the user said to continue without waiting?
  tab,        \* app.tabs.index
  selected,   \* the selected option
  timeout,    \* Tui: in seconds; Env: in ticks
  buffer,     \* digits of the number that is edited
  eof,        \* has stdin ended?
  edited      \* history: has the user edited the timeout in this stage?

tuiVars == <<ui, at, numrun, currun, cont, tab, selected, timeout, buffer, eof, edited>>

Tabs == 1..2
TimeoutOption == 2    \* the last of `options`

\* Tui::new, Env::new.  The 5 seconds are overwritten before the first run.
TuiInit(kind) ==
  /\ ui = kind
  /\ at = "idle"
  /\ numrun = 0 /\ currun = 0
  /\ cont = FALSE
  /\ tab = 1
  /\ selected = 0
  /\ timeout = IF kind = "tui" THEN 5 ELSE 5 * Second
  /\ buffer = <<>>
  /\ eof = FALSE
  /\ edited = FALSE

-----------------------------------------------------------------------------
(* The trait Ui                                                            *)

\* Tui keeps whole seconds.
set_timeout(t) ==
  /\ timeout' = IF ui = "tui" THEN t \div Second ELSE t
  /\ UNCHANGED <<ui, at, numrun, currun, cont, tab, selected, buffer, eof>>

get_timeout == IF ui = "tui" THEN timeout * Second ELSE timeout

WaitAlways == "waiting"     \* mutant: wait() does not look at cont

\* wait() enters its loop over keys, or returns.
Wait == IF ui = "tui" /\ ~cont THEN "waiting" ELSE "back"

\* update() with the results of a round, and wait().
update ==
  /\ at = "idle"
  /\ IF ui = "tui"
       THEN /\ currun' = IF currun = numrun THEN currun + 1 ELSE currun
            /\ numrun' = numrun + 1
       ELSE UNCHANGED <<currun, numrun>>
  /\ at' = Wait
  /\ UNCHANGED <<ui, cont, tab, selected, timeout, buffer, eof, edited>>

\* wait() has returned.
resume ==
  /\ at = "back"
  /\ at' = "idle"
  /\ UNCHANGED <<ui, numrun, currun, cont, tab, selected, timeout, buffer, eof, edited>>

done ==
  /\ at = "idle"
  /\ at' = IF ui = "tui" THEN "done" ELSE "closed"
  /\ UNCHANGED <<ui, numrun, currun, cont, tab, selected, timeout, buffer, eof, edited>>

-----------------------------------------------------------------------------
(* Keys in wait() and in done()                                            *)

\* A key that changes nothing but what is listed here.
Key(where) == at \in where /\ ~eof /\ UNCHANGED <<ui, eof>>

RightOnce ==   \* mutant: off by one, the last round but one ends the wait
  /\ Key({"waiting", "done"})
  /\ currun' = IF currun + 1 < numrun THEN currun + 1 ELSE currun
  /\ at' = IF at = "waiting" /\ currun + 1 >= numrun THEN "back" ELSE at
  /\ UNCHANGED <<numrun, cont, tab, selected, timeout, buffer, edited>>

\* Beyond the last round wait() returns.
Right ==
  /\ Key({"waiting", "done"})
  /\ currun' = IF currun < numrun THEN currun + 1 ELSE currun
  /\ at' = IF at = "waiting" /\ currun = numrun THEN "back" ELSE at
  /\ UNCHANGED <<numrun, cont, tab, selected, timeout, buffer, edited>>

LeftToZero ==   \* mutant: off by one
  /\ Key({"waiting", "done"})
  /\ currun > 0
  /\ currun' = currun - 1
  /\ UNCHANGED <<at, numrun, cont, tab, selected, timeout, buffer, edited>>

Left ==
  /\ Key({"waiting", "done"})
  /\ currun > 1
  /\ currun' = currun - 1
  /\ UNCHANGED <<at, numrun, cont, tab, selected, timeout, buffer, edited>>

\* 'c': no more waiting until done().
Continue ==
  /\ Key({"waiting"})
  /\ cont' = ~cont
  /\ at' = IF cont' THEN "back" ELSE at
  /\ UNCHANGED <<numrun, currun, tab, selected, timeout, buffer, edited>>

\* 'q', and 'p' in done(): the main thread panics.
Quit ==
  /\ Key({"waiting", "done"})
  /\ at' = "quit"
  /\ UNCHANGED <<numrun, currun, cont, tab, selected, timeout, buffer, edited>>

SwitchTab ==
  /\ Key({"waiting"})
  /\ tab' \in Tabs \cap {tab - 1, tab + 1}
  /\ UNCHANGED <<at, numrun, currun, cont, selected, timeout, buffer, edited>>

Up ==
  /\ Key({"waiting", "done"})
  /\ at = "waiting" => tab = 2
  /\ selected' = IF selected > 1 THEN selected - 1 ELSE 1
  /\ UNCHANGED <<at, numrun, currun, cont, tab, timeout, buffer, edited>>

DownBeyond ==   \* mutant: off by one
  /\ Key({"waiting", "done"})
  /\ at = "waiting" => tab = 2
  /\ selected <= (IF at = "waiting" THEN TimeoutOption ELSE HistoryLen + 1)
  /\ selected' = selected + 1
  /\ UNCHANGED <<at, numrun, currun, cont, tab, timeout, buffer, edited>>

\* done() goes by the lines of the history.
Down ==
  /\ Key({"waiting", "done"})
  /\ at = "waiting" => tab = 2
  /\ selected < (IF at = "waiting" THEN TimeoutOption ELSE HistoryLen + 1)
  /\ selected' = selected + 1
  /\ UNCHANGED <<at, numrun, currun, cont, tab, timeout, buffer, edited>>

-----------------------------------------------------------------------------
(* Editing an option                                                       *)

Enter ==
  /\ Key({"waiting"})
  /\ tab = 2
  /\ at' = "editing"
  /\ UNCHANGED <<numrun, currun, cont, tab, selected, timeout, buffer, edited>>

Number(digits) ==
  LET to[n \in 0..Len(digits)] == IF n = 0 THEN 0 ELSE 10 * to[n - 1] + digits[n]
  IN to[Len(digits)]

Parses(digits) == digits # <<>> /\ Number(digits) <= UMax

\* buffer.parse() after a key; a text that is no number is cleared.
Edit(digits) ==
  /\ buffer' = IF Parses(digits) THEN digits ELSE <<>>
  /\ timeout' = IF Parses(digits) THEN Number(digits) ELSE 0
  /\ edited' = TRUE

\* A digit is added, Backspace takes the last one away, any other key does
\* nothing, and then the text is parsed.  Only the timeout matters here.
EditKey ==
  /\ Key({"editing"})
  /\ selected = TimeoutOption
  /\ \/ \E d \in Digits : Edit(Append(buffer, d))
     \/ Edit(buffer)
     \/ Edit(IF buffer = <<>> THEN <<>> ELSE SubSeq(buffer, 1, Len(buffer) - 1))
  /\ UNCHANGED <<at, numrun, currun, cont, tab, selected>>

EndEdit ==
  /\ Key({"editing"})
  /\ at' = "waiting"
  /\ buffer' = <<>>
  /\ UNCHANGED <<numrun, currun, cont, tab, selected, timeout, edited>>

-----------------------------------------------------------------------------
\* stdin ends: a pipe, or a terminal that hangs up.
EndOfInput ==
  /\ at \in {"waiting", "editing", "done"}
  /\ ~eof
  /\ eof' = TRUE
  /\ UNCHANGED <<ui, at, numrun, currun, cont, tab, selected, timeout, buffer, edited>>

\* The loops over keys end with stdin.
LoopEnds ==
  /\ eof
  /\ \/ at = "editing" /\ at' = "waiting"
     \/ at = "waiting" /\ at' = "back"
     \/ at = "done" /\ at' = "closed"
  /\ buffer' = <<>>
  /\ UNCHANGED <<ui, numrun, currun, cont, tab, selected, timeout, eof, edited>>

UserStep ==
  \/ Right \/ Left \/ Continue \/ Quit
  \/ SwitchTab \/ Up \/ Down
  \/ Enter \/ EditKey \/ EndEdit
  \/ EndOfInput

-----------------------------------------------------------------------------
(* Properties                                                              *)

\* redraw() indexes the cache with currun - 1 after each key and each round:
\* there is such a round, however the user goes back and forth.
ShownRoundExists == numrun # 0 => currun \in 1..numrun

\* While the user wants to be asked, each round that is over is the one on the
\* screen when wait() begins: none is passed by before it was shown.
NewestShownFirst ==
  [][at = "idle" /\ at' = "waiting" /\ ~eof => currun' = numrun']_tuiVars
=============================================================================
