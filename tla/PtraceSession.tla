---------------------------- MODULE PtraceSession ----------------------------
(***************************************************************************)
(* src/process.rs: what a run in mode Always does to the memory of its     *)
(* child, from the exec stop to the exit.  handle_ptrace_stop arms the     *)
(* breakpoints and loads the memory inputs at the first stop, and at each  *)
(* stop looks whether a breakpoint was reached.                            *)
(*                                                                         *)
(* The statuses come in as ProcessWaiter delivers them: a stop is handled  *)
(* after it happened, and the child stands still until it is continued.    *)
(* Addresses are relative to the base of the executable, as abs_addr and   *)
(* rel_addr see to, so one set of them does for both kinds of executables. *)
(***************************************************************************)
EXTENDS Integers, Sequences

CONSTANTS
  WordSize,   \* bytes that one ptrace request reads or writes: 8
  Image,      \* the memory of the program when it starts: address -> byte
  Flow,       \* instruction -> instructions that may come after it
  Cases,      \* the memory inputs a run may have
  Trap,       \* 0xcc
  None        \* Option::None

Memory == DOMAIN Image
Instr == DOMAIN Flow            \* addresses where an instruction begins

ASSUME PtraceAssumption ==
  /\ WordSize \in Nat \ {0}
  /\ Memory \subseteq Nat
  /\ Instr \subseteq Memory
  /\ \A i \in Instr : Flow[i] \subseteq Instr /\ Image[i] # Trap
  /\ None \notin Memory
  /\ \A c \in Cases :
       /\ Len(c) \in Nat /\ DOMAIN c = 1..Len(c)
       /\ \A i \in DOMAIN c :
            /\ c[i].addr \in Memory
            /\ c[i].breakpoint # None => c[i].breakpoint \in Instr

VARIABLES
  child,        \* the child process
  ip,           \* its instruction pointer
  mem,          \* its memory
  ran,          \* instructions it has executed at least once
  handler,      \* where the thread is in finish()
  mem_input,    \* Process::mem_input
  loaded,       \* regions that init_mem_input is done with
  init_ptrace,  \* ProcessFinishState::init_ptrace
  breakpoints   \* ProcessFinishState::breakpoints

childVars == <<child, ip, mem, ran>>
vars == <<childVars, handler, mem_input, loaded, init_ptrace, breakpoints>>

\* The exec stop.
Init ==
  /\ child = "stopped"
  /\ ip \in {i \in Instr : \A j \in Instr : i <= j}
  /\ mem = Image
  /\ ran = {}
  /\ handler = "waiting"
  /\ mem_input \in Cases
  /\ loaded = 0
  /\ init_ptrace = FALSE
  /\ breakpoints = <<>>

-----------------------------------------------------------------------------
(* The child                                                               *)

childStep == UNCHANGED <<handler, mem_input, loaded, init_ptrace, breakpoints>>

Execute ==
  /\ child = "running"
  /\ ip \in Instr
  /\ mem[ip] = Image[ip]
  /\ ran' = ran \cup {ip}
  /\ \/ ip' \in Flow[ip] /\ UNCHANGED child
     \/ Flow[ip] = {} /\ child' = "exited" /\ UNCHANGED ip
  /\ UNCHANGED mem /\ childStep

\* int3: the instruction pointer is then behind it.
HitTrap ==
  /\ child = "running"
  /\ ip \in Memory /\ mem[ip] = Trap
  /\ child' = "stopped"
  /\ ip' = ip + 1
  /\ UNCHANGED <<mem, ran>> /\ childStep

\* A signal on its way to the child stops it wherever it is.
SignalStop ==
  /\ child = "running"
  /\ child' = "stopped"
  /\ UNCHANGED <<ip, mem, ran>> /\ childStep

\* A kill, or the end of a child that runs into something else than its code.
Killed ==
  /\ child \in {"running", "stopped"}
  /\ child' = "killed"
  /\ UNCHANGED <<ip, mem, ran>> /\ childStep

-----------------------------------------------------------------------------
(* Its memory, by words                                                    *)

Read(m, a) == [i \in 1..WordSize |-> m[a + i - 1]]
Write(m, a, bytes) ==
  [x \in DOMAIN m |-> IF x \in a..(a + Len(bytes) - 1) THEN bytes[x - a + 1] ELSE m[x]]

\* Rounded up to words, filled with zeros.
Padded(bytes) ==
  LET words == (Len(bytes) + WordSize - 1) \div WordSize IN
  [i \in 1..(words * WordSize) |-> IF i <= Len(bytes) THEN bytes[i] ELSE 0]

PaddedOneMore(bytes) ==   \* mutant: a whole word of zeros when nothing is missing
  LET words == Len(bytes) \div WordSize + 1 IN
  [i \in 1..(words * WordSize) |-> IF i <= Len(bytes) THEN bytes[i] ELSE 0]

write_mem_inputOneMore(m, r) == Write(m, r.addr, PaddedOneMore(r.bytes))

write_mem_input(m, r) == Write(m, r.addr, Padded(r.bytes))

Region(r) == r.addr..(r.addr + r.size - 1)
Written(r) == r.addr..(r.addr + Len(Padded(r.bytes)) - 1)
Word(a) == a..(a + WordSize - 1)

\* Memory inputs that do not get in the way of the program or of one another,
\* nothing of which the code looks at: regions of whole words behind the code,
\* and no breakpoint within a word of another one or of a region.
Apart(c) ==
  /\ \A i \in DOMAIN c :
       /\ c[i].bytes \in Seq(Nat)
       /\ Written(c[i]) \subseteq (Region(c[i]) \cap Memory) \ Instr
       /\ c[i].breakpoint # None =>
            /\ Word(c[i].breakpoint) \cup {c[i].breakpoint + 1} \subseteq Memory
            /\ \A j \in DOMAIN c : Word(c[i].breakpoint) \cap Written(c[j]) = {}
  /\ \A i, j \in DOMAIN c : i # j =>
       /\ Written(c[i]) \cap Written(c[j]) = {}
       /\ (c[i].breakpoint # None /\ c[j].breakpoint # None) =>
            Word(c[i].breakpoint) \cap Word(c[j].breakpoint) = {}

-----------------------------------------------------------------------------
(* ProcessHandle::finish and handle_ptrace_stop                            *)

Receive ==
  /\ handler = "waiting"
  /\ child # "running"
  /\ handler' = CASE child = "exited" -> "Ok"
                  [] child # "exited" /\ init_ptrace -> "reached"
                  [] child # "exited" /\ ~init_ptrace -> "init"
  /\ UNCHANGED <<childVars, mem_input, loaded, init_ptrace, breakpoints>>

AddBreakpointByte(s, r) ==   \* mutant: the byte under the trap and no more
  [mem |-> [s.mem EXCEPT ![r.breakpoint] = Trap],
   bps |-> [a \in DOMAIN s.bps \cup {r.breakpoint} |->
              IF a = r.breakpoint
                THEN [saved_bytes |-> <<s.mem[a]>>, mem_input |-> r]
                ELSE s.bps[a]]]

AddBreakpointUnsaved(s, r) ==   \* mutant: the trap is saved, not what it replaces
  LET m == [s.mem EXCEPT ![r.breakpoint] = Trap] IN
  [mem |-> m,
   bps |-> [a \in DOMAIN s.bps \cup {r.breakpoint} |->
              IF a = r.breakpoint
                THEN [saved_bytes |-> Read(m, a), mem_input |-> r]
                ELSE s.bps[a]]]

\* The word at the breakpoint is saved and its first byte becomes the trap.
add_breakpoint(s, r) ==
  [mem |-> [s.mem EXCEPT ![r.breakpoint] = Trap],
   bps |-> [a \in DOMAIN s.bps \cup {r.breakpoint} |->
              IF a = r.breakpoint
                THEN [saved_bytes |-> Read(s.mem, a), mem_input |-> r]
                ELSE s.bps[a]]]

init_mem_input(s, r) ==
  IF r.breakpoint # None
    THEN add_breakpoint(s, r)
    ELSE [s EXCEPT !.mem = write_mem_input(@, r)]

InitMemInput ==
  LET s == init_mem_input([mem |-> mem, bps |-> breakpoints], mem_input[loaded + 1])
  IN /\ handler = "init"
     /\ child = "stopped"
     /\ loaded < Len(mem_input)
     /\ mem' = s.mem
     /\ breakpoints' = s.bps
     /\ loaded' = loaded + 1
     /\ UNCHANGED <<child, ip, ran, handler, mem_input, init_ptrace>>

\* Every region is dealt with: no request is made here, and none can fail.
InitDone ==
  /\ handler = "init"
  /\ loaded = Len(mem_input)
  /\ init_ptrace' = TRUE
  /\ handler' = "reached"
  /\ UNCHANGED <<childVars, mem_input, loaded, breakpoints>>

NotReached ==
  /\ handler = "reached"
  /\ child = "stopped"
  /\ ip - 1 \notin DOMAIN breakpoints
  /\ handler' = "continuing"
  /\ UNCHANGED <<childVars, mem_input, loaded, init_ptrace, breakpoints>>

ReachedNoRewind ==   \* mutant: the registers are not written back
  LET bp == ip - 1 IN
  /\ handler = "reached"
  /\ child = "stopped"
  /\ bp \in DOMAIN breakpoints
  /\ mem' = Write(write_mem_input(mem, breakpoints[bp].mem_input),
                  bp, breakpoints[bp].saved_bytes)
  /\ breakpoints' = [a \in DOMAIN breakpoints \ {bp} |-> breakpoints[a]]
  /\ handler' = "continuing"
  /\ UNCHANGED <<child, ip, ran, mem_input, loaded, init_ptrace>>

ReachedNoLoad ==   \* mutant: the memory input of a breakpoint is forgotten
  LET bp == ip - 1 IN
  /\ handler = "reached"
  /\ child = "stopped"
  /\ bp \in DOMAIN breakpoints
  /\ mem' = Write(mem, bp, breakpoints[bp].saved_bytes)
  /\ ip' = bp
  /\ breakpoints' = [a \in DOMAIN breakpoints \ {bp} |-> breakpoints[a]]
  /\ handler' = "continuing"
  /\ UNCHANGED <<child, ran, mem_input, loaded, init_ptrace>>

\* handle_reached_breakpoint: load the input, take the trap out, step back.
Reached ==
  LET bp == ip - 1 IN
  /\ handler = "reached"
  /\ child = "stopped"
  /\ bp \in DOMAIN breakpoints
  /\ mem' = Write(write_mem_input(mem, breakpoints[bp].mem_input),
                  bp, breakpoints[bp].saved_bytes)
  /\ ip' = bp
  /\ breakpoints' = [a \in DOMAIN breakpoints \ {bp} |-> breakpoints[a]]
  /\ handler' = "continuing"
  /\ UNCHANGED <<child, ran, mem_input, loaded, init_ptrace>>

\* ptrace::cont
Continue ==
  /\ handler = "continuing"
  /\ child = "stopped"
  /\ child' = "running"
  /\ handler' = "waiting"
  /\ UNCHANGED <<ip, mem, ran, mem_input, loaded, init_ptrace, breakpoints>>

\* A ptrace request finds no child: an error, or a panic in ptrace::cont.
RequestFails ==
  /\ handler \in {"init", "reached", "continuing"}
  /\ handler = "init" => loaded < Len(mem_input)
  /\ child = "killed"
  /\ handler' = IF handler = "continuing" THEN "panic" ELSE "Err"
  /\ UNCHANGED <<childVars, mem_input, loaded, init_ptrace, breakpoints>>

Returned == handler \in {"Ok", "Err", "panic"} /\ UNCHANGED vars

Next ==
  \/ Execute \/ HitTrap \/ SignalStop \/ Killed
  \/ Receive \/ InitMemInput \/ InitDone \/ NotReached \/ Reached \/ Continue
  \/ RequestFails \/ Returned

Spec == Init /\ [][Next]_vars

-----------------------------------------------------------------------------
(* Properties                                                              *)

TypeOK ==
  /\ child \in {"running", "stopped", "exited", "killed"}
  /\ ip \in Memory
  /\ DOMAIN mem = Memory
  /\ ran \subseteq Instr
  /\ handler \in {"waiting", "init", "reached", "continuing", "Ok", "Err", "panic"}
  /\ loaded \in 0..Len(mem_input)
  /\ init_ptrace \in BOOLEAN
  /\ DOMAIN breakpoints \subseteq Instr
  /\ \A a \in DOMAIN breakpoints : Len(breakpoints[a].saved_bytes) = WordSize

Regions == UNION {Region(mem_input[i]) : i \in DOMAIN mem_input}

\* "saved here so they can be restored when the breakpoint is reached and
\* removed": whatever stops there are in between, the code of the child has a
\* trap where a breakpoint is pending and is as it was everywhere else.
TrapsAreBreakpoints ==
  \A a \in Instr : mem[a] = IF a \in DOMAIN breakpoints THEN Trap ELSE Image[a]

\* "Address to place breakpoint before `bytes` is loaded into the memory
\* buffer": no instruction at a breakpoint is executed, and without one no
\* instruction at all, before the memory input is there.
LoadedFirst ==
  \A i \in DOMAIN mem_input :
    LET r == mem_input[i] IN
    (IF r.breakpoint = None THEN ran # {} ELSE r.breakpoint \in ran) =>
      \A k \in DOMAIN r.bytes : mem[r.addr + k - 1] = r.bytes[k]

\* Stepping back over a trap, and not over another stop, the child always goes
\* on where an instruction begins.
AtAnInstruction == child = "running" => ip \in Instr

\* Memory input changes the memory buffer it is for and no data behind it.
StaysInRegions ==
  \A a \in Memory \ (Instr \cup Regions) : mem[a] = Image[a]
=============================================================================
