---------------------------- MODULE PtraceProofs -----------------------------
(***************************************************************************)
(* The theorems of PtraceSession, for every program, word size and number  *)
(* of memory inputs that keep apart: what the memory of the child is       *)
(* throughout, and where the child is.                                     *)
(***************************************************************************)
EXTENDS PtraceSession, TLAPS

CasesApart == \A c \in Cases : Apart(c)

-----------------------------------------------------------------------------
(* Words of memory                                                         *)

\* Padding keeps the bytes and makes them no fewer.
LEMMA PaddedBytes ==
  ASSUME NEW b \in Seq(Nat)
  PROVE  /\ Len(Padded(b)) \in Nat
         /\ Len(b) <= Len(Padded(b))
         /\ \A k \in 1..Len(b) : Padded(b)[k] = b[k]
<1> DEFINE words == (Len(b) + WordSize - 1) \div WordSize
<1>1. Len(b) \in Nat /\ WordSize \in Nat \ {0} BY PtraceAssumption
<1>2. words \in Nat /\ words * WordSize >= Len(b) BY <1>1, SMTT(30)
<1>3. words * WordSize \in Nat BY <1>1, <1>2, SMTT(30)
<1> DEFINE size == words * WordSize
<1>4. Padded(b) = [i \in 1..size |-> IF i <= Len(b) THEN b[i] ELSE 0]
  BY DEF Padded
<1>5. size \in Nat /\ Len(b) <= size BY <1>1, <1>2, <1>3
<1> HIDE DEF size
<1>6. Len(Padded(b)) = size BY <1>4, <1>5
<1>7. ASSUME NEW k \in 1..Len(b) PROVE Padded(b)[k] = b[k]
  BY <1>1, <1>4, <1>5
<1> QED BY <1>5, <1>6, <1>7

\* m is the memory of a program with the memory inputs D of c loaded and
\* traps at B.
MemoryIs(m, c, D, B) ==
  /\ DOMAIN m = Memory
  /\ \A a \in B : m[a] = Trap
  /\ \A i \in D : \A x \in Written(c[i]) :
       m[x] = Padded(c[i].bytes)[x - c[i].addr + 1]
  /\ \A x \in Memory \ B : (\A i \in D : x \notin Written(c[i])) => m[x] = Image[x]

\* Loading one more memory input leaves the others and the traps alone.
LEMMA LoadOne ==
  ASSUME NEW c \in Cases, Apart(c), NEW D \in SUBSET DOMAIN c,
         NEW B \in SUBSET Instr, NEW m, MemoryIs(m, c, D, B), NEW i \in DOMAIN c
  PROVE  MemoryIs(write_mem_input(m, c[i]), c, D \cup {i}, B)
<1> DEFINE n == write_mem_input(m, c[i])
           W == Written(c[i])
<1>1. n = [x \in DOMAIN m |->
             IF x \in W THEN Padded(c[i].bytes)[x - c[i].addr + 1] ELSE m[x]]
  BY DEF write_mem_input, Write, Written
<1>2. W \subseteq Memory \ Instr BY DEF Apart
<1>3. \A j \in DOMAIN c : j # i => Written(c[j]) \cap W = {} BY DEF Apart
<1>4. \A j \in DOMAIN c : Written(c[j]) \subseteq Memory BY DEF Apart
<1>5. DOMAIN m = Memory BY DEF MemoryIs
<1> HIDE DEF n, W
<1>6. DOMAIN n = Memory BY <1>1, <1>5
<1>7. \A a \in B : n[a] = Trap
  BY <1>1, <1>2, <1>5, PtraceAssumption DEF MemoryIs
<1>8. ASSUME NEW j \in D \cup {i}, NEW x \in Written(c[j])
      PROVE  n[x] = Padded(c[j].bytes)[x - c[j].addr + 1]
  <2>1. x \in Memory BY <1>4
  <2>2. CASE j = i BY <1>1, <1>5, <2>1, <2>2 DEF W
  <2>3. CASE j # i
    <3>1. n[x] = m[x] BY <1>1, <1>3, <1>5, <2>1, <2>3
    <3> QED BY <3>1, <2>3 DEF MemoryIs
  <2> QED BY <2>2, <2>3
<1>9. ASSUME NEW x \in Memory \ B, \A j \in D \cup {i} : x \notin Written(c[j])
      PROVE  n[x] = Image[x]
  BY <1>1, <1>5, <1>9 DEF MemoryIs, W
<1> QED BY <1>6, <1>7, <1>8, <1>9 DEF MemoryIs, n

\* A trap is at one more address.
LEMMA TrapOne ==
  ASSUME NEW c \in Cases, Apart(c), NEW D \in SUBSET DOMAIN c,
         NEW B \in SUBSET Instr, NEW m, MemoryIs(m, c, D, B), NEW a \in Instr
  PROVE  MemoryIs([m EXCEPT ![a] = Trap], c, D, B \cup {a})
<1> DEFINE n == [m EXCEPT ![a] = Trap]
<1>1. \A j \in DOMAIN c : Written(c[j]) \subseteq Memory \ Instr BY DEF Apart
<1>2. DOMAIN m = Memory BY DEF MemoryIs
<1>3. DOMAIN n = Memory /\ \A x \in Memory : n[x] = IF x = a THEN Trap ELSE m[x]
  BY <1>2
<1> HIDE DEF n
<1>4. \A x \in B \cup {a} : n[x] = Trap
  BY <1>3, PtraceAssumption DEF MemoryIs
<1>5. ASSUME NEW j \in D, NEW x \in Written(c[j])
      PROVE  n[x] = Padded(c[j].bytes)[x - c[j].addr + 1]
  <2>1. n[x] = m[x] BY <1>1, <1>3
  <2> QED BY <2>1 DEF MemoryIs
<1>6. ASSUME NEW x \in Memory \ (B \cup {a}), \A j \in D : x \notin Written(c[j])
      PROVE  n[x] = Image[x]
  BY <1>3, <1>6 DEF MemoryIs
<1> QED BY <1>3, <1>4, <1>5, <1>6 DEF MemoryIs, n

\* The word saved at a breakpoint is the program's own, when nothing has been
\* written near it yet.
LEMMA SavedWord ==
  ASSUME NEW c, NEW D, NEW B, NEW m, MemoryIs(m, c, D, B), NEW a \in Instr,
         Word(a) \subseteq Memory \ B,
         \A j \in D : Word(a) \cap Written(c[j]) = {}
  PROVE  Read(m, a) = Read(Image, a)
<1>1. \A x \in Word(a) : m[x] = Image[x] BY DEF MemoryIs
<1>2. \A k \in 1..WordSize : a + k - 1 \in Word(a)
  BY PtraceAssumption DEF Word
<1>3. \A k \in 1..WordSize : m[a + k - 1] = Image[a + k - 1] BY <1>1, <1>2
<1> QED BY <1>3 DEF Read

\* Putting that word back takes one trap away and changes nothing else.
LEMMA UntrapOne ==
  ASSUME NEW c \in Cases, Apart(c), NEW D \in SUBSET DOMAIN c,
         NEW B \in SUBSET Instr, NEW m, MemoryIs(m, c, D, B), NEW a \in B,
         Word(a) \subseteq Memory, Word(a) \cap B = {a},
         \A j \in DOMAIN c : Word(a) \cap Written(c[j]) = {}
  PROVE  MemoryIs(Write(m, a, Read(Image, a)), c, D, B \ {a})
<1> DEFINE n == Write(m, a, Read(Image, a))
           W == Word(a)
<1>1. WordSize \in Nat /\ a \in Nat BY PtraceAssumption
<1>2. Len(Read(Image, a)) = WordSize BY <1>1 DEF Read
<1>3. DOMAIN m = Memory BY DEF MemoryIs
<1>4. n = [x \in Memory |-> IF x \in W THEN Read(Image, a)[x - a + 1] ELSE m[x]]
  BY <1>2, <1>3 DEF Write, Word
<1>5. \A x \in W : Read(Image, a)[x - a + 1] = Image[x]
  <2> SUFFICES ASSUME NEW x \in W PROVE Read(Image, a)[x - a + 1] = Image[x]
    OBVIOUS
  <2>1. x \in Int /\ x - a + 1 \in 1..WordSize /\ a + (x - a + 1) - 1 = x
    BY <1>1 DEF Word
  <2> QED BY <2>1 DEF Read
<1> HIDE DEF n
<1>6. DOMAIN n = Memory /\ \A x \in Memory : n[x] = IF x \in W THEN Image[x] ELSE m[x]
  BY <1>4, <1>5
<1>7. \A x \in B \ {a} : n[x] = Trap
  BY <1>6, PtraceAssumption DEF MemoryIs
<1>8. ASSUME NEW j \in D, NEW x \in Written(c[j])
      PROVE  n[x] = Padded(c[j].bytes)[x - c[j].addr + 1]
  <2>1. x \in Memory /\ x \notin W BY DEF Apart
  <2>2. n[x] = m[x] BY <1>6, <2>1
  <2> QED BY <2>2 DEF MemoryIs
<1>9. ASSUME NEW x \in Memory \ (B \ {a}), \A j \in D : x \notin Written(c[j])
      PROVE  n[x] = Image[x]
  <2>1. CASE x \in W BY <1>6, <2>1
  <2>2. CASE x \notin W
    <3>1. a \in W BY <1>1, PtraceAssumption DEF Word
    <3>2. x \notin B BY <2>2, <3>1
    <3> QED BY <1>6, <1>9, <2>2, <3>2 DEF MemoryIs
  <2> QED BY <2>1, <2>2
<1> QED BY <1>6, <1>7, <1>8, <1>9 DEF MemoryIs, n

-----------------------------------------------------------------------------
(* The inductive invariant                                                 *)

\* The regions whose bytes are in the memory of the child.
Loaded ==
  {i \in 1..loaded :
     mem_input[i].breakpoint # None => mem_input[i].breakpoint \notin DOMAIN breakpoints}

MemoryInv == MemoryIs(mem, mem_input, Loaded, DOMAIN breakpoints)

\* A pending breakpoint is that of a region dealt with, and what was saved
\* there is the word of the program.
BreakpointsInv ==
  \A a \in DOMAIN breakpoints :
    /\ breakpoints[a].saved_bytes = Read(Image, a)
    /\ \E i \in 1..loaded :
         mem_input[i].breakpoint = a /\ breakpoints[a].mem_input = mem_input[i]

\* Nothing runs before all regions are dealt with, nor under a trap.
RanInv ==
  /\ ran \subseteq Instr
  /\ ran \cap DOMAIN breakpoints = {}
  /\ ~init_ptrace => ran = {}
  /\ init_ptrace => loaded = Len(mem_input)

\* The child runs only while the thread waits for it, and is where an
\* instruction begins or just behind a trap.
WhereInv ==
  /\ ip \in Memory
  /\ child = "running" => init_ptrace /\ handler = "waiting" /\ ip \in Instr
  /\ child = "stopped" => ip \in Instr \/ ip - 1 \in DOMAIN breakpoints
  /\ child = "stopped" /\ handler = "continuing" => ip \in Instr
  /\ handler = "init" => ~init_ptrace
  /\ handler \in {"reached", "continuing"} => init_ptrace

Shape ==
  /\ child \in {"running", "stopped", "exited", "killed"}
  /\ handler \in {"waiting", "init", "reached", "continuing", "Ok", "Err", "panic"}
  /\ init_ptrace \in BOOLEAN
  /\ mem_input \in Cases
  /\ loaded \in 0..Len(mem_input)
  /\ DOMAIN breakpoints \subseteq Instr

PtraceInv == Shape /\ MemoryInv /\ BreakpointsInv /\ RanInv /\ WhereInv

LEMMA InitInv ==
  ASSUME Init PROVE PtraceInv
<1>1. Len(mem_input) \in Nat BY PtraceAssumption DEF Init
<1>2. DOMAIN breakpoints = {} BY DEF Init
<1>3. Loaded = {} BY DEF Init, Loaded
<1>4. Shape
  <2>1. init_ptrace \in BOOLEAN BY DEF Init
  <2>2. mem_input \in Cases /\ loaded \in 0..Len(mem_input) BY <1>1 DEF Init
  <2>3. child = "stopped" /\ handler = "waiting" BY DEF Init
  <2> QED BY <1>2, <2>1, <2>2, <2>3 DEF Shape
<1>5. MemoryInv
  BY <1>2, <1>3 DEF Init, MemoryInv, MemoryIs, Memory
<1>6. BreakpointsInv BY <1>2 DEF BreakpointsInv
<1>7. RanInv BY DEF Init, RanInv
<1>8. WhereInv BY PtraceAssumption DEF Init, WhereInv
<1> QED BY <1>4, <1>5, <1>6, <1>7, <1>8 DEF PtraceInv

\* A step that leaves the memory, the regions and the breakpoints alone.
LEMMA SameMemory ==
  ASSUME MemoryInv, BreakpointsInv,
         UNCHANGED <<mem, mem_input, loaded, breakpoints>>
  PROVE  MemoryInv' /\ BreakpointsInv'
<1>1. Loaded' = Loaded BY DEF Loaded
<1>2. MemoryInv' BY <1>1 DEF MemoryInv
<1>3. BreakpointsInv' BY DEF BreakpointsInv
<1> QED BY <1>2, <1>3

\* What the child finds at an instruction.
LEMMA CodeOrTrap ==
  ASSUME PtraceInv, CasesApart, NEW a \in Instr
  PROVE  mem[a] = IF a \in DOMAIN breakpoints THEN Trap ELSE Image[a]
<1>1. CASE a \in DOMAIN breakpoints
  BY <1>1 DEF PtraceInv, MemoryInv, MemoryIs
<1>2. CASE a \notin DOMAIN breakpoints
  <2>1. Apart(mem_input) BY DEF CasesApart, PtraceInv, Shape
  <2>2. Loaded \subseteq DOMAIN mem_input
    BY PtraceAssumption DEF Loaded, PtraceInv, Shape
  <2>3. \A i \in Loaded : a \notin Written(mem_input[i]) BY <2>1, <2>2 DEF Apart
  <2>4. a \in Memory BY PtraceAssumption
  <2> QED BY <1>2, <2>3, <2>4 DEF PtraceInv, MemoryInv, MemoryIs
<1> QED BY <1>1, <1>2

\* A breakpoint has a word of its own, with room behind the trap.
LEMMA OwnWord ==
  ASSUME PtraceInv, CasesApart, NEW i \in DOMAIN mem_input,
         NEW a, a = mem_input[i].breakpoint, a # None
  PROVE  /\ a \in Instr /\ a \in Word(a)
         /\ Word(a) \cup {a + 1} \subseteq Memory
         /\ \A j \in DOMAIN mem_input : Word(a) \cap Written(mem_input[j]) = {}
         /\ \A j \in DOMAIN mem_input \ {i} : mem_input[j].breakpoint \notin Word(a)
<1>1. mem_input \in Cases /\ Apart(mem_input) BY DEF CasesApart, PtraceInv, Shape
<1>2. \A j \in DOMAIN mem_input : mem_input[j].breakpoint # None =>
        mem_input[j].breakpoint \in Instr \cap Nat
  BY <1>1, PtraceAssumption
<1>3. \A j \in DOMAIN mem_input : mem_input[j].breakpoint # None =>
        mem_input[j].breakpoint \in Word(mem_input[j].breakpoint)
  BY <1>2, PtraceAssumption DEF Word
<1>4. Word(a) \cup {a + 1} \subseteq Memory BY <1>1 DEF Apart
<1>5. \A j \in DOMAIN mem_input : Word(a) \cap Written(mem_input[j]) = {}
  BY <1>1 DEF Apart
<1>6. ASSUME NEW j \in DOMAIN mem_input \ {i}
      PROVE  mem_input[j].breakpoint \notin Word(a)
  <2>1. CASE mem_input[j].breakpoint = None BY <1>4, <2>1, PtraceAssumption
  <2>2. CASE mem_input[j].breakpoint # None
    <3>1. Word(a) \cap Word(mem_input[j].breakpoint) = {}
      BY <1>1, <2>2 DEF Apart
    <3> QED BY <1>3, <2>2, <3>1
  <2> QED BY <2>1, <2>2
<1> QED BY <1>2, <1>3, <1>4, <1>5, <1>6

\* So has a pending one.
LEMMA PendingWord ==
  ASSUME PtraceInv, CasesApart, NEW a \in DOMAIN breakpoints
  PROVE  \E i \in 1..loaded :
           /\ i \in DOMAIN mem_input
           /\ mem_input[i].breakpoint = a
           /\ a # None
           /\ breakpoints[a].mem_input = mem_input[i]
           /\ a + 1 \in Memory
           /\ Word(a) \subseteq Memory
           /\ Word(a) \cap DOMAIN breakpoints = {a}
           /\ \A j \in DOMAIN mem_input : Word(a) \cap Written(mem_input[j]) = {}
           /\ \A j \in DOMAIN mem_input \ {i} : mem_input[j].breakpoint # a
<1>1. a # None BY PtraceAssumption DEF PtraceInv, Shape
<1>2. PICK i \in 1..loaded :
        mem_input[i].breakpoint = a /\ breakpoints[a].mem_input = mem_input[i]
  BY DEF PtraceInv, BreakpointsInv
<1>3. 1..loaded \subseteq DOMAIN mem_input
  BY PtraceAssumption DEF PtraceInv, Shape
<1>4. i \in DOMAIN mem_input BY <1>3
<1>5. /\ a \in Word(a)
      /\ Word(a) \cup {a + 1} \subseteq Memory
      /\ \A j \in DOMAIN mem_input : Word(a) \cap Written(mem_input[j]) = {}
      /\ \A j \in DOMAIN mem_input \ {i} : mem_input[j].breakpoint \notin Word(a)
  BY <1>1, <1>2, <1>4, OwnWord
<1>6. ASSUME NEW b \in DOMAIN breakpoints, b \in Word(a) PROVE b = a
  <2>1. PICK j \in 1..loaded : mem_input[j].breakpoint = b
    BY DEF PtraceInv, BreakpointsInv
  <2>2. j = i BY <1>3, <1>5, <1>6, <2>1
  <2> QED BY <1>2, <2>1, <2>2
<1>7. Word(a) \cap DOMAIN breakpoints = {a} BY <1>5, <1>6
<1> QED BY <1>1, <1>2, <1>4, <1>5, <1>7

-----------------------------------------------------------------------------
(* The steps that change the memory                                        *)

LEMMA InitMemInputInv ==
  ASSUME PtraceInv, CasesApart, InitMemInput
  PROVE  PtraceInv'
<1> DEFINE l == loaded + 1
           r == mem_input[l]
           B == DOMAIN breakpoints
           s == init_mem_input([mem |-> mem, bps |-> breakpoints], r)
<1>1. /\ handler = "init" /\ child = "stopped" /\ loaded < Len(mem_input)
      /\ mem' = s.mem /\ breakpoints' = s.bps /\ loaded' = loaded + 1
      /\ UNCHANGED <<child, ip, ran, handler, mem_input, init_ptrace>>
  BY DEF InitMemInput
<1>2. /\ mem_input \in Cases /\ Apart(mem_input)
      /\ loaded \in Nat /\ Len(mem_input) \in Nat
      /\ DOMAIN mem_input = 1..Len(mem_input)
  BY PtraceAssumption DEF PtraceInv, Shape, CasesApart
<1>3. l \in DOMAIN mem_input /\ l \notin 1..loaded /\ 1..loaded' = 1..loaded \cup {l}
  BY <1>1, <1>2
<1>4. ~init_ptrace /\ ran = {} /\ (ip \in Instr \/ ip - 1 \in B) /\ ip \in Memory
  BY <1>1 DEF PtraceInv, RanInv, WhereInv
<1>5. Loaded \in SUBSET DOMAIN mem_input /\ B \in SUBSET Instr
  BY <1>2 DEF Loaded, PtraceInv, Shape
<1>6. MemoryIs(mem, mem_input, Loaded, B) BY DEF PtraceInv, MemoryInv
<1>7. BreakpointsInv BY DEF PtraceInv
<1> HIDE DEF s, l
<1>8. /\ MemoryInv' /\ BreakpointsInv'
      /\ DOMAIN breakpoints' \subseteq Instr /\ B \subseteq DOMAIN breakpoints'
  <2>1. CASE r.breakpoint = None
    <3>1. s = [mem |-> write_mem_input(mem, r), bps |-> breakpoints]
      BY <2>1 DEF s, init_mem_input
    <3>2. mem' = write_mem_input(mem, r) /\ breakpoints' = breakpoints
      BY <1>1, <3>1
    <3>3. Loaded' = Loaded \cup {l}
      BY <1>1, <1>3, <2>1, <3>2 DEF Loaded
    <3>4. MemoryInv'
      <4>1. MemoryIs(write_mem_input(mem, r), mem_input, Loaded \cup {l}, B)
        BY <1>2, <1>3, <1>5, <1>6, LoadOne
      <4> QED BY <1>1, <3>2, <3>3, <4>1 DEF MemoryInv
    <3>5. BreakpointsInv' BY <1>1, <1>3, <1>7, <3>2 DEF BreakpointsInv
    <3> QED BY <1>5, <3>2, <3>4, <3>5
  <2>2. CASE r.breakpoint # None
    <3> DEFINE a == r.breakpoint
    <3>1. s = [mem |-> [mem EXCEPT ![a] = Trap],
               bps |-> [x \in B \cup {a} |->
                          IF x = a THEN [saved_bytes |-> Read(mem, x), mem_input |-> r]
                                   ELSE breakpoints[x]]]
      BY <2>2 DEF s, init_mem_input, add_breakpoint
    <3>2. mem' = [mem EXCEPT ![a] = Trap]
      BY <1>1, <3>1
    <3>3. breakpoints' = [x \in B \cup {a} |->
                            IF x = a THEN [saved_bytes |-> Read(mem, x), mem_input |-> r]
                                     ELSE breakpoints[x]]
      BY <1>1, <3>1
    <3>4. /\ a \in Instr /\ a \in Word(a) /\ Word(a) \subseteq Memory
          /\ \A j \in DOMAIN mem_input : Word(a) \cap Written(mem_input[j]) = {}
          /\ \A j \in DOMAIN mem_input \ {l} : mem_input[j].breakpoint \notin Word(a)
      BY <1>3, <2>2, OwnWord
    <3> HIDE DEF a
    <3>5. \A b \in B : b \notin Word(a)
      <4> SUFFICES ASSUME NEW b \in B PROVE b \notin Word(a) OBVIOUS
      <4>1. PICK j \in 1..loaded : mem_input[j].breakpoint = b
        BY <1>7 DEF BreakpointsInv
      <4>2. j \in DOMAIN mem_input \ {l} BY <1>1, <1>2, <1>3
      <4> QED BY <3>4, <4>1, <4>2
    <3>6. Loaded' = Loaded
      <4>1. \A j \in 1..loaded : mem_input[j].breakpoint # a
        BY <1>1, <1>2, <1>3, <3>4
      <4>2. DOMAIN breakpoints' = B \cup {a} BY <3>3
      <4>3. l \notin Loaded' BY <1>1, <2>2, <4>2 DEF Loaded, a
      <4> QED BY <1>1, <1>3, <4>1, <4>2, <4>3 DEF Loaded
    <3>7. MemoryInv'
      <4>1. MemoryIs([mem EXCEPT ![a] = Trap], mem_input, Loaded, B \cup {a})
        BY <1>2, <1>5, <1>6, <3>4, TrapOne
      <4>2. DOMAIN breakpoints' = B \cup {a} BY <3>3
      <4> QED BY <1>1, <3>2, <3>6, <4>1, <4>2 DEF MemoryInv
    <3>8. BreakpointsInv'
      <4>1. Read(mem, a) = Read(Image, a)
        BY <1>5, <1>6, <3>4, <3>5, SavedWord
      <4>2. breakpoints'[a] = [saved_bytes |-> Read(mem, a), mem_input |-> r]
        BY <3>3
      <4>3. \A x \in B : x # a /\ breakpoints'[x] = breakpoints[x]
        BY <3>3, <3>4, <3>5
      <4>4. l \in 1..loaded' /\ r.breakpoint = a BY <1>3 DEF a
      <4>5. DOMAIN breakpoints' = B \cup {a} BY <3>3
      <4>6. ASSUME NEW x \in DOMAIN breakpoints'
            PROVE  /\ breakpoints'[x].saved_bytes = Read(Image, x)
                   /\ \E i \in 1..loaded' :
                        /\ mem_input[i].breakpoint = x
                        /\ breakpoints'[x].mem_input = mem_input[i]
        <5>1. CASE x = a BY <4>1, <4>2, <4>4, <5>1
        <5>2. CASE x \in B BY <1>3, <1>7, <4>3, <5>2 DEF BreakpointsInv
        <5> QED BY <4>5, <5>1, <5>2
      <4> QED BY <1>1, <4>6 DEF BreakpointsInv
    <3> QED BY <1>5, <3>3, <3>4, <3>7, <3>8
  <2> QED BY <2>1, <2>2
<1>9. Shape'
  <2>1. loaded' \in 0..Len(mem_input)' BY <1>1, <1>2
  <2> QED BY <1>1, <1>8, <2>1 DEF PtraceInv, Shape
<1>10. RanInv' BY <1>1, <1>4 DEF RanInv
<1>11. WhereInv' BY <1>1, <1>4, <1>8 DEF WhereInv
<1> QED BY <1>8, <1>9, <1>10, <1>11 DEF PtraceInv

LEMMA ReachedInv ==
  ASSUME PtraceInv, CasesApart, Reached
  PROVE  PtraceInv'
<1> DEFINE bp == ip - 1
           B == DOMAIN breakpoints
           m == write_mem_input(mem, breakpoints[bp].mem_input)
<1>1. /\ handler = "reached" /\ child = "stopped" /\ bp \in B
      /\ mem' = Write(m, bp, breakpoints[bp].saved_bytes)
      /\ ip' = bp
      /\ breakpoints' = [a \in B \ {bp} |-> breakpoints[a]]
      /\ handler' = "continuing"
      /\ UNCHANGED <<child, ran, mem_input, loaded, init_ptrace>>
  BY DEF Reached
<1>2. /\ mem_input \in Cases /\ Apart(mem_input) /\ B \in SUBSET Instr
      /\ loaded \in Nat /\ Len(mem_input) \in Nat /\ loaded <= Len(mem_input)
      /\ DOMAIN mem_input = 1..Len(mem_input)
  BY PtraceAssumption DEF PtraceInv, Shape, CasesApart
<1> HIDE DEF bp, m
<1>3. PICK i \in 1..loaded :
           /\ i \in DOMAIN mem_input
           /\ mem_input[i].breakpoint = bp
           /\ bp # None
           /\ breakpoints[bp].mem_input = mem_input[i]
           /\ bp + 1 \in Memory
           /\ Word(bp) \subseteq Memory
           /\ Word(bp) \cap B = {bp}
           /\ \A j \in DOMAIN mem_input : Word(bp) \cap Written(mem_input[j]) = {}
           /\ \A j \in DOMAIN mem_input \ {i} : mem_input[j].breakpoint # bp
  BY <1>1, PendingWord
<1>4. Loaded \in SUBSET DOMAIN mem_input BY <1>2 DEF Loaded
<1>5. MemoryIs(mem, mem_input, Loaded, B) BY DEF PtraceInv, MemoryInv
<1>6. BreakpointsInv BY DEF PtraceInv
<1>7. DOMAIN breakpoints' = B \ {bp} BY <1>1
<1>8. Loaded' = Loaded \cup {i}
  BY <1>1, <1>2, <1>3, <1>7 DEF Loaded
<1>9. MemoryInv'
  <2>1. MemoryIs(m, mem_input, Loaded \cup {i}, B)
    BY <1>2, <1>3, <1>4, <1>5, LoadOne DEF m
  <2>2. breakpoints[bp].saved_bytes = Read(Image, bp)
    BY <1>1, <1>6 DEF BreakpointsInv
  <2>3. MemoryIs(Write(m, bp, Read(Image, bp)), mem_input, Loaded \cup {i}, B \ {bp})
    BY <1>1, <1>2, <1>3, <1>4, <2>1, UntrapOne
  <2> QED BY <1>1, <1>7, <1>8, <2>2, <2>3 DEF MemoryInv
<1>10. BreakpointsInv' BY <1>1, <1>6 DEF BreakpointsInv
<1>11. Shape'
  <2>1. init_ptrace' \in BOOLEAN BY <1>1 DEF PtraceInv, Shape
  <2> QED BY <1>1, <1>2, <1>7, <2>1 DEF PtraceInv, Shape
<1>12. RanInv' BY <1>1, <1>7 DEF PtraceInv, RanInv
<1>13. WhereInv'
  <2>1. ip' \in Instr /\ ip' \in Memory BY <1>1, <1>2, PtraceAssumption
  <2>2. init_ptrace BY <1>1 DEF PtraceInv, WhereInv
  <2> QED BY <1>1, <2>1, <2>2 DEF WhereInv
<1> QED BY <1>9, <1>10, <1>11, <1>12, <1>13 DEF PtraceInv

-----------------------------------------------------------------------------
(* The other steps                                                         *)

LEMMA NextInv ==
  ASSUME PtraceInv, CasesApart, [Next]_vars
  PROVE  PtraceInv'
<1> USE DEF childVars
<1>1. MemoryInv /\ BreakpointsInv BY DEF PtraceInv
<1>2. CASE UNCHANGED vars
  <2>1. MemoryInv' /\ BreakpointsInv' BY <1>1, <1>2, SameMemory DEF vars
  <2>2. Shape' BY <1>2 DEF PtraceInv, Shape, vars
  <2>3. RanInv' BY <1>2 DEF PtraceInv, RanInv, vars
  <2>4. WhereInv' BY <1>2 DEF PtraceInv, WhereInv, vars
  <2> QED BY <2>1, <2>2, <2>3, <2>4 DEF PtraceInv
<1>3. CASE Execute
  <2> USE <1>3 DEF Execute, childStep
  <2>1. MemoryInv' /\ BreakpointsInv' BY <1>1, SameMemory
  <2>2. Shape' BY DEF PtraceInv, Shape
  <2>3. ip \notin DOMAIN breakpoints
    <3>1. ip \in Instr /\ mem[ip] = Image[ip] /\ Image[ip] # Trap
      BY PtraceAssumption
    <3> QED BY <3>1, CodeOrTrap
  <2>4. RanInv' BY <2>3 DEF PtraceInv, RanInv, WhereInv
  <2>5. ip' \in Instr BY PtraceAssumption
  <2>6. WhereInv' BY <2>5, PtraceAssumption DEF PtraceInv, WhereInv
  <2> QED BY <2>1, <2>2, <2>4, <2>6 DEF PtraceInv
<1>4. CASE HitTrap
  <2> USE <1>4 DEF HitTrap, childStep
  <2>1. MemoryInv' /\ BreakpointsInv' BY <1>1, SameMemory
  <2>2. Shape' BY DEF PtraceInv, Shape
  <2>3. RanInv' BY DEF PtraceInv, RanInv
  <2>4. init_ptrace /\ handler = "waiting" /\ ip \in Instr
    BY DEF PtraceInv, WhereInv
  <2>5. ip \in DOMAIN breakpoints BY <2>4, CodeOrTrap, PtraceAssumption
  <2>6. ip + 1 \in Memory /\ ip + 1 - 1 = ip
    BY <2>4, <2>5, PendingWord, PtraceAssumption
  <2>7. WhereInv'
    <3>1. ip' = ip + 1 /\ breakpoints' = breakpoints OBVIOUS
    <3>2. ip' - 1 = ip BY <3>1, <2>4, PtraceAssumption
    <3>3. ip' \in Memory /\ ip' - 1 \in DOMAIN breakpoints' BY <2>5, <2>6, <3>1, <3>2
    <3>4. child' = "stopped" /\ handler' = "waiting" BY <2>4
    <3> HIDE <1>4 DEF HitTrap, childStep
    <3> QED BY <3>3, <3>4 DEF WhereInv
  <2> QED BY <2>1, <2>2, <2>3, <2>7 DEF PtraceInv
<1>5. CASE SignalStop \/ Killed
  <2> USE <1>5 DEF SignalStop, Killed, childStep
  <2>1. MemoryInv' /\ BreakpointsInv' BY <1>1, SameMemory
  <2>2. Shape' BY DEF PtraceInv, Shape
  <2>3. RanInv' BY DEF PtraceInv, RanInv
  <2>4. WhereInv' BY DEF PtraceInv, WhereInv
  <2> QED BY <2>1, <2>2, <2>3, <2>4 DEF PtraceInv
<1>6. CASE Receive
  <2> USE <1>6 DEF Receive
  <2>1. MemoryInv' /\ BreakpointsInv' BY <1>1, SameMemory
  <2>2. \/ child = "exited" /\ handler' = "Ok"
        \/ child # "exited" /\ init_ptrace /\ handler' = "reached"
        \/ child # "exited" /\ ~init_ptrace /\ handler' = "init"
    BY DEF PtraceInv, Shape
  <2>3. Shape' BY <2>2 DEF PtraceInv, Shape
  <2>4. RanInv' BY DEF PtraceInv, RanInv
  <2>5. WhereInv' BY <2>2 DEF PtraceInv, WhereInv
  <2> QED BY <2>1, <2>3, <2>4, <2>5 DEF PtraceInv
<1>7. CASE InitMemInput BY <1>7, InitMemInputInv
<1>8. CASE InitDone
  <2> USE <1>8 DEF InitDone
  <2>1. MemoryInv' /\ BreakpointsInv' BY <1>1, SameMemory
  <2>2. Shape'
    <3>1. init_ptrace' \in BOOLEAN OBVIOUS
    <3>2. UNCHANGED <<child, mem_input, loaded, breakpoints>> /\ handler' = "reached"
      OBVIOUS
    <3> HIDE <1>8 DEF InitDone
    <3> QED BY <3>1, <3>2 DEF PtraceInv, Shape
  <2>3. RanInv' BY DEF PtraceInv, RanInv
  <2>4. WhereInv' BY DEF PtraceInv, WhereInv
  <2> QED BY <2>1, <2>2, <2>3, <2>4 DEF PtraceInv
<1>9. CASE NotReached
  <2> USE <1>9 DEF NotReached
  <2>1. MemoryInv' /\ BreakpointsInv' BY <1>1, SameMemory
  <2>2. Shape' BY DEF PtraceInv, Shape
  <2>3. RanInv' BY DEF PtraceInv, RanInv
  <2>4. WhereInv' BY DEF PtraceInv, WhereInv
  <2> QED BY <2>1, <2>2, <2>3, <2>4 DEF PtraceInv
<1>10. CASE Reached BY <1>10, ReachedInv
<1>11. CASE Continue
  <2> USE <1>11 DEF Continue
  <2>1. MemoryInv' /\ BreakpointsInv' BY <1>1, SameMemory
  <2>2. Shape' BY DEF PtraceInv, Shape
  <2>3. RanInv' BY DEF PtraceInv, RanInv
  <2>4. WhereInv' BY DEF PtraceInv, WhereInv
  <2> QED BY <2>1, <2>2, <2>3, <2>4 DEF PtraceInv
<1>12. CASE RequestFails
  <2> USE <1>12 DEF RequestFails
  <2>1. MemoryInv' /\ BreakpointsInv' BY <1>1, SameMemory
  <2>2. handler' \in {"panic", "Err"} OBVIOUS
  <2>3. Shape' BY <2>2 DEF PtraceInv, Shape
  <2>4. RanInv' BY DEF PtraceInv, RanInv
  <2>5. WhereInv' BY <2>2 DEF PtraceInv, WhereInv
  <2> QED BY <2>1, <2>3, <2>4, <2>5 DEF PtraceInv
<1>13. CASE Returned
  <2>1. UNCHANGED vars BY <1>13 DEF Returned
  <2> QED BY <1>2, <2>1
<1> QED
  BY <1>2, <1>3, <1>4, <1>5, <1>6, <1>7, <1>8, <1>9, <1>10, <1>11, <1>12, <1>13
     DEF Next

LEMMA Invariance ==
  ASSUME CasesApart PROVE Spec => []PtraceInv
<1>1. Init => PtraceInv BY InitInv
<1>2. PtraceInv /\ [Next]_vars => PtraceInv' BY NextInv
<1> QED BY <1>1, <1>2, PTL DEF Spec

-----------------------------------------------------------------------------
(* The theorems                                                            *)

\* The state of a run keeps its types; the word saved at a breakpoint stays as
\* long as a word.
THEOREM SessionTypes ==
  ASSUME CasesApart PROVE Spec => []TypeOK
<1>1. ASSUME PtraceInv PROVE TypeOK
  <2>1. \A a \in DOMAIN breakpoints : Len(breakpoints[a].saved_bytes) = WordSize
    <3>1. \A a \in DOMAIN breakpoints : breakpoints[a].saved_bytes = Read(Image, a)
      BY <1>1 DEF PtraceInv, BreakpointsInv
    <3>2. \A a : Len(Read(Image, a)) = WordSize BY PtraceAssumption DEF Read
    <3> QED BY <3>1, <3>2
  <2>2. ip \in Memory /\ ran \subseteq Instr
    BY <1>1 DEF PtraceInv, WhereInv, RanInv
  <2>3. DOMAIN mem = Memory BY <1>1 DEF PtraceInv, MemoryInv, MemoryIs
  <2> QED BY <1>1, <2>1, <2>2, <2>3 DEF PtraceInv, Shape, TypeOK
<1>2. PtraceInv => TypeOK BY <1>1
<1> QED BY <1>2, Invariance, PTL

\* handle_reached_breakpoint gives the program its own code back: it has a
\* trap at a pending breakpoint and is as it was at every other instruction.
THEOREM TheCodeIsRestored ==
  ASSUME CasesApart PROVE Spec => []TrapsAreBreakpoints
<1>1. PtraceInv => TrapsAreBreakpoints BY CodeOrTrap DEF TrapsAreBreakpoints
<1> QED BY <1>1, Invariance, PTL

\* init_mem_input and handle_reached_breakpoint load a region before the first
\* instruction, or the instruction at its breakpoint, is executed.
THEOREM InputComesFirst ==
  ASSUME CasesApart PROVE Spec => []LoadedFirst
<1>1. ASSUME PtraceInv PROVE LoadedFirst
  <2> SUFFICES
        ASSUME NEW i \in DOMAIN mem_input,
               IF mem_input[i].breakpoint = None
                 THEN ran # {} ELSE mem_input[i].breakpoint \in ran,
               NEW k \in DOMAIN mem_input[i].bytes
        PROVE  mem[mem_input[i].addr + k - 1] = mem_input[i].bytes[k]
    BY DEF LoadedFirst
  <2> DEFINE r == mem_input[i]
  <2>1. mem_input \in Cases /\ Apart(mem_input)
    BY <1>1 DEF CasesApart, PtraceInv, Shape
  <2>2. i \in 1..loaded
    BY <1>1, <2>1, PtraceAssumption DEF PtraceInv, RanInv
  <2>3. r.breakpoint # None => r.breakpoint \notin DOMAIN breakpoints
    BY <1>1 DEF PtraceInv, RanInv
  <2>4. i \in Loaded BY <2>2, <2>3 DEF Loaded
  <2>5. r.bytes \in Seq(Nat) /\ r.addr \in Nat
    BY <2>1, PtraceAssumption DEF Apart
  <2>6. /\ Len(Padded(r.bytes)) \in Nat /\ Len(r.bytes) <= Len(Padded(r.bytes))
        /\ \A j \in 1..Len(r.bytes) : Padded(r.bytes)[j] = r.bytes[j]
    BY <2>5, PaddedBytes
  <2>7. k \in 1..Len(r.bytes) BY <2>5
  <2> DEFINE x == r.addr + k - 1
  <2>8. Len(r.bytes) \in Nat BY <2>5
  <2>9. x \in Written(r) /\ x - r.addr + 1 = k
    <3> HIDE DEF r
    <3> QED BY <2>5, <2>6, <2>7, <2>8 DEF Written
  <2>10. mem[x] = Padded(r.bytes)[x - r.addr + 1]
    BY <1>1, <2>4, <2>9 DEF PtraceInv, MemoryInv, MemoryIs
  <2> QED BY <2>6, <2>7, <2>9, <2>10
<1>2. PtraceInv => LoadedFirst BY <1>1
<1> QED BY <1>2, Invariance, PTL

\* handle_reached_breakpoint steps back over a trap and over nothing else.
THEOREM NeverWithinAnInstruction ==
  ASSUME CasesApart PROVE Spec => []AtAnInstruction
<1>1. PtraceInv => AtAnInstruction BY DEF PtraceInv, WhereInv, AtAnInstruction
<1> QED BY <1>1, Invariance, PTL

\* write_mem_input and add_breakpoint change nothing behind the regions.
THEOREM NothingElseChanges ==
  ASSUME CasesApart PROVE Spec => []StaysInRegions
<1>1. ASSUME PtraceInv PROVE StaysInRegions
  <2> SUFFICES ASSUME NEW a \in Memory \ (Instr \cup Regions)
               PROVE  mem[a] = Image[a]
    BY DEF StaysInRegions
  <2>1. mem_input \in Cases /\ Apart(mem_input)
    BY <1>1 DEF CasesApart, PtraceInv, Shape
  <2>2. Loaded \subseteq DOMAIN mem_input
    BY <1>1, PtraceAssumption DEF Loaded, PtraceInv, Shape
  <2>3. \A i \in DOMAIN mem_input : a \notin Written(mem_input[i])
    BY <2>1 DEF Apart, Regions
  <2>4. a \notin DOMAIN breakpoints BY <1>1 DEF PtraceInv, Shape
  <2> QED BY <1>1, <2>2, <2>3, <2>4 DEF PtraceInv, MemoryInv, MemoryIs
<1>2. PtraceInv => StaysInRegions BY <1>1
<1> QED BY <1>2, Invariance, PTL
=============================================================================
