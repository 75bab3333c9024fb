-------------------------------- MODULE Cpu ----------------------------------
(* The processor of the JV-880 (src/emulator/mcu.cpp, mcu.h and             *)
(* mcu_opcodes.cpp): one turn of core 2's loop (CMiniJV880::Run) after      *)
(* another, with the interrupts the devices ask for in between.             *)
(*                                                                          *)
(* The firmware is not part of the source, so short programs (Jobs) take    *)
(* its place: each works on its arguments in memory, with handlers of traps *)
(* and interrupts on page 0, and sleeps when it is done. An instruction     *)
(* takes one place in its page, however many bytes it is encoded in. The    *)
(* trace bit is left out: it and address errors only set exception_pending, *)
(* which nothing reads.                                                     *)
EXTENDS Alu, FiniteSets, FiniteSetsExt, Sequences, SequencesExt

CONSTANTS
  Ram,        \* bound: the bytes of memory there are
  StackTop,   \* where the programs begin their stack
  Handlers,   \* page 0
  Level,      \* the sources of interrupts by index, and their levels
  IrqVector,  \* where the handler of each starts on page 0
  TrapVector, \* and those of the traps
  Jobs        \* bound: programs, arguments, sources that may ask, results

Sources == DOMAIN Level
Programs == Jobs
Rom0 == Handlers
Octet == 0..2^Byte - 1
Word == 0..2^Wide - 1
PageRegs == {"dp", "ep", "tp", "br"}

ASSUME CpuConstants ==
  /\ Ram \subseteq Word
  /\ Level \in Seq(1..7)
  /\ IrqVector \in [Sources -> Word]
  /\ TrapVector \in [0..8 -> Word]

----------------------------------------------------------------------------
(* The instructions, as the tables MCU_Operand_Table and MCU_Opcode_Table   *)
(* tell them apart.                                                         *)

Operand ==
  [t : {"Reg"}, k : 0..7] \cup [t : {"Dec", "Inc", "Disp"}, k : 0..7, n : Int]
    \cup [t : {"Short", "Abs", "Imm"}, k : 0..7, n : Word]

AddSubOps == {"ADD", "ADDX", "SUB", "SUBX", "CMP"}
UnaryOps == {"CLR", "TST", "NOT", "NEG", "EXTU", "EXTS", "SWAP"}
LogicOps == {"AND", "OR", "XOR"}
BitOps == {"BSET", "BCLR", "BNOT", "BTST"}
BitRegOps == {"BSETR", "BCLRR", "BTSTR"}
Conditions == {"BRA", "BRN", "BHI", "BLS", "BCC", "BCS", "BNE", "BEQ", "BVC",
               "BVS", "BPL", "BMI", "BGE", "BLT", "BGT", "BLE"}
LoopOps == {"SCB/F", "SCB/NE", "SCB/EQ"}

\* What has a general operand, and what writes it.
Writing == {"ADDQ", "CLR", "NOT", "NEG", "BSET", "BCLR", "BNOT", "BSETR",
            "BCLRR", "ST", "STI", "STC"} \cup ShiftKinds
General == Writing \cup AddSubOps \cup UnaryOps \cup LogicOps \cup BitOps
             \cup BitRegOps \cup {"ADDS", "SUBS", "MULXU", "DIVXU", "LD", "XCH",
                                "CMPI", "LDF", "STF", "LDC", "ORC", "ANDC"}
\* What names a register beside it, and what has a number.
WithRegister == AddSubOps \cup LogicOps \cup BitRegOps \cup LoopOps
                  \cup {"ADDS", "SUBS", "MULXU", "DIVXU", "LD", "ST", "XCH",
                       "LDF", "STF", "JMPR", "PJMPR", "JSRR", "PJSRR"}
WithNumber == BitOps \cup Conditions \cup LoopOps
                \cup {"ADDQ", "STI", "CMPI", "LINK", "JMP", "PJMP", "JMPR",
                     "BSR", "JSR", "PJSR", "RTD"}

\* A pair of registers begins before r7.
WellFormed(i) ==
  /\ i.op \in General => i.w \in {Byte, Wide} /\ i.at \in Operand
  /\ i.op \in Writing => i.at.t # "Imm"
  /\ i.op \in {"EXTU", "EXTS", "SWAP", "XCH"} => i.at.t = "Reg"
  /\ i.op \in {"LDF", "STF"} => i.at.t = "Disp"
  /\ i.op \in WithRegister => i.r \in 0..7
  /\ i.op = "PJMPR" => i.r # 7
  /\ i.op \in WithNumber => i.n \in Int
  /\ i.op \in BitOps => i.n \in Nat
  /\ i.op \in {"LDC", "STC", "ORC", "ANDC"} =>
       i.c \in {"sr", "ccr"} \cup PageRegs
  /\ i.op \in {"PJMP", "PJSR"} => i.page \in Octet
  /\ i.op \in {"LDM", "STM"} => i.regs \subseteq 0..7
  /\ i.op = "TRAPA" => i.n \in 0..15
  /\ i.op = "ACK" => i.n \in Sources

\* Each job has a text for every page it goes to.
ASSUME CpuPrograms ==
  /\ \A i \in Range(Handlers) : WellFormed(i)
  /\ \A program \in Range(Jobs) :
       /\ \A text \in Range(program.rom) : \A i \in Range(text) : WellFormed(i)
       /\ DOMAIN program.memory \subseteq Ram
       /\ program.memory \in [DOMAIN program.memory -> Octet]
       /\ program.may \subseteq Sources

----------------------------------------------------------------------------

VARIABLES
  job,    \* the program that runs
  cpu,    \* its registers and memory, mcu_t
  asked,  \* interrupt_pending
  may,    \* bound: the sources that may still ask
  active  \* ghost: the handlers begun: the level, 0 for a trap, where the
          \* frame is and the SR in it

machine == <<job, cpu, asked, may, active>>

Begun == [level : 0..7, at : Word, sr : Word]

CpuTypeOK ==
  /\ job \in DOMAIN Programs
  /\ cpu.r \in [0..7 -> Word] /\ cpu.pc \in Word
  /\ {cpu.cp} \cup {cpu.page[p] : p \in PageRegs} \subseteq Octet
  /\ cpu.flags \subseteq Flags /\ cpu.mask \in 0..7
  /\ {cpu.sleep, cpu.ignore} \subseteq BOOLEAN /\ cpu.trap \subseteq 0..15
  /\ DOMAIN cpu.mem \subseteq Ram
  /\ \A a \in DOMAIN cpu.mem : cpu.mem[a] \in Octet
  /\ asked \subseteq Sources /\ may \subseteq Sources
  /\ active \in Seq(Begun)

\* MCU_Reset: everything masked until the program allows it.
MCU_Reset(memory) ==
  [r |-> [k \in 0..7 |-> 0], pc |-> 1, cp |-> 1, flags |-> {}, mask |-> 7,
   page |-> [p \in PageRegs |-> 0], sleep |-> FALSE, ignore |-> FALSE,
   trap |-> {}, mem |-> memory]

CpuInit ==
  /\ job \in DOMAIN Programs
  /\ cpu = MCU_Reset(Programs[job].memory)
  /\ asked = {} /\ may = Programs[job].may /\ active = <<>>

----------------------------------------------------------------------------
(* Memory: big-endian, words at even addresses, the RAM of page 0 also seen  *)
(* on pages 10 and 11; nothing answers elsewhere. What was not written is 0.*)

MCU_Read(m, page, a) ==
  IF page \notin {0, 10, 11} \/ a \notin Ram THEN 2^Byte - 1
  ELSE IF a \in DOMAIN m.mem THEN m.mem[a] ELSE 0

MCU_Write(m, page, a, x) ==
  IF page \notin {0, 10} \/ a \notin Ram THEN m
  ELSE [m EXCEPT !.mem = [b \in {a} \cup DOMAIN m.mem |->
                            IF b = a THEN Cut(x, Byte) ELSE m.mem[b]]]

Even(a) == 2 * (a \div 2)

Load(m, page, a, w) ==
  IF w = Wide THEN MCU_Read(m, page, Even(a)) * 2^Byte + MCU_Read(m, page, Even(a) + 1)
  ELSE MCU_Read(m, page, a)

Store(m, page, a, x, w) ==
  IF w = Wide THEN MCU_Write(MCU_Write(m, page, Even(a), x \div 2^Byte),
                      page, Even(a) + 1, x)
  ELSE MCU_Write(m, page, a, x)

SetWord(m, k, x) == [m EXCEPT !.r[k] = Cut(x, Wide)]

\* A byte leaves the high half of the register as it is.
SetReg(m, k, x, w) ==
  SetWord(m, k, IF w = Wide THEN x ELSE m.r[k] - Cut(m.r[k], Byte) + Cut(x, Byte))

WithFlags(m, flags) == [m EXCEPT !.flags = flags]

MCU_PushStack(m, x) ==
  LET n == SetWord(m, 7, m.r[7] - 2) IN Store(n, 0, n.r[7], x, Wide)

Top(m) == Load(m, 0, m.r[7], Wide)
Drop(m) == SetWord(m, 7, m.r[7] + 2)

----------------------------------------------------------------------------
(* SR: the mask above the flags. The control registers.                     *)

FlagValue(f) ==
  CASE f = "N" -> 8 [] f = "Z" -> 4 [] f = "V" -> 2 [] f = "C" -> 1
FlagsOf(x) == {f \in Flags : (x \div FlagValue(f)) % 2 = 1}
CcrOf(m) ==
  LET v(f) == IF f \in m.flags THEN FlagValue(f) ELSE 0
  IN v("N") + v("Z") + v("V") + v("C")
SrOf(m) == (m.mask * 2^Byte) + CcrOf(m)
SetPage(m, c, x) == [m EXCEPT !.page[c] = Cut(x, Byte)]
SetSr(m, x) == [m EXCEPT !.flags = FlagsOf(x), !.mask = (x \div 2^Byte) % 8]

MCU_ControlRegisterRead(m, c, w) ==
  CASE c = "sr" -> SrOf(m)
    [] c = "ccr" -> CcrOf(m)
    [] c \in PageRegs -> IF w = Wide THEN m.page[c] * (2^Byte + 1) ELSE m.page[c]

MCU_ControlRegisterWrite(m, c, x) ==
  CASE c = "sr" -> SetSr(m, x)
    [] c = "ccr" -> WithFlags(m, FlagsOf(x))
    [] c \in PageRegs -> SetPage(m, c, x)

----------------------------------------------------------------------------
(* Interrupts.                                                              *)

\* Mutant: SR is not pushed.
StartVectorNoSR(m, at, level) ==
  LET pushed == MCU_PushStack(MCU_PushStack(MCU_PushStack(m, m.pc), m.cp), 0)
  IN [pushed EXCEPT !.mask = IF level = 0 THEN @ ELSE level,
                    !.sleep = FALSE, !.cp = 0, !.pc = at]

\* Mutant: the mask stays as it was.
StartVectorUnmasked(m, at, level) ==
  LET pushed == MCU_PushStack(MCU_PushStack(MCU_PushStack(m, m.pc), m.cp),
                              SrOf(m))
  IN [pushed EXCEPT !.sleep = FALSE, !.cp = 0, !.pc = at]

\* A trap (level 0) keeps the mask.
MCU_Interrupt_StartVector(m, at, level) ==
  LET pushed == MCU_PushStack(MCU_PushStack(MCU_PushStack(m, m.pc), m.cp),
                              SrOf(m))
  IN [pushed EXCEPT !.mask = IF level = 0 THEN @ ELSE level,
                    !.sleep = FALSE, !.cp = 0, !.pc = at]

BeginHandler(m, at, level) ==
  LET n == MCU_Interrupt_StartVector(m, at, level)
  IN [m |-> n, begun |-> <<[level |-> level, at |-> n.r[7], sr |-> SrOf(m)]>>]

\* The traps 0 to 8 first, then the first source that the mask lets through.
\* A trap of a higher number is never seen.
MCU_Interrupt_Handle(m) ==
  LET traps == m.trap \cap 0..8
      ready == {s \in asked : m.mask < Level[s]}
  IN IF traps # {}
     THEN LET t == Min(traps)
          IN BeginHandler([m EXCEPT !.trap = @ \ {t}], TrapVector[t], 0)
     ELSE IF ready # {}
     THEN LET s == Min(ready)
          IN BeginHandler(m, IrqVector[s], Level[s])
     ELSE [m |-> m, begun |-> <<>>]

\* The start of a turn: an instruction that changed SR holds interrupts off
\* until the next has run.
NewTurn ==
  IF cpu.ignore THEN [m |-> [cpu EXCEPT !.ignore = FALSE], begun |-> <<>>]
  ELSE MCU_Interrupt_Handle(cpu)

----------------------------------------------------------------------------
(* Operands: a register, memory by register, page and absolute address, or  *)
(* an immediate value.                                                      *)

PageOf(m, k) == m.page[IF k >= 6 THEN "tp" ELSE IF k >= 4 THEN "ep" ELSE "dp"]

\* The operand i.at, which may move its register: m and the place of it.
MCU_Operand_General(m, i) ==
  LET at == i.at
      step == IF i.w = Wide \/ at.k = 7 THEN 2 ELSE 1
      before == IF at.t = "Dec" THEN SetWord(m, at.k, m.r[at.k] - step) ELSE m
      after == IF at.t = "Inc" THEN SetWord(m, at.k, m.r[at.k] + step)
               ELSE before
  IN CASE at.t \in {"Dec", "Inc", "Disp"} ->
            [m |-> after, t |-> "M", page |-> PageOf(m, at.k),
             a |-> Cut(before.r[at.k] + at.n, Wide)]
       [] at.t = "Short" ->
            [m |-> m, t |-> "M", page |-> 0, a |-> m.page["br"] * 2^Byte + at.n]
       [] at.t = "Abs" -> [m |-> m, t |-> "M", page |-> m.page["dp"], a |-> at.n]
       [] at.t = "Reg" -> [m |-> m, t |-> "R", a |-> at.k]
       [] at.t = "Imm" -> [m |-> m, t |-> "I", a |-> at.n]

MCU_Operand_Read(g, w) ==
  CASE g.t = "R" -> Cut(g.m.r[g.a], w)
    [] g.t = "M" -> Load(g.m, g.page, g.a, w)
    [] g.t = "I" -> g.a

MCU_Operand_Write(g, x, w) ==
  CASE g.t = "R" -> SetReg(g.m, g.a, x, w)
    [] g.t = "M" -> Store(g.m, g.page, g.a, Cut(x, w), w)

----------------------------------------------------------------------------
(* The instructions with a general operand g; i.r is the other register.    *)

AddSub(g, i) ==
  LET a == g.m.r[i.r]
      b == MCU_Operand_Read(g, i.w)
      flags == g.m.flags
      s == CASE i.op = "ADD" -> ADD_Common(a, b, 0, i.w)
             [] i.op = "ADDX" -> ADDX(a, b, flags, i.w)
             [] i.op \in {"SUB", "CMP"} -> SUB_Common(a, b, 0, i.w)
             [] i.op = "SUBX" -> SUBX(a, b, flags, i.w)
      m == IF i.op = "CMP" THEN g.m ELSE SetReg(g.m, i.r, s.val, i.w)
  IN WithFlags(m, s.flags)

\* Addresses are counted in words, and without a flag.
ADDS_SUBS(g, i) ==
  LET b == MCU_Operand_Read(g, i.w)
      d == IF i.w = Wide THEN b ELSE Signed(b, Byte)
  IN SetWord(g.m, i.r, IF i.op = "ADDS" THEN g.m.r[i.r] + d ELSE g.m.r[i.r] - d)

ADDQ(g, i) ==
  LET s == ADD_Common(MCU_Operand_Read(g, i.w), i.n, 0, i.w)
  IN WithFlags(MCU_Operand_Write(g, s.val, i.w), s.flags)

\* The ones that take one operand.
Unary(g, i) ==
  LET x == MCU_Operand_Read(g, i.w)
      whole == g.m.r[g.a]
      common(y, w) == SetStatusCommon(y, w, g.m.flags)
  IN CASE i.op = "CLR" -> WithFlags(MCU_Operand_Write(g, 0, i.w), {"Z"})
       [] i.op = "TST" -> WithFlags(g.m, Sign(x, i.w))
       [] i.op = "NOT" ->
            LET y == 2^i.w - 1 - x
            IN WithFlags(MCU_Operand_Write(g, y, i.w), common(y, i.w))
       [] i.op = "NEG" ->
            LET s == SUB_Common(0, x, 0, i.w)
            IN WithFlags(MCU_Operand_Write(g, s.val, i.w), s.flags)
       [] i.op = "EXTU" -> WithFlags(SetWord(g.m, g.a, x), Raise("Z", x = 0))
       [] i.op = "EXTS" -> \* the flags are those of the register before
            WithFlags(SetWord(g.m, g.a, Signed(x, Byte)), common(whole, Wide))
       [] i.op = "SWAP" ->
            LET y == (x * 2^Byte) + (whole \div 2^Byte)
            IN WithFlags(SetWord(g.m, g.a, y), common(y, Wide))

Logic(g, i) ==
  LET a == g.m.r[i.r]
      b == MCU_Operand_Read(g, i.w)
      y == CASE i.op = "AND" -> And(a, b) [] i.op = "OR" -> Or(a, b)
             [] i.op = "XOR" -> Xor(a, b)
      m == SetReg(g.m, i.r, y, i.w)
  IN WithFlags(m, SetStatusCommon(m.r[i.r], i.w, g.m.flags))

\* Which bit: a number, or that in a register.
BitNumber(g, i) ==
  IF i.op \in {"BSETR", "BCLRR", "BTSTR"} THEN g.m.r[i.r] % Wide ELSE i.n

WithBit(op, x, k) ==
  CASE op \in {"BSET", "BSETR"} -> x + (1 - Bit(x, k)) * 2^k
    [] op \in {"BCLR", "BCLRR"} -> x - Bit(x, k) * 2^k
    [] op = "BNOT" -> x + (1 - 2 * Bit(x, k)) * 2^k

\* Z tells what the bit was.
BitOp(g, i) ==
  LET x == MCU_Operand_Read(g, i.w)
      k == BitNumber(g, i)
      m == IF i.op \in {"BTST", "BTSTR"} THEN g.m
           ELSE MCU_Operand_Write(g, WithBit(i.op, x, k), i.w)
  IN WithFlags(m, (m.flags \ {"Z"}) \cup Raise("Z", Bit(x, k) = 0))

ShiftOp(g, i) ==
  LET s == Shift(i.op, MCU_Operand_Read(g, i.w), g.m.flags, i.w)
  IN WithFlags(MCU_Operand_Write(g, s.val, i.w), s.flags)

\* A word result is in two registers, the high one first.
Pair(m, k) == (m.r[Even(k)] * 2^Wide) + m.r[Even(k) + 1]
SetPair(m, k, hi, lo) == SetWord(SetWord(m, Even(k), hi), Even(k) + 1, lo)

Multiply(g, i) ==
  LET p == MULXU(MCU_Operand_Read(g, i.w), g.m.r[i.r], i.w)
      m == IF i.w = Wide THEN SetPair(g.m, i.r, p.val \div 2^Wide, p.val)
           ELSE SetWord(g.m, i.r, p.val)
  IN WithFlags(m, p.flags)

Divide(g, i) ==
  LET d == MCU_Operand_Read(g, i.w)
      q == DIVXU(IF i.w = Wide THEN Pair(g.m, i.r) ELSE g.m.r[i.r], d, i.w)
      m == IF ~q.done THEN g.m
           ELSE IF i.w = Wide THEN SetPair(g.m, i.r, q.remainder, q.quotient)
           ELSE SetWord(g.m, i.r, (q.remainder * 2^Byte) + q.quotient)
  IN WithFlags(m, q.flags)

Common(g, m, y, w) == WithFlags(m, SetStatusCommon(y, w, g.m.flags))

Move(g, i) ==
  LET x == MCU_Operand_Read(g, i.w)
      y == g.m.r[i.r]
  IN CASE i.op = "LD" -> Common(g, SetReg(g.m, i.r, x, i.w), x, i.w)
       [] i.op = "ST" -> Common(g, MCU_Operand_Write(g, y, i.w), y, i.w)
       [] i.op = "XCH" -> SetWord(SetWord(g.m, i.r, g.m.r[g.a]), g.a, y)

MOVG_Immediate(g, i) ==
  CASE i.op = "STI" -> Common(g, MCU_Operand_Write(g, i.n, i.w), i.n, i.w)
    [] i.op = "CMPI" ->
         WithFlags(g.m, SUB_Common(MCU_Operand_Read(g, i.w), i.n, 0, i.w).flags)

\* MOV:F with the size bit takes a word into the low byte, without it a byte
\* into the whole register; it stores a byte with the bit and a word without.
Frame(g, i) ==
  LET other == IF i.w = Wide THEN Byte ELSE Wide
      old == g.m.r[i.r]
      x == Load(g.m, g.page, g.a, i.w)
      y == Cut(old, other)
      m == IF i.op = "LDF"
           THEN SetWord(g.m, i.r,
                        IF i.w = Wide THEN Or(old - Cut(old, Byte), x) ELSE x)
           ELSE Store(g.m, g.page, g.a, y, other)
  IN Common(g, m, IF i.op = "LDF" THEN x ELSE y, other)

\* What changes SR, or another control register, lets one instruction pass
\* before the next interrupt. EP goes with DP when r7 points to the operand.
LDC_STC(g, i) ==
  LET both == i.c = "ep" /\ i.at.k = 7
      x == MCU_Operand_Read(g, IF both THEN Wide ELSE i.w)
      old == MCU_ControlRegisterRead(g.m, i.c, i.w)
  IN CASE i.op = "STC" /\ both ->
            MCU_Operand_Write(g, old + g.m.page["dp"] * 2^Byte, Wide)
       [] i.op = "STC" /\ ~both -> MCU_Operand_Write(g, old, i.w)
       [] i.op = "LDC" ->
            [MCU_ControlRegisterWrite(g.m, i.c, x) EXCEPT !.ignore = TRUE,
               !.page["dp"] = IF both THEN x \div 2^Byte ELSE @]

ORC_ANDC(g, i) ==
  LET x == MCU_Operand_Read(g, i.w)
      old == MCU_ControlRegisterRead(g.m, i.c, i.w)
      y == IF i.op = "ORC" THEN Or(old, x) ELSE And(old, x)
  IN [MCU_ControlRegisterWrite(g.m, i.c, y) EXCEPT !.ignore = TRUE,
        !.flags = IF i.c \in PageRegs THEN SetStatusCommon(y, i.w, @) ELSE @]

----------------------------------------------------------------------------
(* The instructions without one.                                            *)

\* Mutant: the word pushed for r7 stays on the stack.
PopIntoSkipping(n, regs, k) ==
  IF k \notin regs \ {7} THEN n ELSE Drop(SetWord(n, k, Top(n)))

\* The registers i.regs, from 0 up; what is popped for r7 is dropped. They
\* are pushed from 7 down.
PopInto(n, regs, k) ==
  IF k \notin regs THEN n ELSE Drop(IF k = 7 THEN n ELSE SetWord(n, k, Top(n)))
LDM(m, i) ==
  LET pop(n, k) == PopInto(n, i.regs, k)
  IN pop(pop(pop(pop(pop(pop(pop(pop(m, 0), 1), 2), 3), 4), 5), 6), 7)

PushFrom(n, regs, k) ==
  IF k \notin regs THEN n
  ELSE MCU_PushStack(n, IF k = 7 THEN n.r[7] - 2 ELSE n.r[k])
STM(m, i) ==
  LET push(n, k) == PushFrom(n, i.regs, k)
  IN push(push(push(push(push(push(push(push(m, 7), 6), 5), 4), 3), 2), 1), 0)

Stack(m, i) ==
  CASE i.op = "LDM" -> LDM(m, i)
    [] i.op = "STM" -> STM(m, i)
    [] i.op = "LINK" ->
         LET n == MCU_PushStack(m, m.r[6])
         IN SetWord(SetWord(n, 6, n.r[7]), 7, n.r[7] + i.n)
    [] i.op = "UNLK" ->
         LET n == SetWord(m, 7, m.r[6]) IN Drop(SetWord(n, 6, Top(n)))

Goto(m, to) == [m EXCEPT !.pc = Cut(to, Wide)]
GotoPage(m, cp, to) == [Goto(m, to) EXCEPT !.cp = Cut(cp, Byte)]

Branch(m, i) == IF Taken(i.op, m.flags) THEN Goto(m, m.pc + i.n) ELSE m

\* Decrement and branch, until -1 or the condition.
Loop(m, i) ==
  LET n == SetWord(m, i.r, m.r[i.r] - 1)
      goesOn == CASE i.op = "SCB/F" -> TRUE
                  [] i.op = "SCB/NE" -> "Z" \in m.flags
                  [] i.op = "SCB/EQ" -> "Z" \notin m.flags
  IN IF ~goesOn THEN m
     ELSE IF n.r[i.r] = 2^Wide - 1 THEN n
     ELSE Goto(n, n.pc + i.n)

\* i.n is an address or a distance, i.r a register that holds one.
Jump(m, i) ==
  CASE i.op = "JMP" -> Goto(m, i.n)
    [] i.op = "PJMP" -> GotoPage(m, i.page, i.n)
    [] i.op = "JMPR" -> Goto(m, m.r[i.r] + i.n)
    [] i.op = "PJMPR" -> GotoPage(m, m.r[i.r], m.r[i.r + 1])

Call(m, i) ==
  LET near == MCU_PushStack(m, m.pc)
      far == MCU_PushStack(near, m.cp)
      k == Even(i.r)
  IN CASE i.op = "BSR" -> Goto(near, m.pc + i.n)
       [] i.op = "JSR" -> Goto(near, i.n)
       [] i.op = "JSRR" -> Goto(near, near.r[i.r])
       [] i.op = "PJSR" -> GotoPage(far, i.page, i.n)
       [] i.op = "PJSRR" -> GotoPage(far, far.r[k], far.r[k + 1])

Return(m, i) ==
  CASE i.op = "RTS" -> Goto(Drop(m), Top(m))
    [] i.op = "RTD" ->
         LET n == Goto(Drop(m), Top(m)) IN SetWord(n, 7, n.r[7] + i.n)
    [] i.op = "PRTS" -> GotoPage(Drop(Drop(m)), Top(m), Top(Drop(m)))

TRAPA(m, i) == [m EXCEPT !.trap = @ \cup {i.n}]
Sleep(m, i) == [m EXCEPT !.sleep = TRUE]

RTE(m) ==
  LET n == Drop(SetSr(m, Top(m)))
  IN [GotoPage(Drop(Drop(n)), Top(n), Top(Drop(n))) EXCEPT !.ignore = TRUE]

----------------------------------------------------------------------------
(* A turn of the loop that runs on core 2.                                  *)

\* MCU_ReadCodeAdvance: one ROM for page 0, one for the rest. No text goes on
\* beyond its end.
InText(m) ==
  IF m.cp = 0 THEN m.pc \in DOMAIN Rom0
  ELSE /\ m.cp \in DOMAIN Programs[job].rom
       /\ m.pc \in DOMAIN Programs[job].rom[m.cp]
Fetch(m) == IF m.cp = 0 THEN Rom0[m.pc] ELSE Programs[job].rom[m.cp][m.pc]
Fetched(m) == [m EXCEPT !.pc = Cut(@ + 1, Wide)]

\* The devices are clocked after the instruction, and the main loop turns
\* the dial at any time: at most one source asks for an interrupt.
Devices ==
  \E s \in {{}} \cup {{s} : s \in may} :
    /\ may' = may \ s
    /\ asked' = asked \cup s

\* The turn begins with t; its instruction i is one of ops and leaves m.
Runs(t, i, ops, m) ==
  /\ i.op \in ops
  /\ cpu' = m
  /\ active' = active \o t.begun
  /\ Devices
  /\ UNCHANGED job

Compute(t, i) ==
  LET g == MCU_Operand_General(Fetched(t.m), i)
  IN \/ Runs(t, i, AddSubOps, AddSub(g, i))
     \/ Runs(t, i, {"ADDS", "SUBS"}, ADDS_SUBS(g, i))
     \/ Runs(t, i, {"ADDQ"}, ADDQ(g, i))
     \/ Runs(t, i, UnaryOps, Unary(g, i))
     \/ Runs(t, i, LogicOps, Logic(g, i))
     \/ Runs(t, i, BitOps \cup BitRegOps, BitOp(g, i))
     \/ Runs(t, i, ShiftKinds, ShiftOp(g, i))
     \/ Runs(t, i, {"MULXU"}, Multiply(g, i))
     \/ Runs(t, i, {"DIVXU"}, Divide(g, i))

Transfer(t, i) ==
  LET g == MCU_Operand_General(Fetched(t.m), i)
  IN \/ Runs(t, i, {"LD", "ST", "XCH"}, Move(g, i))
     \/ Runs(t, i, {"STI", "CMPI"}, MOVG_Immediate(g, i))
     \/ Runs(t, i, {"LDF", "STF"}, Frame(g, i))
     \/ Runs(t, i, {"LDC", "STC"}, LDC_STC(g, i))
     \/ Runs(t, i, {"ORC", "ANDC"}, ORC_ANDC(g, i))
     \/ Runs(t, i, {"LDM", "STM", "LINK", "UNLK"}, Stack(Fetched(t.m), i))

Flow(t, i) ==
  LET m == Fetched(t.m)
  IN \/ Runs(t, i, Conditions, Branch(m, i))
     \/ Runs(t, i, LoopOps, Loop(m, i))
     \/ Runs(t, i, {"JMP", "PJMP", "JMPR", "PJMPR"}, Jump(m, i))
     \/ Runs(t, i, {"BSR", "JSR", "JSRR", "PJSR", "PJSRR"}, Call(m, i))
     \/ Runs(t, i, {"RTS", "RTD", "PRTS"}, Return(m, i))
     \/ Runs(t, i, {"TRAPA"}, TRAPA(m, i))
     \/ Runs(t, i, {"SLEEP"}, Sleep(m, i))

\* The end of a handler.
ReturnFromHandler(t, i) ==
  /\ i.op = "RTE"
  /\ cpu' = RTE(Fetched(t.m))
  /\ active' = Front(active \o t.begun)
  /\ Devices
  /\ UNCHANGED job

\* A handler's access to the device that asked, which withdraws the request.
Acknowledge(t, i) ==
  /\ i.op = "ACK"
  /\ cpu' = Fetched(t.m)
  /\ asked' = asked \ {i.n}
  /\ active' = active \o t.begun
  /\ UNCHANGED <<job, may>>

\* Asleep, only the devices go on.
Asleep(t) ==
  /\ t.m.sleep
  /\ cpu' = t.m
  /\ Devices
  /\ UNCHANGED <<job, active>>

CpuNext ==
  LET t == NewTurn
  IN \/ Asleep(t)
     \/ /\ ~t.m.sleep /\ InText(t.m)
        /\ LET i == Fetch(t.m)
           IN Compute(t, i) \/ Transfer(t, i) \/ Flow(t, i)
                \/ ReturnFromHandler(t, i) \/ Acknowledge(t, i)

CpuSpec == CpuInit /\ [][CpuNext]_machine

----------------------------------------------------------------------------

(* Whatever interrupts and traps come in between two instructions, a program*)
(* comes to its result: each register it leaves, among them the stack       *)
(* pointer, holds what plain arithmetic says, in the pages and with the     *)
(* mask it had. Only what it shares with a handler may differ, within what  *)
(* the job allows.                                                          *)
InterruptsInvisible ==
  cpu.sleep /\ active = <<>> =>
    /\ \A k \in DOMAIN Programs[job].result :
         cpu.r[k - 1] \in Programs[job].result[k]
    /\ cpu.r[7] = StackTop
    /\ cpu.mask = 0 /\ cpu.cp = 1

(* A handler returns through the frame its interrupt or trap has pushed: at  *)
(* RTE the stack pointer is back where the handler began, the SR there is   *)
(* the one pushed, whatever the handler and those it was interrupted by did,*)
(* and an instruction that loads SR leaves the level of every handler that  *)
(* still runs masked.                                                       *)
KeepsFrames ==
  LET t == NewTurn
      i == Fetch(t.m)
      running == active \o t.begun
  IN ~t.m.sleep /\ InText(t.m) =>
       /\ i.op = "RTE" =>
            /\ running # <<>>
            /\ t.m.r[7] = Last(running).at /\ Top(t.m) = Last(running).sr
       /\ i.op \in {"LDC", "ORC", "ANDC"} /\ i.c = "sr" =>
            \A k \in DOMAIN running : running[k].level <= cpu'.mask
HandlersKeepFrames == [][KeepsFrames]_machine

(* Handlers nest by level: one that is begun while others run has a higher  *)
(* level than all of them, and while it runs nothing of its level or below  *)
(* does, whatever the handlers and traps push and pop.                      *)
NestingByLevel ==
  \A k \in DOMAIN active :
    active[k].level # 0 =>
      /\ \A j \in 1..k - 1 : active[j].level < active[k].level
      /\ active[k].level <= cpu.mask
=============================================================================
