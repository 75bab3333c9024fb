------------------------------- MODULE MCCpu ---------------------------------
(* Programs for Cpu, with what plain arithmetic says they leave behind. A   *)
(* byte has 4 bits, a word 8. Page 1 holds the program, page 2 what it      *)
(* calls far, page 0 the handlers. The first words of RAM are the program's *)
(* arguments; the pair at Shared is copied by the handler of source 1.      *)
EXTENDS Cpu

Base == 128
RamOf4 == Base..Base + 63
TopOfRam == Base + 64
Shared == Base + 8
Copied == Base + 12

\* Operands.
Reg(k) == [t |-> "Reg", k |-> k]
At(k, n) == [t |-> "Disp", k |-> k, n |-> n]
Push(k) == [t |-> "Dec", k |-> k, n |-> 0]
Pop(k) == [t |-> "Inc", k |-> k, n |-> 0]
Short(n) == [t |-> "Short", k |-> 5, n |-> n]
Abs(n) == [t |-> "Abs", k |-> 5, n |-> n]
Imm(n) == [t |-> "Imm", k |-> 4, n |-> n]

\* Instructions: on words and on bytes, with a number, with a control
\* register; jumps with a number or a register.
W(op, at, r) == [op |-> op, w |-> Wide, at |-> at, r |-> r]
B(op, at, r) == [op |-> op, w |-> Byte, at |-> at, r |-> r]
WN(op, at, n) == [op |-> op, w |-> Wide, at |-> at, n |-> n]
BN(op, at, n) == [op |-> op, w |-> Byte, at |-> at, n |-> n]
C(op, w, at, c) == [op |-> op, w |-> w, at |-> at, c |-> c]
J(op, n) == [op |-> op, n |-> n]
JR(op, r, n) == [op |-> op, r |-> r, n |-> n]
JP(op, page, n) == [op |-> op, page |-> page, n |-> n]
Regs(op, s) == [op |-> op, regs |-> s]

\* The handlers: source 1 copies the shared pair, source 2 uses everything
\* the program may use; trap 2 adds 1 to r0.
CopyHandler ==
  <<Regs("STM", {0, 1}),
    W("LD", Abs(Shared), 0), W("ST", Abs(Copied), 0),
    W("LD", Abs(Shared + 2), 1), W("ST", Abs(Copied + 2), 1),
    J("ACK", 1), Regs("LDM", {0, 1}), J("RTE", 0)>>
UrgentHandler ==
  <<Regs("STM", {0, 7}), C("STC", Byte, Push(7), "ep"),
    C("LDC", Byte, Imm(3), "dp"), W("SUB", Imm(1), 0), J("ACK", 2),
    C("LDC", Byte, Pop(7), "ep"), Regs("LDM", {0, 7}), J("RTE", 0)>>
TrapHandler == <<WN("ADDQ", Reg(0), 1), J("RTE", 0)>>

AllHandlers == CopyHandler \o UrgentHandler \o TrapHandler
LevelOf == <<2, 5>>
IrqAt == <<1, 9>>
TrapAt == [t \in 0..8 |-> 17]

----------------------------------------------------------------------------

Big(words) == \* the bytes of words
  [k \in 1..2 * Len(words) |->
     IF k % 2 = 1 THEN words[(k + 1) \div 2] \div 16
     ELSE words[k \div 2] % 16]

Ram0(args) ==
  [a \in Base..Base + 2 * Len(args) - 1 |-> Big(args)[a - Base + 1]]

\* The arguments are loaded before interrupts are let through.
Prologue(n) ==
  <<W("LD", Imm(TopOfRam), 7), C("LDC", Byte, Imm(Base \div 16), "br")>>
    \o [k \in 1..n |-> W("LD", Short(2 * (k - 1)), k - 1)]
    \o <<C("LDC", Wide, Imm(0), "sr")>>
Epilogue == <<J("SLEEP", 0), J("BRA", -2)>>

Job(body, far, args, results, sources) ==
  [rom |-> <<Prologue(Len(args)) \o body \o Epilogue, far>>,
   memory |-> Ram0(args), may |-> sources,
   result |-> [k \in 1..Len(results) |-> {results[k]}] \o <<>>]

Hi(x) == (x \div 256) % 256
Lo(x) == x % 256
Truth(b) == IF b THEN 1 ELSE 0

\* Sets r4 if the condition does not hold that skips it.
Unless(cond) == <<J(cond, 1), W("LD", Imm(1), 4)>>

----------------------------------------------------------------------------
(* Arithmetic on two words, the high one in the even register.              *)

AddJob(x, y, s) ==
  Job(<<W("ADD", Reg(3), 1), W("ADDX", Reg(2), 0)>> \o Unless("BNE"), <<>>,
      <<Hi(x), Lo(x), Hi(y), Lo(y)>>,
      <<Hi(x + y), Lo(x + y), Hi(y), Lo(y), Truth((x + y) % 65536 = 0)>>, s)

SubJob(x, y, s) ==
  LET d == (x - y) % 65536
  IN Job(<<W("SUB", Reg(3), 1), W("SUBX", Reg(2), 0)>> \o Unless("BCC"), <<>>,
         <<Hi(x), Lo(x), Hi(y), Lo(y)>>,
         <<Hi(d), Lo(d), Hi(y), Lo(y), Truth(x < y)>>, s)

NegateJob(x, s) ==
  LET d == (0 - x) % 65536
  IN Job(<<W("CLR", Reg(2), 0), W("NOT", Reg(0), 0), W("NEG", Reg(1), 0),
           W("TST", Reg(1), 0), J("BNE", 1), WN("ADDQ", Reg(0), 1)>>, <<>>,
         <<Hi(x), Lo(x)>>, <<Hi(d), Lo(d), 0>>, s)

\* Twice x, then half of that with its sign, then its low byte rotated.
ShiftJob(x, s) ==
  LET d == (2 * x) % 65536
      h == d \div 2 + (IF d >= 32768 THEN 32768 ELSE 0)
  IN Job(<<W("SHLL", Reg(1), 0), W("ROTXL", Reg(0), 0),
           W("SHAR", Reg(0), 0), W("ROTXR", Reg(1), 0),
           W("LD", Reg(1), 2), B("SHAL", Reg(2), 0), B("SHLR", Reg(2), 0),
           W("LD", Reg(1), 3), B("ROTL", Reg(3), 0), B("ROTR", Reg(3), 0)>>,
         <<>>, <<Hi(x), Lo(x)>>,
         <<Hi(h), Lo(h), Lo(h) - (IF h % 16 >= 8 THEN 8 ELSE 0), Lo(h)>>, s)

\* x * d + e divided by d again.
DivideJob(x, d, e, s) ==
  LET n == x * d + e
      fits == d # 0 /\ n \div (IF d = 0 THEN 1 ELSE d) < 256
  IN Job(<<W("MULXU", Reg(2), 1), W("ADD", Reg(3), 1), W("ADDX", Imm(0), 0),
           W("DIVXU", Reg(2), 0)>>, <<>>,
         <<0, x, d, e>>,
         IF fits THEN <<n % d, n \div d, d, e>> ELSE <<Hi(n), Lo(n), d, e>>, s)

\* The same with a word and bytes.
ByteDivideJob(x, d, e, s) ==
  LET n == x * d + e
      fits == d # 0 /\ n \div (IF d = 0 THEN 1 ELSE d) < 16
  IN Job(<<B("MULXU", Reg(1), 0), W("ADD", Reg(2), 0), B("DIVXU", Reg(1), 0)>>,
         <<>>, <<x, d, e>>,
         IF fits THEN <<((n % d) * 16) + (n \div d), d, e>> ELSE <<n, d, e>>, s)

\* The high and the low byte of a word, the first with its sign.
BytesJob(x, s) ==
  LET high == x \div 16
  IN Job(<<W("LD", Reg(0), 1), B("SWAP", Reg(1), 0), B("EXTS", Reg(1), 0),
           B("EXTU", Reg(0), 0), W("XCH", Reg(1), 0)>>, <<>>,
         <<x>>, <<IF high >= 8 THEN 240 + high ELSE high, x % 16>>, s)

----------------------------------------------------------------------------
(* Branches, loops and calls.                                               *)

Sgn(x) == IF x >= 128 THEN x - 256 ELSE x

\* What each condition says of x and y after CMP.
Holds(cond, x, y) ==
  LET d == Sgn(x) - Sgn(y)
  IN CASE cond = "BRA" -> TRUE [] cond = "BRN" -> FALSE
       [] cond = "BHI" -> x > y [] cond = "BLS" -> x <= y
       [] cond = "BCC" -> x >= y [] cond = "BCS" -> x < y
       [] cond = "BNE" -> x # y [] cond = "BEQ" -> x = y
       [] cond = "BVC" -> d \in -128..127 [] cond = "BVS" -> d \notin -128..127
       [] cond = "BPL" -> (x - y) % 256 < 128
       [] cond = "BMI" -> (x - y) % 256 >= 128
       [] cond = "BGE" -> d >= 0 [] cond = "BLT" -> d < 0
       [] cond = "BGT" -> d > 0 [] cond = "BLE" -> d <= 0

CompareJob(cond, x, y, s) ==
  Job(<<W("CMP", Reg(1), 0)>> \o Unless(cond), <<>>, <<x, y, 0, 0, 0>>,
      <<x, y, 0, 0, Truth(~Holds(cond, x, y))>>, s)

\* The bits of r0 counted into r2.
CountJob(x, n, s) ==
  Job(<<W("BTSTR", Reg(0), 1), J("BEQ", 1), WN("ADDQ", Reg(2), 1),
        JR("SCB/F", 1, -4)>>, <<>>,
      <<x, 7, 0>>, <<x, 255, n>>, s)

\* The place of the byte 5 among the first six, r1 counts down; it is then
\* found again from the byte after it.
FindJob(args, found, s) ==
  Job(<<W("LD", Imm(Base), 0), W("LD", Imm(5), 1),
        BN("CMPI", Pop(0), 5), JR("SCB/EQ", 1, -2),
        W("LD", Imm(3), 2), BN("CMPI", Push(0), 5), JR("SCB/NE", 2, 0)>>, <<>>,
      args, <<Base + found, 5 - found, 2>>, s)

\* A call of every kind, with a frame, with an argument on the stack, on the
\* other page, and the jumps back: r0 becomes 2 * (low byte + 1) + 2.
CallJob(x, s) ==
  Job(<<J("BSR", 10),                                       \* at 5
        JP("PJSR", 2, 1),
        W("LD", Imm(22), 1), W("ST", Push(7), 0), JR("JSRR", 1, 0),
        W("LD", Imm(2), 2), W("LD", Imm(3), 3), JR("PJSRR", 3, 0),
        W("LD", Imm(1), 2), W("LD", Imm(24), 3), JR("PJMPR", 2, 0),
        J("LINK", -2), B("STF", At(6, -2), 0), W("LD", Imm(0), 0), \* at 16
        B("LDF", At(6, -1), 0), J("UNLK", 0), J("RTS", 0),
        W("ADD", At(7, 2), 0), J("RTD", 2),                 \* at 22
        JR("JMPR", 3, 2), W("LD", Imm(99), 0),              \* at 24
        J("JSR", 28), J("JMP", 30),                         \* at 26
        W("ADD", Imm(1), 0), J("RTS", 0),
        JP("PJMP", 1, 31)>>,
      <<W("ADD", Imm(1), 0), J("PRTS", 0), W("ADD", Imm(1), 0), J("PRTS", 0)>>,
      <<x>>, <<2 * ((x % 16) + 1) + 2, 22, 1, 24>>, s)

----------------------------------------------------------------------------
(* Memory, bits, and what is shared with the handlers.                      *)

MoveJob(x, y, s) ==
  LET spliced == ((x \div 16) * 16) + (y % 16)
  IN Job(<<C("LDC", Byte, Imm(10), "dp"), C("LDC", Byte, Imm(11), "ep"),
        W("LD", Imm(Base + 4), 4), W("ST", Abs(Base + 4), 0),
        W("LD", Pop(4), 3), B("ST", Short(5), 1), B("LD", Push(4), 3),
        W("LD", Abs(Base + 4), 2), C("STC", Byte, Reg(5), "dp"),
        W("ADDS", Imm(3), 4), B("SUBS", Imm(15), 4),
        BN("STI", Short(4), 9), W("STF", At(6, Base + 6), 1),
        B("LDF", At(6, Base + 4), 6), W("LDF", At(6, Base - 5), 6)>>, <<>>,
      <<x, y>>,
      <<x, y, spliced, spliced, Base + 9, 10, 144 + (y % 16)>>, s)

\* (x OR y) - (x AND y) - (x XOR y) = 0
LogicJob(x, y, s) ==
  Job(<<W("LD", Reg(0), 2), W("AND", Reg(1), 2), W("LD", Reg(0), 3),
        W("OR", Reg(1), 3), W("XOR", Reg(1), 0), W("SUB", Reg(2), 3),
        W("SUB", Reg(0), 3)>> \o Unless("BNE"), <<>>,
      <<x, y>>,
      <<SumSet({2^k : k \in {b \in 0..7 : Bit(x, b) # Bit(y, b)}}), y,
        SumSet({2^k : k \in {b \in 0..7 : Bit(x, b) + Bit(y, b) = 2}}), 0, 1>>,
      s)

\* Bit n of a word set, then flipped; bit 3 of its high byte in memory too.
BitJob(x, n, s) ==
  LET clear == x - Bit(x, n) * 2^n
  IN Job(<<W("BSETR", Reg(0), 1), WN("BNOT", Reg(0), n), WN("BTST", Reg(0), n)>>
           \o Unless("BNE") \o
         <<BN("BSET", Short(0), 3), BN("BCLR", Short(0), 3), W("LD", Short(0), 2),
           W("BCLRR", Reg(2), 1), C("ORC", Byte, Imm(1), "dp"),
           C("STC", Byte, Reg(3), "dp")>>, <<>>,
         <<x, n>>,
         <<clear, n, LET y == clear - Bit(clear, 7) * 128 IN y, 1, 1>>, s)

\* The program changes a pair under the mask; the handler never copies half.
PublishJob(x, s) ==
  LET Masked(body) == <<C("ORC", Wide, Imm(112), "sr")>> \o body
                        \o <<C("ANDC", Wide, Imm(15), "sr")>>
      job0 == Job(Masked(<<W("ST", Abs(Shared), 0), W("ST", Abs(Shared + 2), 0)>>)
                    \o Masked(<<W("LD", Abs(Copied), 1),
                                W("LD", Abs(Copied + 2), 2)>>)
                    \o <<W("SUB", Reg(2), 1)>>, <<>>, <<x>>, <<x, 0>>, s)
  IN [job0 EXCEPT !.result = Append(@, {0, x})]

\* A trap between the others' interrupts; 9 is a number that is not served.
TrapJob(x, s) ==
  Job(<<C("ORC", Byte, Imm(1), "ccr"), J("TRAPA", 2), J("TRAPA", 9)>>
        \o Unless("BCC"), <<>>, <<x, 0>>, <<x + 1, 0, 0, 0, 1>>, s)

----------------------------------------------------------------------------

\* One job for each argument, for each pair of arguments.
Each(Op(_), s) == [k \in DOMAIN s |-> Op(s[k])]
Each2(Op(_, _), s, t) ==
  [k \in 1..Len(s) * Len(t) |->
     Op(s[((k - 1) \div Len(t)) + 1], t[((k - 1) % Len(t)) + 1])]

Words == <<0, 1, 127, 128, 255>>
Longs == <<0, 1, 255, 256, 32767, 32768, 65535>>
Conds == <<"BRA", "BRN", "BHI", "BLS", "BCC", "BCS", "BNE", "BEQ", "BVC", "BVS",
           "BPL", "BMI", "BGE", "BLT", "BGT", "BLE">>

JobList ==
  Each2(LAMBDA x, y : AddJob(x, y, {1}), Longs, Longs)
  \o Each2(LAMBDA x, y : SubJob(x, y, {2}), Longs, Longs)
  \o Each(LAMBDA x : NegateJob(x, {1}), Longs)
  \o Each(LAMBDA x : ShiftJob(x, {1}), Longs \o <<43690, 21845>>)
  \o Each2(LAMBDA x, d : DivideJob(x, d, 6, {1}), <<0, 1, 255>>, <<0, 1, 7, 255>>)
  \o Each(LAMBDA e : DivideJob(200, 255, e, {2}), <<0, 254, 255>>)
  \o Each2(LAMBDA x, d : ByteDivideJob(x, d, 6, {1}),
           <<0, 9, 15>>, <<0, 1, 7, 15>>)
  \o Each(LAMBDA e : ByteDivideJob(15, 15, e, {2}), <<0, 14, 15>>)
  \o Each(LAMBDA x : BytesJob(x, {1}), Words \o <<135, 120>>)
  \o Each2(LAMBDA c, x : CompareJob(c, x, 0, {2}), Conds, Words)
  \o Each2(LAMBDA c, x : CompareJob(c, x, 128, {2}), Conds, Words)
  \o Each2(LAMBDA x, y : LogicJob(x, y, {1}), <<0, 85, 255>>, <<15, 170>>)
  \o Each2(LAMBDA x, n : BitJob(x, n, {1}), <<0, 255>>, <<0, 5, 7>>)
  \o Each2(LAMBDA x, y : MoveJob(x, y, {1}), <<18, 255>>, <<7, 128>>)
  \o <<AddJob(65535, 1, {1, 2}), SubJob(256, 257, {1, 2}),
       CountJob(165, 4, {2}), CountJob(255, 8, {1}),
       FindJob(<<16 * 5 + 1, 16, 0>>, 0, {1, 2}),
       FindJob(<<1, 16 * 2 + 5, 0>>, 3, {1}),
       CallJob(3, {1, 2}), CallJob(255, {1}),
       PublishJob(5, {1, 2}), TrapJob(15, {1, 2}), TrapJob(254, {1})>>

\* Where the processor is not looked at.
OneJob == <<AddJob(0, 0, {})>>
=============================================================================
