-------------------------- MODULE Instrument_proofs --------------------------
(* The processor for any well-formed programs, handlers, levels and widths: *)
(* its types, the nesting of its handlers and the way back from them, what  *)
(* they save and restore, and what its arithmetic and its comparisons say   *)
(* of the numbers. Then the instrument, which keeps all that its parts      *)
(* keep.                                                                    *)
EXTENDS Instrument, Panel_proofs, Peripherals_proofs, WellFoundedInduction,
        TLAPS

Widths == {Byte, Wide}

(* The sizes of a byte and of a word. *)
LEMMA Sizes ==
  /\ Byte \in Nat /\ Wide \in Nat /\ Byte # Wide
  /\ 2^Byte \in Nat /\ 2^Byte >= 16 /\ 2^Byte % 16 = 0
  /\ 2^Wide = 2^Byte * 2^Byte /\ 2^Wide \in Nat /\ 2^Wide >= 256
<1>1. CASE Byte = 4
  <2>1. Wide = 8
    BY <1>1 DEF Wide
  <2> QED BY <1>1, <2>1
<1>2. CASE Byte = 5
  <2>1. Wide = 10
    BY <1>2 DEF Wide
  <2> QED BY <1>2, <2>1
<1>3. CASE Byte = 6
  <2>1. Wide = 12
    BY <1>3 DEF Wide
  <2> QED BY <1>3, <2>1
<1>4. CASE Byte = 7
  <2>1. Wide = 14
    BY <1>4 DEF Wide
  <2> QED BY <1>4, <2>1
<1>5. CASE Byte = 8
  <2>1. Wide = 16
    BY <1>5 DEF Wide
  <2> QED BY <1>5, <2>1
<1> QED BY <1>1, <1>2, <1>3, <1>4, <1>5, ByteSize

(* A word is two bytes. *)
LEMMA Halves ==
  /\ \A h, l \in Octet : /\ h * 2^Byte + l \in Word
                         /\ (h * 2^Byte + l) \div 2^Byte = h
                         /\ (h * 2^Byte + l) % 2^Byte = l
  /\ \A x \in Word : /\ x \div 2^Byte \in Octet /\ x % 2^Byte \in Octet
                     /\ x = (x \div 2^Byte) * 2^Byte + (x % 2^Byte)
<1> DEFINE B == 2^Byte
<1>1. B \in Nat /\ B > 0
  BY Sizes
<1>2. Octet = 0..B - 1 /\ Word = 0..B * B - 1
  BY Sizes DEF Octet, Word
<1> HIDE DEF B
<1>3. ASSUME NEW h \in 0..B - 1, NEW l \in 0..B - 1
      PROVE  /\ h * B + l \in 0..B * B - 1
             /\ (h * B + l) \div B = h /\ (h * B + l) % B = l
  BY <1>1
<1>4. ASSUME NEW x \in 0..B * B - 1
      PROVE  /\ x \div B \in 0..B - 1 /\ x % B \in 0..B - 1
             /\ x = (x \div B) * B + (x % B)
  BY <1>1
<1> QED BY <1>2, <1>3, <1>4 DEF B

LEMMA WordsAreNumbers ==
  /\ \A x \in Word : x \in Nat /\ x \in Int
  /\ \A x \in Octet : x \in Nat /\ x \in Int
BY Sizes DEF Word, Octet

LEMMA CutType ==
  /\ \A x \in Int, w \in Widths : Cut(x, w) \in Nat /\ Signed(x, w) \in Int
  /\ \A x \in Int : Cut(x, Wide) \in Word /\ Cut(x, Byte) \in Octet
<1>1. \A w \in Widths : w \in Nat /\ 2^w \in Nat /\ 2^w > 0 /\ 2^(w - 1) \in Int
  <2>1. \A w \in Widths : w \in Nat /\ w - 1 \in Nat
    BY ByteSize DEF Widths, Wide
  <2>2. \A w \in Widths : 2^w \in Nat /\ 2^w > 0
    BY Sizes DEF Widths
  <2> QED BY <2>1, <2>2
<1>2. \A x \in Int, w \in Widths : Cut(x, w) \in Nat /\ Signed(x, w) \in Int
  BY <1>1 DEF Cut, Signed, Msb
<1>3. \A x \in Int : Cut(x, Wide) \in Word
  BY Sizes DEF Cut, Word
<1>4. \A x \in Int : Cut(x, Byte) \in Octet
  BY Sizes DEF Cut, Octet
<1> QED BY <1>2, <1>3, <1>4

LEMMA BitType ==
  ASSUME NEW x \in Int, NEW k \in Nat
  PROVE  Bit(x, k) \in Int
<1>1. 2^k \in Int
  OBVIOUS
<1> QED BY <1>1 DEF Bit

----------------------------------------------------------------------------
(* The arithmetic: every value is a number, every flag a flag. *)

LEMMA RaiseType ==
  ASSUME NEW f, NEW c
  PROVE  Raise(f, c) \subseteq {f}
BY DEF Raise

LEMMA SignType ==
  ASSUME NEW x, NEW w
  PROVE  Sign(x, w) \subseteq Flags
<1>1. Raise("N", Signed(x, w) < 0) \subseteq {"N"}
  BY RaiseType
<1>2. Raise("Z", Cut(x, w) = 0) \subseteq {"Z"}
  BY RaiseType
<1> QED BY <1>1, <1>2 DEF Sign, Flags

LEMMA StatusType ==
  ASSUME NEW x, NEW w, NEW flags
  PROVE  SetStatusCommon(x, w, flags) \subseteq Flags
BY SignType DEF SetStatusCommon, Flags

\* What ADD_Common and SUB_Common make.
Result == [val : Int, flags : SUBSET Flags]

\* N and Z with C and V besides, whatever raises them.
LEMMA FlagsType ==
  ASSUME NEW y, NEW w, NEW c, NEW v
  PROVE  /\ Sign(y, w) \cup Raise("C", c) \in SUBSET Flags
         /\ Sign(y, w) \cup Raise("C", c) \cup Raise("V", v) \in SUBSET Flags
<1>1. Raise("C", c) \subseteq {"C"} /\ Raise("V", v) \subseteq {"V"}
  BY RaiseType
<1> QED BY <1>1, SignType DEF Flags

LEMMA SumType ==
  ASSUME NEW a \in Int, NEW b \in Int, NEW c \in Int, NEW w \in Widths
  PROVE  ADD_Common(a, b, c, w) \in Result /\ SUB_Common(a, b, c, w) \in Result
<1>1. ADD_Common(a, b, c, w) \in Result
  <2> DEFINE u == Cut(a, w) + Cut(b, w) + c
             s == Signed(a, w) + Signed(b, w) + c
  <2>1. u \in Int
    BY CutType
  <2>2. Cut(u, w) \in Int
    BY <2>1, CutType
  <2>3. Sign(u, w) \cup Raise("C", u >= 2^w)
                   \cup Raise("V", s # Signed(s, w)) \in SUBSET Flags
    BY FlagsType
  <2> QED BY <2>2, <2>3 DEF ADD_Common, Result
<1>2. SUB_Common(a, b, c, w) \in Result
  <2> DEFINE u == Cut(a, w) - Cut(b, w) - c
             s == Signed(a, w) - Signed(b, w) - c
  <2>1. u \in Int
    BY CutType
  <2>2. Cut(u, w) \in Int
    BY <2>1, CutType
  <2>3. Sign(u, w) \cup Raise("C", u < 0)
                   \cup Raise("V", s # Signed(s, w)) \in SUBSET Flags
    BY FlagsType
  <2> QED BY <2>2, <2>3 DEF SUB_Common, Result
<1> QED BY <1>1, <1>2

LEMMA ExtendedType ==
  ASSUME NEW a \in Int, NEW b \in Int, NEW flags, NEW w \in Widths
  PROVE  ADDX(a, b, flags, w) \in Result /\ SUBX(a, b, flags, w) \in Result
<1> DEFINE c == IF "C" \in flags THEN 1 ELSE 0
<1>1. c \in {0, 1} /\ {0, 1} \subseteq Int
  BY DEF c
<1> HIDE DEF c
<1>2. ADD_Common(a, b, c, w) \in Result /\ SUB_Common(a, b, c, w) \in Result
  BY <1>1, SumType
<1>3. \A f : \A s \in Result : [s EXCEPT !.flags = IF f THEN @ ELSE @ \ {"Z"}] \in Result
  BY DEF Result
<1> QED BY <1>2, <1>3 DEF ADDX, SUBX, c

LEMMA ShiftType ==
  ASSUME NEW kind \in ShiftKinds, NEW x \in Int, NEW flags, NEW w \in Widths
  PROVE  Shift(kind, x, flags, w) \in Result
<1> DEFINE toLeft == kind \in {"SHAL", "SHLL", "ROTXL", "ROTL"}
           into == Into(kind, x, flags, w)
           y == IF toLeft THEN Cut(2 * x + into, w) ELSE x \div 2 + into * Msb(w)
           out == IF toLeft THEN Bit(x, w - 1) ELSE x % 2
<1>1. w - 1 \in Nat
  BY ByteSize DEF Widths, Wide
<1>2. Bit(x, w - 1) \in Int
  BY <1>1, BitType
<1>3. into \in Int
  BY <1>2 DEF Into, ShiftKinds
<1>4. Msb(w) \in Int
  BY <1>1 DEF Msb
<1>5. y \in Int
  <2> HIDE DEF into
  <2>1. x \div 2 + into * Msb(w) \in Int
    BY <1>3, <1>4
  <2>2. 2 * x + into \in Int
    BY <1>3
  <2>3. Cut(2 * x + into, w) \in Int
    BY <2>2, CutType
  <2> QED BY <2>1, <2>3
<1>6. Sign(y, w) \cup Raise("C", out = 1) \in SUBSET Flags
  BY FlagsType
<1>7. Shift(kind, x, flags, w)
        = [val |-> y, flags |-> Sign(y, w) \cup Raise("C", out = 1)]
  BY DEF Shift
<1> QED BY <1>5, <1>6, <1>7 DEF Result

LEMMA ProductType ==
  ASSUME NEW a \in Int, NEW b \in Int, NEW w \in Widths
  PROVE  MULXU(a, b, w) \in Result
<1> DEFINE p == Cut(a, w) * Cut(b, w)
<1>1. p \in Int
  BY CutType
<1>2. Raise("N", p >= 2^(2 * w - 1)) \cup Raise("Z", p = 0) \in SUBSET Flags
  <2>1. /\ Raise("N", p >= 2^(2 * w - 1)) \subseteq {"N"}
        /\ Raise("Z", p = 0) \subseteq {"Z"}
    BY RaiseType
  <2> QED BY <2>1 DEF Flags
<1> QED BY <1>1, <1>2 DEF MULXU, Result

LEMMA QuotientType ==
  ASSUME NEW n \in Nat, NEW d \in Nat, NEW w \in Widths
  PROVE  LET q == DIVXU(n, d, w)
         IN /\ q.done \in BOOLEAN /\ q.flags \in SUBSET Flags
            /\ q.done => q.quotient \in Int /\ q.remainder \in Int
<1>1. CASE d = 0
  BY <1>1 DEF DIVXU, Flags
<1>2. CASE d # 0
  <2>1. n \div d \in Int /\ n % d \in Int
    BY <1>2
  <2>2. CASE n \div d >= 2^w
    BY <1>2, <2>2 DEF DIVXU, Flags
  <2>3. CASE ~(n \div d >= 2^w)
    BY <1>2, <2>1, <2>3, SignType DEF DIVXU
  <2> QED BY <2>2, <2>3
<1> QED BY <1>1, <1>2

LEMMA LogicType ==
  ASSUME NEW x \in Int, NEW y \in Int
  PROVE  And(x, y) \in Int /\ Or(x, y) \in Int /\ Xor(x, y) \in Int
<1> DEFINE a(k) == Bit(x, k) * Bit(y, k) * 2^k
           o(k) == (Bit(x, k) + Bit(y, k) - Bit(x, k) * Bit(y, k)) * 2^k
           e(k) == ((Bit(x, k) + Bit(y, k)) % 2) * 2^k
<1>1. \A k \in Nat : Bit(x, k) \in Int /\ Bit(y, k) \in Int /\ 2^k \in Int
  BY BitType
<1>2. \A k \in Nat : a(k) \in Int /\ o(k) \in Int /\ e(k) \in Int
  BY <1>1
<1>3. /\ And(x, y) = a(0) + a(1) + a(2) + a(3) + a(4) + a(5) + a(6) + a(7)
           + a(8) + a(9) + a(10) + a(11) + a(12) + a(13) + a(14) + a(15)
      /\ Or(x, y) = o(0) + o(1) + o(2) + o(3) + o(4) + o(5) + o(6) + o(7)
           + o(8) + o(9) + o(10) + o(11) + o(12) + o(13) + o(14) + o(15)
      /\ Xor(x, y) = e(0) + e(1) + e(2) + e(3) + e(4) + e(5) + e(6) + e(7)
           + e(8) + e(9) + e(10) + e(11) + e(12) + e(13) + e(14) + e(15)
  BY Zenon DEF And, Or, Xor, Bitwise
<1> HIDE DEF a, o, e
<1> QED BY <1>2, <1>3

----------------------------------------------------------------------------
(* The machine. *)

Memory == UNION {[S -> Octet] : S \in SUBSET Ram}

Mcu ==
  [r : [0..7 -> Word], pc : Word, cp : Octet, flags : SUBSET Flags, mask : 0..7,
   page : [PageRegs -> Octet], sleep : BOOLEAN, ignore : BOOLEAN,
   trap : SUBSET (0..15), mem : Memory]

LEMMA MemoryIs ==
  /\ \A f \in Memory : /\ DOMAIN f \subseteq Ram
                       /\ \A a \in DOMAIN f : f[a] \in Octet
  /\ \A S \in SUBSET Ram : \A f \in [S -> Octet] : f \in Memory
BY DEF Memory

\* What no instruction but one that writes SR does.
MaskKept(m, n) == n \in Mcu /\ n.mask = m.mask

LEMMA ReadType ==
  ASSUME NEW m \in Mcu, NEW page, NEW a
  PROVE  MCU_Read(m, page, a) \in Octet
<1>1. 2^Byte - 1 \in Octet /\ 0 \in Octet
  BY Sizes DEF Octet
<1>2. m.mem \in Memory
  BY DEF Mcu
<1> QED BY <1>1, <1>2, MemoryIs DEF MCU_Read

LEMMA WriteType ==
  ASSUME NEW m \in Mcu, NEW page, NEW a, NEW x \in Int
  PROVE  MaskKept(m, MCU_Write(m, page, a, x))
<1> DEFINE f == [b \in {a} \cup DOMAIN m.mem |->
                  IF b = a THEN Cut(x, Byte) ELSE m.mem[b]]
<1>1. m.mem \in Memory /\ Cut(x, Byte) \in Octet
  BY CutType DEF Mcu
<1>2. ASSUME a \in Ram
      PROVE  f \in Memory
  <2>1. f \in [{a} \cup DOMAIN m.mem -> Octet]
    BY <1>1, MemoryIs
  <2>2. {a} \cup DOMAIN m.mem \in SUBSET Ram
    BY <1>1, <1>2, MemoryIs
  <2> QED BY <2>1, <2>2, MemoryIs
<1> HIDE DEF f
<1>3. CASE a \in Ram
  BY <1>2, <1>3 DEF MCU_Write, Mcu, MaskKept, f
<1> QED BY <1>3 DEF MCU_Write, MaskKept

LEMMA LoadType ==
  ASSUME NEW m \in Mcu, NEW page, NEW a, NEW w \in Widths
  PROVE  Load(m, page, a, w) \in Word
<1>1. \A b : MCU_Read(m, page, b) \in Octet
  BY ReadType
<1>2. Octet \subseteq Word
  <2>1. 0 \in Octet
    BY Sizes DEF Octet
  <2>2. \A l \in Octet : 0 * 2^Byte + l \in Word /\ 0 * 2^Byte + l = l
    BY <2>1, Halves, Sizes DEF Octet
  <2> QED BY <2>2
<1> QED BY <1>1, <1>2, Halves DEF Load

LEMMA StoreType ==
  ASSUME NEW m \in Mcu, NEW page, NEW a, NEW x \in Int, NEW w
  PROVE  MaskKept(m, Store(m, page, a, x, w))
<1>1. x \div 2^Byte \in Int
  BY Sizes
<1> DEFINE n == MCU_Write(m, page, Even(a), x \div 2^Byte)
<1>2. MaskKept(m, n)
  BY <1>1, WriteType
<1> HIDE DEF n
<1>3. MaskKept(n, MCU_Write(n, page, Even(a) + 1, x))
  BY <1>2, WriteType DEF MaskKept
<1>4. MaskKept(m, MCU_Write(m, page, a, x))
  BY WriteType
<1> QED BY <1>2, <1>3, <1>4 DEF Store, MaskKept, n

LEMMA SetWordType ==
  ASSUME NEW m \in Mcu, NEW k \in 0..7, NEW x \in Int
  PROVE  /\ MaskKept(m, SetWord(m, k, x))
         /\ SetWord(m, k, x).r[k] = Cut(x, Wide)
<1>1. \A y \in Word : LET n == [m EXCEPT !.r[k] = y]
                      IN MaskKept(m, n) /\ n.r[k] = y
  BY DEF Mcu, MaskKept
<1>2. PICK y \in Word : y = Cut(x, Wide)
  BY CutType
<1>3. SetWord(m, k, x) = [m EXCEPT !.r[k] = y]
  BY <1>2, Zenon DEF SetWord
<1> QED BY <1>1, <1>2, <1>3, Zenon

LEMMA RegisterType ==
  ASSUME NEW m \in Mcu, NEW k \in 0..7
  PROVE  m.r[k] \in Word /\ m.r[k] \in Int /\ m.r[k] \in Nat
<1>1. m.r[k] \in Word
  BY DEF Mcu
<1> QED BY <1>1, WordsAreNumbers

LEMMA SetRegType ==
  ASSUME NEW m \in Mcu, NEW k \in 0..7, NEW x \in Int, NEW w
  PROVE  MaskKept(m, SetReg(m, k, x, w))
<1>1. Cut(m.r[k], Byte) \in Int /\ Cut(x, Byte) \in Int /\ m.r[k] \in Int
  <2>1. m.r[k] \in Int
    BY RegisterType
  <2>2. Byte \in Widths
    BY DEF Widths
  <2> QED BY <2>1, <2>2, CutType
<1>2. m.r[k] - Cut(m.r[k], Byte) + Cut(x, Byte) \in Int
  BY <1>1
<1> QED BY <1>2, SetWordType DEF SetReg

LEMMA FlagsKept ==
  ASSUME NEW m \in Mcu, NEW flags \in SUBSET Flags
  PROVE  MaskKept(m, WithFlags(m, flags))
BY DEF WithFlags, Mcu, MaskKept

LEMMA PushType ==
  ASSUME NEW m \in Mcu, NEW x \in Int
  PROVE  MaskKept(m, MCU_PushStack(m, x))
<1> DEFINE n == SetWord(m, 7, m.r[7] - 2)
<1>1. m.r[7] - 2 \in Int
  BY RegisterType
<1>2. MaskKept(m, n)
  BY <1>1, SetWordType
<1> HIDE DEF n
<1>3. n \in Mcu
  BY <1>2 DEF MaskKept
<1>4. \A a : MaskKept(n, Store(n, 0, a, x, Wide))
  BY <1>3, StoreType
<1>5. MCU_PushStack(m, x) = Store(n, 0, n.r[7], x, Wide)
  BY Zenon DEF MCU_PushStack, n
<1> QED BY <1>2, <1>4, <1>5 DEF MaskKept

LEMMA PopType ==
  ASSUME NEW m \in Mcu
  PROVE  Top(m) \in Word /\ Top(m) \in Int /\ MaskKept(m, Drop(m))
<1>1. Top(m) \in Word
  BY LoadType DEF Top, Widths
<1>2. m.r[7] \in Int
  BY RegisterType
<1>3. m.r[7] + 2 \in Int
  BY <1>2
<1>4. MaskKept(m, SetWord(m, 7, m.r[7] + 2))
  BY <1>3, SetWordType
<1>5. Top(m) \in Int
  BY <1>1, WordsAreNumbers
<1>6. Drop(m) = SetWord(m, 7, m.r[7] + 2)
  BY Zenon DEF Drop
<1> QED BY <1>1, <1>4, <1>5, <1>6, Zenon

----------------------------------------------------------------------------
(* SR and the control registers. *)

LEMMA CcrType ==
  ASSUME NEW m \in Mcu
  PROVE  CcrOf(m) \in 0..15 /\ SrOf(m) \in Word /\ SrOf(m) \in Int
<1>1. CcrOf(m) \in 0..15
  BY DEF CcrOf, FlagValue
<1>2. CcrOf(m) \in Octet /\ m.mask \in Octet
  BY <1>1, Sizes DEF Octet, Mcu
<1>3. SrOf(m) \in Word
  BY <1>2, Halves DEF SrOf
<1> QED BY <1>1, <1>3, WordsAreNumbers

LEMMA SetSrType ==
  ASSUME NEW m \in Mcu, NEW x \in Int
  PROVE  SetSr(m, x) \in Mcu /\ SetSr(m, x).mask = (x \div 2^Byte) % 8
<1>1. (x \div 2^Byte) % 8 \in 0..7
  <2>1. x \div 2^Byte \in Int
    BY Sizes
  <2> QED BY <2>1
<1>2. FlagsOf(x) \in SUBSET Flags
  BY DEF FlagsOf
<1> QED BY <1>1, <1>2 DEF SetSr, Mcu

LEMMA PageType ==
  ASSUME NEW m \in Mcu, NEW c \in PageRegs, NEW x \in Int
  PROVE  MaskKept(m, SetPage(m, c, x))
<1>1. Cut(x, Byte) \in Octet
  BY CutType
<1> QED BY <1>1 DEF SetPage, Mcu, MaskKept

ControlRegs == {"sr", "ccr"} \cup PageRegs

LEMMA ControlType ==
  ASSUME NEW m \in Mcu, NEW c \in ControlRegs, NEW w, NEW x \in Int
  PROVE  /\ MCU_ControlRegisterRead(m, c, w) \in Int
         /\ MCU_ControlRegisterWrite(m, c, x) \in Mcu
         /\ c # "sr" => MCU_ControlRegisterWrite(m, c, x).mask = m.mask
<1>1. MCU_ControlRegisterRead(m, c, w) \in Int
  <2>1. ASSUME c \in PageRegs
        PROVE  m.page[c] \in Int /\ m.page[c] * (2^Byte + 1) \in Int
    <3>1. m.page[c] \in Octet
      BY <2>1 DEF Mcu
    <3> QED BY <3>1, Sizes, WordsAreNumbers
  <2>2. SrOf(m) \in Int /\ CcrOf(m) \in Int
    BY CcrType
  <2> QED BY <2>1, <2>2 DEF MCU_ControlRegisterRead, ControlRegs, PageRegs
<1>2. CASE c = "sr"
  <2>1. MCU_ControlRegisterWrite(m, c, x) = SetSr(m, x)
    BY <1>2 DEF MCU_ControlRegisterWrite, PageRegs
  <2> QED BY <1>1, <1>2, <2>1, SetSrType
<1>3. CASE c = "ccr"
  <2>1. MCU_ControlRegisterWrite(m, c, x) = WithFlags(m, FlagsOf(x))
    BY <1>3 DEF MCU_ControlRegisterWrite, PageRegs
  <2>2. FlagsOf(x) \in SUBSET Flags
    BY DEF FlagsOf
  <2> QED BY <1>1, <2>1, <2>2, FlagsKept DEF MaskKept
<1>4. CASE c \in PageRegs
  <2>1. MCU_ControlRegisterWrite(m, c, x) = SetPage(m, c, x)
    BY <1>4 DEF MCU_ControlRegisterWrite, PageRegs
  <2> QED BY <1>1, <1>4, <2>1, PageType DEF MaskKept
<1> QED BY <1>2, <1>3, <1>4 DEF ControlRegs

----------------------------------------------------------------------------
(* The start of a handler. *)

LEMMA LevelsAndVectors ==
  /\ Sources \subseteq Nat
  /\ \A s \in Sources : Level[s] \in 1..7 /\ IrqVector[s] \in Word
  /\ \A t \in 0..8 : TrapVector[t] \in Word
<1>1. Sources = 1..Len(Level) /\ Len(Level) \in Nat
  BY CpuConstants DEF Sources
<1>2. \A s \in 1..Len(Level) : Level[s] \in 1..7
  BY CpuConstants
<1>3. IrqVector \in [Sources -> Word] /\ TrapVector \in [0..8 -> Word]
  BY CpuConstants
<1>4. Sources \subseteq Nat /\ \A s \in Sources : Level[s] \in 1..7
  BY <1>1, <1>2
<1>5. /\ \A s \in Sources : IrqVector[s] \in Word
      /\ \A t \in 0..8 : TrapVector[t] \in Word
  BY <1>3
<1> QED BY <1>4, <1>5, Zenon

Awake == {m \in Mcu : ~m.sleep}

LEMMA VectorType ==
  ASSUME NEW m \in Mcu, NEW at \in Word, NEW level \in 0..7
  PROVE  LET n == MCU_Interrupt_StartVector(m, at, level)
         IN /\ n \in Mcu
            /\ level = 0 => n.mask = m.mask
            /\ level # 0 => n.mask = level
            /\ n \in Awake
<1> DEFINE p == MCU_PushStack(MCU_PushStack(MCU_PushStack(m, m.pc), m.cp), SrOf(m))
<1>1. MaskKept(m, p)
  <2>1. m.pc \in Int /\ m.cp \in Int /\ SrOf(m) \in Int
    BY CcrType, WordsAreNumbers DEF Mcu
  <2> DEFINE a == MCU_PushStack(m, m.pc)
             b == MCU_PushStack(a, m.cp)
  <2>2. MaskKept(m, a)
    BY <2>1, PushType
  <2> HIDE DEF a
  <2>3. MaskKept(a, b)
    BY <2>1, <2>2, PushType DEF MaskKept
  <2> HIDE DEF b
  <2>4. MaskKept(b, MCU_PushStack(b, SrOf(m)))
    BY <2>1, <2>3, PushType DEF MaskKept
  <2> QED BY <2>2, <2>3, <2>4 DEF MaskKept, a, b
<1>2. p \in Mcu /\ p.mask = m.mask
  BY <1>1 DEF MaskKept
<1>3. MCU_Interrupt_StartVector(m, at, level)
        = [p EXCEPT !.mask = IF level = 0 THEN @ ELSE level,
                    !.sleep = FALSE, !.cp = 0, !.pc = at]
  BY Zenon DEF MCU_Interrupt_StartVector
<1> HIDE DEF p
<1>4. 0 \in Octet
  BY Sizes DEF Octet
<1> DEFINE masked == IF level = 0 THEN p.mask ELSE level
<1>5. masked \in 0..7
  BY <1>2 DEF Mcu
<1>6. MCU_Interrupt_StartVector(m, at, level)
        = [p EXCEPT !.mask = masked, !.sleep = FALSE, !.cp = 0, !.pc = at]
  BY <1>3
<1> HIDE DEF masked
<1>7. LET n == [p EXCEPT !.mask = masked, !.sleep = FALSE, !.cp = 0, !.pc = at]
      IN n \in Mcu /\ n.mask = masked /\ n \in Awake
  BY <1>2, <1>4, <1>5 DEF Mcu, Awake
<1> QED BY <1>2, <1>6, <1>7 DEF masked

\* A turn that begins: the machine, and the handler begun, if any.
Beginning == [m : Mcu, begun : {<<>>} \cup {<<b>> : b \in Begun}]

LEMMA BeginType ==
  ASSUME NEW m \in Mcu, NEW at \in Word, NEW level \in 0..7
  PROVE  LET t == BeginHandler(m, at, level)
         IN /\ t \in Beginning
            /\ level = 0 => t.m.mask = m.mask
            /\ level # 0 => t.m.mask = level
            /\ t.m \in Awake
            /\ Len(t.begun) = 1 /\ t.begun[1].level = level
            /\ t.begun[1].sr = SrOf(m)
<1> DEFINE n == MCU_Interrupt_StartVector(m, at, level)
           b == [level |-> level, at |-> n.r[7], sr |-> SrOf(m)]
<1>1. /\ n \in Mcu /\ n \in Awake
      /\ level = 0 => n.mask = m.mask
      /\ level # 0 => n.mask = level
  BY VectorType
<1>2. n.r[7] \in Word /\ SrOf(m) \in Word
  BY <1>1, RegisterType, CcrType
<1>3. b \in Begun
  BY <1>2 DEF Begun
<1>4. BeginHandler(m, at, level) = [m |-> n, begun |-> <<b>>]
  BY DEF BeginHandler
<1>5. b.level = level /\ b.sr = SrOf(m)
  OBVIOUS
<1> HIDE DEF n, b
<1> QED BY <1>1, <1>3, <1>4, <1>5 DEF Beginning

LEMMA MinIs ==
  ASSUME NEW S \in SUBSET Nat, S # {}
  PROVE  Min(S) \in S /\ \A y \in S : Min(S) <= y
<1>1. PICK x \in S : \A y \in S : ~ (<<y, x>> \in OpToRel(<, Nat))
  BY NatLessThanWellFounded, WFMin
<1>2. \A y \in S : x <= y
  <2>1. \A y \in S : <<y, x>> \in Nat \X Nat
    OBVIOUS
  <2>2. \A y \in S : ~ (y < x)
    BY <1>1, <2>1 DEF OpToRel
  <2> QED BY <2>2
<1>3. Min(S) = CHOOSE z \in S : \A y \in S : z <= y
  BY DEF Min
<1> QED BY <1>2, <1>3

\* What the machine's lemmas need of a state.
MachineIs == cpu \in Mcu /\ asked \in SUBSET Sources

LEMMA TurnType ==
  ASSUME MachineIs
  PROVE  /\ NewTurn \in Beginning
         /\ NewTurn.begun # <<>> => NewTurn.m \in Awake
         /\ \/ NewTurn.begun = <<>> /\ NewTurn.m.mask = cpu.mask
            \/ /\ NewTurn.begun[1].level = 0 /\ NewTurn.m.mask = cpu.mask
               /\ NewTurn.begun[1].sr = SrOf(cpu) /\ Len(NewTurn.begun) = 1
            \/ /\ NewTurn.begun[1].level = NewTurn.m.mask
               /\ cpu.mask < NewTurn.m.mask
               /\ NewTurn.begun[1].sr = SrOf(cpu) /\ Len(NewTurn.begun) = 1
<1> DEFINE traps == cpu.trap \cap 0..8
           ready == {s \in asked : cpu.mask < Level[s]}
<1>1. CASE cpu.ignore
  <2> DEFINE n == [cpu EXCEPT !.ignore = FALSE]
  <2>1. n \in Mcu /\ n.mask = cpu.mask
    BY DEF MachineIs, Mcu
  <2>2. NewTurn = [m |-> n, begun |-> <<>>]
    BY <1>1 DEF NewTurn
  <2> HIDE DEF n
  <2> QED BY <2>1, <2>2 DEF Beginning
<1>2. CASE ~cpu.ignore /\ traps # {}
  <2> DEFINE t == Min(traps)
             n == [cpu EXCEPT !.trap = @ \ {t}]
  <2>1. t \in 0..8
    <3>1. traps \in SUBSET Nat
      OBVIOUS
    <3> QED BY <1>2, <3>1, MinIs
  <2>2. n \in Mcu /\ n.mask = cpu.mask /\ SrOf(n) = SrOf(cpu)
    <3> HIDE DEF t
    <3>1. n \in Mcu /\ n.mask = cpu.mask /\ n.flags = cpu.flags
      BY DEF MachineIs, Mcu
    <3> HIDE DEF n
    <3> QED BY <3>1 DEF SrOf, CcrOf
  <2>3. NewTurn = BeginHandler(n, TrapVector[t], 0)
    BY <1>2, Zenon DEF NewTurn, MCU_Interrupt_Handle
  <2> HIDE DEF n, t
  <2>4. TrapVector[t] \in Word /\ 0 \in 0..7
    BY <2>1, LevelsAndVectors
  <2> DEFINE u == BeginHandler(n, TrapVector[t], 0)
  <2>5. u \in Beginning /\ u.m.mask = n.mask /\ u.m \in Awake
        /\ Len(u.begun) = 1 /\ u.begun[1].level = 0 /\ u.begun[1].sr = SrOf(n)
    <3> DEFINE at == TrapVector[t]
    <3>1. n \in Mcu /\ at \in Word /\ 0 \in 0..7
      BY <2>2, <2>4
    <3> HIDE DEF at
    <3>2. LET v == BeginHandler(n, at, 0)
          IN /\ v \in Beginning /\ v.m.mask = n.mask /\ v.m \in Awake
             /\ Len(v.begun) = 1 /\ v.begun[1].level = 0
             /\ v.begun[1].sr = SrOf(n)
      BY <3>1, BeginType, Zenon
    <3> QED BY <3>2, Zenon DEF at
  <2>6. u = NewTurn
    BY <2>3
  <2> HIDE DEF u
  <2> QED BY <2>2, <2>5, <2>6, Zenon
<1>3. CASE ~cpu.ignore /\ traps = {} /\ ready # {}
  <2> DEFINE s == Min(ready)
  <2>1. s \in Sources /\ cpu.mask < Level[s]
    <3>1. ready \in SUBSET Nat
      BY LevelsAndVectors DEF MachineIs
    <3>2. s \in ready
      BY <1>3, <3>1, MinIs
    <3> QED BY <3>2 DEF MachineIs
  <2>2. NewTurn = BeginHandler(cpu, IrqVector[s], Level[s])
    BY <1>3, Zenon DEF NewTurn, MCU_Interrupt_Handle
  <2> HIDE DEF s
  <2>3. IrqVector[s] \in Word /\ Level[s] \in 1..7
    BY <2>1, LevelsAndVectors
  <2>4. Level[s] \in 0..7 /\ Level[s] # 0
    BY <2>3
  <2>5. NewTurn.m \in Awake
    BY <2>2, <2>3, <2>4, BeginType, Zenon DEF MachineIs
  <2>6. NewTurn \in Beginning /\ NewTurn.m.mask = Level[s]
        /\ Len(NewTurn.begun) = 1 /\ NewTurn.begun[1].level = Level[s]
        /\ NewTurn.begun[1].sr = SrOf(cpu)
    BY <2>2, <2>3, <2>4, BeginType, Zenon DEF MachineIs
  <2> QED BY <2>1, <2>5, <2>6, Zenon
<1>4. CASE ~cpu.ignore /\ traps = {} /\ ready = {}
  <2>1. NewTurn = [m |-> cpu, begun |-> <<>>]
    BY <1>4, Zenon DEF NewTurn, MCU_Interrupt_Handle
  <2> QED BY <2>1 DEF MachineIs, Beginning
<1> QED BY <1>1, <1>2, <1>3, <1>4

----------------------------------------------------------------------------
(* Operands. *)

LEMMA OperandIs ==
  ASSUME NEW at \in Operand
  PROVE  /\ at.k \in 0..7
         /\ at.t \in {"Reg", "Dec", "Inc", "Disp", "Short", "Abs", "Imm"}
         /\ at.t # "Reg" => at.n \in Int
         /\ at.t = "Imm" => at.n \in Word
BY WordsAreNumbers DEF Operand

\* Where an operand is: in a register, in memory or in the instruction.
IsPlace(m, g) ==
  /\ g.m \in Mcu /\ g.m.mask = m.mask
  /\ g.t \in {"R", "M", "I"}
  /\ g.t = "R" => g.a \in 0..7
  /\ g.t = "I" => g.a \in Word
  /\ g.a \in Int

LEMMA PlaceType ==
  ASSUME NEW m \in Mcu, NEW i, i.at \in Operand, i.w \in Widths
  PROVE  LET g == MCU_Operand_General(m, i)
         IN /\ IsPlace(m, g)
            /\ g.t = "R" <=> i.at.t = "Reg"
            /\ g.t = "I" <=> i.at.t = "Imm"
<1> DEFINE at == i.at
           step == IF i.w = Wide \/ at.k = 7 THEN 2 ELSE 1
           before == IF at.t = "Dec" THEN SetWord(m, at.k, m.r[at.k] - step) ELSE m
           after == IF at.t = "Inc" THEN SetWord(m, at.k, m.r[at.k] + step)
                    ELSE before
           g == MCU_Operand_General(m, i)
<1>1. at.k \in 0..7 /\ m.r[at.k] \in Int /\ step \in Int
  BY OperandIs, RegisterType
<1>2. before \in Mcu /\ before.mask = m.mask
  <2>1. m.r[at.k] - step \in Int
    BY <1>1
  <2> HIDE DEF step, at
  <2> QED BY <1>1, <2>1, SetWordType DEF MaskKept
<1>3. after \in Mcu /\ after.mask = m.mask
  <2>1. m.r[at.k] + step \in Int
    BY <1>1
  <2> HIDE DEF step, at, before
  <2> QED BY <1>1, <1>2, <2>1, SetWordType DEF MaskKept
<1>4. before.r[at.k] \in Int
  <2> HIDE DEF before
  <2> QED BY <1>1, <1>2, RegisterType
<1>5. CASE at.t \in {"Dec", "Inc", "Disp"}
  <2>1. g = [m |-> after, t |-> "M", page |-> PageOf(m, at.k),
             a |-> Cut(before.r[at.k] + at.n, Wide)]
    BY <1>5, Zenon DEF MCU_Operand_General
  <2>2. before.r[at.k] + at.n \in Int
    <3>1. at.n \in Int
      BY <1>5, OperandIs
    <3> HIDE DEF before
    <3> QED BY <1>4, <3>1
  <2> HIDE DEF before, after, g, at
  <2>3. Cut(before.r[at.k] + at.n, Wide) \in Int
    BY <2>2, CutType DEF Widths
  <2> QED BY <1>3, <1>5, <2>1, <2>3 DEF at, g, IsPlace
<1>6. CASE at.t = "Short"
  <2>1. g = [m |-> m, t |-> "M", page |-> 0, a |-> m.page["br"] * 2^Byte + at.n]
    BY <1>6, Zenon DEF MCU_Operand_General
  <2>2. m.page["br"] * 2^Byte + at.n \in Int
    <3>1. m.page["br"] \in Int
      BY WordsAreNumbers DEF Mcu, PageRegs
    <3>2. at.n \in Int
      BY <1>6, OperandIs
    <3> HIDE DEF at
    <3> QED BY <3>1, <3>2, Sizes
  <2> QED BY <1>6, <2>1, <2>2 DEF IsPlace
<1>7. CASE at.t = "Abs"
  <2>1. g = [m |-> m, t |-> "M", page |-> m.page["dp"], a |-> at.n]
    BY <1>7, Zenon DEF MCU_Operand_General
  <2> QED BY <1>7, <2>1, OperandIs DEF IsPlace
<1>8. CASE at.t = "Reg"
  <2>1. g = [m |-> m, t |-> "R", a |-> at.k]
    BY <1>8, Zenon DEF MCU_Operand_General
  <2> QED BY <1>1, <1>8, <2>1 DEF IsPlace
<1>9. CASE at.t = "Imm"
  <2>1. g = [m |-> m, t |-> "I", a |-> at.n]
    BY <1>9, Zenon DEF MCU_Operand_General
  <2> QED BY <1>9, <2>1, OperandIs DEF IsPlace
<1> QED BY <1>5, <1>6, <1>7, <1>8, <1>9, OperandIs

LEMMA OperandReadType ==
  ASSUME NEW m, NEW g, IsPlace(m, g), NEW w \in Widths
  PROVE  LET x == MCU_Operand_Read(g, w)
         IN x \in Word /\ x \in Nat /\ x \in Int
<1>1. CASE g.t = "R"
  <2>1. MCU_Operand_Read(g, w) = Cut(g.m.r[g.a], w)
    BY <1>1, Zenon DEF MCU_Operand_Read
  <2>2. g.m.r[g.a] \in Int
    BY <1>1, RegisterType DEF IsPlace
  <2>3. \A x \in Octet : x \in Word
    BY Sizes DEF Octet, Word
  <2>4. \A x \in Int : Cut(x, w) \in Word
    BY <2>3, CutType DEF Widths
  <2> QED BY <2>1, <2>2, <2>4, WordsAreNumbers
<1>2. CASE g.t = "M"
  <2>1. MCU_Operand_Read(g, w) = Load(g.m, g.page, g.a, w)
    BY <1>2, Zenon DEF MCU_Operand_Read
  <2>2. g.m \in Mcu
    BY DEF IsPlace
  <2> QED BY <2>1, <2>2, LoadType, WordsAreNumbers
<1>3. CASE g.t = "I"
  <2>1. MCU_Operand_Read(g, w) = g.a
    BY <1>3, Zenon DEF MCU_Operand_Read
  <2> QED BY <1>3, <2>1, WordsAreNumbers DEF IsPlace
<1> QED BY <1>1, <1>2, <1>3 DEF IsPlace

LEMMA OperandWriteType ==
  ASSUME NEW m, NEW g, IsPlace(m, g), g.t # "I", NEW x \in Int, NEW w \in Widths
  PROVE  MaskKept(m, MCU_Operand_Write(g, x, w))
<1>1. g.m \in Mcu /\ g.m.mask = m.mask
  BY DEF IsPlace
<1>2. CASE g.t = "R"
  <2>1. MCU_Operand_Write(g, x, w) = SetReg(g.m, g.a, x, w)
    BY <1>2, Zenon DEF MCU_Operand_Write
  <2> QED BY <1>1, <1>2, <2>1, SetRegType DEF IsPlace, MaskKept
<1>3. CASE g.t = "M"
  <2>1. MCU_Operand_Write(g, x, w) = Store(g.m, g.page, g.a, Cut(x, w), w)
    BY <1>3, Zenon DEF MCU_Operand_Write
  <2>2. Cut(x, w) \in Int
    BY CutType
  <2> QED BY <1>1, <2>1, <2>2, StoreType DEF MaskKept
<1> QED BY <1>2, <1>3 DEF IsPlace

----------------------------------------------------------------------------
(* The instructions with a general operand. *)

LEMMA KeepsTwice ==
  ASSUME NEW m, NEW n, MaskKept(m, n), NEW k, MaskKept(n, k)
  PROVE  MaskKept(m, k)
BY DEF MaskKept

LEMMA PlaceKeeps ==
  ASSUME NEW m, NEW g, IsPlace(m, g)
  PROVE  MaskKept(m, g.m) /\ g.m \in Mcu
BY DEF IsPlace, MaskKept

\* Flags are set last.
LEMMA FlagsAfter ==
  ASSUME NEW m, NEW n, MaskKept(m, n), NEW flags \in SUBSET Flags
  PROVE  MaskKept(m, WithFlags(n, flags))
<1>1. n \in Mcu /\ n.mask = m.mask
  BY DEF MaskKept
<1> QED BY <1>1, FlagsKept DEF MaskKept

\* A register is set in the machine of the operand.
LEMMA RegisterAfter ==
  ASSUME NEW m, NEW n, MaskKept(m, n), NEW k \in 0..7, NEW x \in Int
  PROVE  MaskKept(m, SetWord(n, k, x)) /\ \A w : MaskKept(m, SetReg(n, k, x, w))
<1>1. n \in Mcu /\ n.mask = m.mask
  BY DEF MaskKept
<1>2. MaskKept(n, SetWord(n, k, x))
  BY <1>1, SetWordType
<1>3. \A w : MaskKept(n, SetReg(n, k, x, w))
  BY <1>1, SetRegType
<1> QED BY <1>2, <1>3, KeepsTwice

LEMMA AddSubType ==
  ASSUME NEW m, NEW g, IsPlace(m, g), NEW i, i.op \in AddSubOps,
         i.w \in Widths, i.r \in 0..7
  PROVE  MaskKept(m, AddSub(g, i))
<1> DEFINE a == g.m.r[i.r]
           b == MCU_Operand_Read(g, i.w)
           s == CASE i.op = "ADD" -> ADD_Common(a, b, 0, i.w)
                  [] i.op = "ADDX" -> ADDX(a, b, g.m.flags, i.w)
                  [] i.op \in {"SUB", "CMP"} -> SUB_Common(a, b, 0, i.w)
                  [] i.op = "SUBX" -> SUBX(a, b, g.m.flags, i.w)
           n == IF i.op = "CMP" THEN g.m ELSE SetReg(g.m, i.r, s.val, i.w)
<1>1. AddSub(g, i) = WithFlags(n, s.flags)
  BY Zenon DEF AddSub
<1>2. a \in Int /\ b \in Int
  BY PlaceKeeps, RegisterType, OperandReadType
<1>3. s \in Result
  <2> HIDE DEF a, b
  <2>1. ADD_Common(a, b, 0, i.w) \in Result /\ SUB_Common(a, b, 0, i.w) \in Result
    BY <1>2, SumType
  <2>2. /\ ADDX(a, b, g.m.flags, i.w) \in Result
        /\ SUBX(a, b, g.m.flags, i.w) \in Result
    BY <1>2, ExtendedType
  <2> QED BY <2>1, <2>2, Zenon DEF AddSubOps
<1> HIDE DEF s
<1>4. MaskKept(m, n)
  <2>1. s.val \in Int
    BY <1>3 DEF Result
  <2> QED BY <2>1, PlaceKeeps, RegisterAfter
<1>5. s.flags \in SUBSET Flags
  BY <1>3 DEF Result
<1> HIDE DEF n
<1> QED BY <1>1, <1>4, <1>5, FlagsAfter

LEMMA AddsType ==
  ASSUME NEW m, NEW g, IsPlace(m, g), NEW i, i.w \in Widths, i.r \in 0..7
  PROVE  MaskKept(m, ADDS_SUBS(g, i))
<1> DEFINE b == MCU_Operand_Read(g, i.w)
           d == IF i.w = Wide THEN b ELSE Signed(b, Byte)
           x == IF i.op = "ADDS" THEN g.m.r[i.r] + d ELSE g.m.r[i.r] - d
<1>1. b \in Int
  BY OperandReadType
<1>2. d \in Int
  <2> HIDE DEF b
  <2> QED BY <1>1, CutType DEF Widths
<1>3. g.m.r[i.r] \in Int
  BY PlaceKeeps, RegisterType
<1>4. x \in Int
  <2> HIDE DEF d
  <2> QED BY <1>2, <1>3
<1>5. ADDS_SUBS(g, i) = SetWord(g.m, i.r, x)
  BY Zenon DEF ADDS_SUBS
<1> HIDE DEF x
<1> QED BY <1>4, <1>5, PlaceKeeps, RegisterAfter

LEMMA AddqType ==
  ASSUME NEW m, NEW g, IsPlace(m, g), g.t # "I", NEW i, i.w \in Widths,
         i.n \in Int
  PROVE  MaskKept(m, ADDQ(g, i))
<1> DEFINE s == ADD_Common(MCU_Operand_Read(g, i.w), i.n, 0, i.w)
<1>1. s \in Result
  BY OperandReadType, SumType
<1>2. ADDQ(g, i) = WithFlags(MCU_Operand_Write(g, s.val, i.w), s.flags)
  BY Zenon DEF ADDQ
<1> HIDE DEF s
<1>3. s.val \in Int /\ s.flags \in SUBSET Flags
  BY <1>1 DEF Result
<1>4. MaskKept(m, MCU_Operand_Write(g, s.val, i.w))
  BY <1>3, OperandWriteType
<1> QED BY <1>2, <1>3, <1>4, FlagsAfter

\* A result written to the operand.
LEMMA WrittenAfter ==
  ASSUME NEW m, NEW g, IsPlace(m, g), g.t # "I", NEW x \in Int, NEW w \in Widths,
         NEW flags \in SUBSET Flags
  PROVE  MaskKept(m, WithFlags(MCU_Operand_Write(g, x, w), flags))
<1>1. MaskKept(m, MCU_Operand_Write(g, x, w))
  BY OperandWriteType
<1> QED BY <1>1, FlagsAfter

LEMMA UnaryType ==
  ASSUME NEW m, NEW g, IsPlace(m, g), NEW i, i.op \in UnaryOps, i.w \in Widths,
         i.op # "TST" => g.t # "I",
         i.op \in {"EXTU", "EXTS", "SWAP"} => g.t = "R"
  PROVE  MaskKept(m, Unary(g, i))
<1> DEFINE x == MCU_Operand_Read(g, i.w)
           whole == g.m.r[g.a]
           common(y, w) == SetStatusCommon(y, w, g.m.flags)
<1>1. x \in Int
  BY OperandReadType
<1>2. \A y, w : common(y, w) \in SUBSET Flags
  BY StatusType
<1>3. MaskKept(m, g.m) /\ g.m \in Mcu
  BY PlaceKeeps
<1>4. ASSUME g.t = "R" PROVE g.a \in 0..7 /\ whole \in Int
  BY <1>3, <1>4, RegisterType DEF IsPlace
<1>5. CASE i.op = "CLR"
  <2>1. Unary(g, i) = WithFlags(MCU_Operand_Write(g, 0, i.w), {"Z"})
    BY <1>5, Zenon DEF Unary
  <2>2. {"Z"} \in SUBSET Flags
    BY DEF Flags
  <2> QED BY <1>5, <2>1, <2>2, WrittenAfter
<1>6. CASE i.op = "TST"
  <2>1. Unary(g, i) = WithFlags(g.m, Sign(x, i.w))
    BY <1>6, Zenon DEF Unary
  <2> HIDE DEF x
  <2> QED BY <1>3, <2>1, SignType, FlagsAfter
<1>7. CASE i.op = "NOT"
  <2> DEFINE y == 2^i.w - 1 - x
  <2>1. Unary(g, i) = WithFlags(MCU_Operand_Write(g, y, i.w), common(y, i.w))
    BY <1>7, Zenon DEF Unary
  <2>2. y \in Int
    <3>1. 2^i.w \in Int
      BY Sizes DEF Widths
    <3> HIDE DEF x
    <3> QED BY <1>1, <3>1
  <2> HIDE DEF y, common
  <2> QED BY <1>2, <1>7, <2>1, <2>2, WrittenAfter
<1>8. CASE i.op = "NEG"
  <2> DEFINE s == SUB_Common(0, x, 0, i.w)
  <2>1. Unary(g, i) = WithFlags(MCU_Operand_Write(g, s.val, i.w), s.flags)
    BY <1>8, Zenon DEF Unary
  <2> HIDE DEF x
  <2>2. s \in Result
    BY <1>1, SumType
  <2> HIDE DEF s
  <2>3. s.val \in Int /\ s.flags \in SUBSET Flags
    BY <2>2 DEF Result
  <2> QED BY <1>8, <2>1, <2>3, WrittenAfter
<1>9. CASE i.op = "EXTU"
  <2>1. Unary(g, i) = WithFlags(SetWord(g.m, g.a, x), Raise("Z", x = 0))
    BY <1>9, Zenon DEF Unary
  <2> HIDE DEF x
  <2>2. Raise("Z", x = 0) \in SUBSET Flags
    BY RaiseType DEF Flags
  <2>3. MaskKept(m, SetWord(g.m, g.a, x))
    BY <1>1, <1>3, <1>4, <1>9, RegisterAfter
  <2> QED BY <2>1, <2>2, <2>3, FlagsAfter
<1>10. CASE i.op = "EXTS"
  <2>1. Unary(g, i)
          = WithFlags(SetWord(g.m, g.a, Signed(x, Byte)), common(whole, Wide))
    BY <1>10, Zenon DEF Unary
  <2> HIDE DEF x, common
  <2>2. Signed(x, Byte) \in Int
    BY <1>1, CutType DEF Widths
  <2>3. MaskKept(m, SetWord(g.m, g.a, Signed(x, Byte)))
    BY <1>3, <1>4, <1>10, <2>2, RegisterAfter
  <2> QED BY <1>2, <2>1, <2>3, FlagsAfter
<1>11. CASE i.op = "SWAP"
  <2> DEFINE y == (x * 2^Byte) + (whole \div 2^Byte)
  <2>1. Unary(g, i) = WithFlags(SetWord(g.m, g.a, y), common(y, Wide))
    BY <1>11, Zenon DEF Unary
  <2>2. y \in Int
    <3> HIDE DEF x, whole
    <3> QED BY <1>1, <1>4, <1>11, Sizes
  <2> HIDE DEF y, common
  <2>3. MaskKept(m, SetWord(g.m, g.a, y))
    BY <1>3, <1>4, <1>11, <2>2, RegisterAfter
  <2> QED BY <1>2, <2>1, <2>3, FlagsAfter
<1> QED BY <1>5, <1>6, <1>7, <1>8, <1>9, <1>10, <1>11 DEF UnaryOps

LEMMA LogicOpType ==
  ASSUME NEW m, NEW g, IsPlace(m, g), NEW i, i.op \in LogicOps, i.w \in Widths,
         i.r \in 0..7
  PROVE  MaskKept(m, Logic(g, i))
<1> DEFINE a == g.m.r[i.r]
           b == MCU_Operand_Read(g, i.w)
           y == CASE i.op = "AND" -> And(a, b) [] i.op = "OR" -> Or(a, b)
                  [] i.op = "XOR" -> Xor(a, b)
           n == SetReg(g.m, i.r, y, i.w)
<1>1. a \in Int /\ b \in Int
  BY PlaceKeeps, RegisterType, OperandReadType
<1>2. And(a, b) \in Int /\ Or(a, b) \in Int /\ Xor(a, b) \in Int
  <2> HIDE DEF a, b
  <2> QED BY <1>1, LogicType
<1>3. y \in Int
  <2> HIDE DEF a, b
  <2> QED BY <1>2, Zenon DEF LogicOps
<1>4. Logic(g, i) = WithFlags(n, SetStatusCommon(n.r[i.r], i.w, g.m.flags))
  BY Zenon DEF Logic
<1> HIDE DEF y
<1>5. MaskKept(m, n)
  BY <1>3, PlaceKeeps, RegisterAfter
<1> HIDE DEF n
<1>6. SetStatusCommon(n.r[i.r], i.w, g.m.flags) \in SUBSET Flags
  BY StatusType
<1> QED BY <1>4, <1>5, <1>6, FlagsAfter

LEMMA ShiftOpType ==
  ASSUME NEW m, NEW g, IsPlace(m, g), g.t # "I", NEW i, i.op \in ShiftKinds,
         i.w \in Widths
  PROVE  MaskKept(m, ShiftOp(g, i))
<1> DEFINE s == Shift(i.op, MCU_Operand_Read(g, i.w), g.m.flags, i.w)
<1>1. s \in Result
  BY OperandReadType, ShiftType
<1>2. ShiftOp(g, i) = WithFlags(MCU_Operand_Write(g, s.val, i.w), s.flags)
  BY Zenon DEF ShiftOp
<1> HIDE DEF s
<1>3. s.val \in Int /\ s.flags \in SUBSET Flags
  BY <1>1 DEF Result
<1> QED BY <1>2, <1>3, WrittenAfter

LEMMA BitOpType ==
  ASSUME NEW m, NEW g, IsPlace(m, g), NEW i, i.op \in BitOps \cup BitRegOps,
         i.w \in Widths, i.op \notin {"BTST", "BTSTR"} => g.t # "I",
         i.op \in BitOps => i.n \in Nat, i.op \in BitRegOps => i.r \in 0..7
  PROVE  MaskKept(m, BitOp(g, i))
<1> DEFINE x == MCU_Operand_Read(g, i.w)
           k == BitNumber(g, i)
           n == IF i.op \in {"BTST", "BTSTR"} THEN g.m
                ELSE MCU_Operand_Write(g, WithBit(i.op, x, k), i.w)
<1>1. x \in Int
  BY OperandReadType
<1>2. k \in Nat
  <2>1. CASE i.op \in BitRegOps
    <3>1. k = g.m.r[i.r] % Wide
      BY <2>1, Zenon DEF BitNumber, BitRegOps
    <3>2. g.m.r[i.r] \in Nat
      BY <2>1, PlaceKeeps, RegisterType
    <3>3. Wide \in Nat /\ Wide > 0
      BY ByteSize DEF Wide
    <3> HIDE DEF k
    <3> QED BY <3>1, <3>2, <3>3
  <2>2. CASE i.op \in BitOps
    <3>1. k = i.n
      BY <2>2, Zenon DEF BitNumber, BitOps
    <3> QED BY <2>2, <3>1
  <2> QED BY <2>1, <2>2
<1> HIDE DEF x, k
<1>3. ASSUME i.op \notin {"BTST", "BTSTR"}
      PROVE  WithBit(i.op, x, k) \in Int
  <2>1. Bit(x, k) \in Int /\ 2^k \in Int
    BY <1>1, <1>2, BitType
  <2> QED BY <1>1, <1>3, <2>1 DEF WithBit, BitOps, BitRegOps
<1>4. BitOp(g, i) = WithFlags(n, (n.flags \ {"Z"}) \cup Raise("Z", Bit(x, k) = 0))
  BY Zenon DEF BitOp, x, k
<1>5. MaskKept(m, n)
  BY <1>3, PlaceKeeps, OperandWriteType
<1> HIDE DEF n
<1>6. (n.flags \ {"Z"}) \cup Raise("Z", Bit(x, k) = 0) \in SUBSET Flags
  <2>1. n.flags \subseteq Flags
    BY <1>5 DEF MaskKept, Mcu
  <2>2. Raise("Z", Bit(x, k) = 0) \subseteq {"Z"}
    BY RaiseType
  <2> QED BY <2>1, <2>2 DEF Flags
<1> QED BY <1>4, <1>5, <1>6, FlagsAfter

LEMMA PairIs ==
  /\ \A k \in 0..7 : Even(k) \in 0..7 /\ Even(k) + 1 \in 0..7
  /\ \A k \in 0..6 : k + 1 \in 0..7
BY DEF Even

LEMMA SetPairType ==
  ASSUME NEW m, NEW n, MaskKept(m, n), NEW k \in 0..7, NEW hi \in Int, NEW lo \in Int
  PROVE  MaskKept(m, SetPair(n, k, hi, lo))
<1> DEFINE h == SetWord(n, Even(k), hi)
           j == Even(k) + 1
<1>1. Even(k) \in 0..7 /\ j \in 0..7
  BY PairIs
<1>2. SetPair(n, k, hi, lo) = SetWord(h, j, lo)
  BY Zenon DEF SetPair
<1> HIDE DEF j
<1>3. MaskKept(m, h)
  BY <1>1, RegisterAfter
<1> HIDE DEF h
<1>4. MaskKept(m, SetWord(h, j, lo))
  BY <1>1, <1>3, RegisterAfter
<1> QED BY <1>2, <1>4, Zenon

LEMMA MultiplyType ==
  ASSUME NEW m, NEW g, IsPlace(m, g), NEW i, i.w \in Widths, i.r \in 0..7
  PROVE  MaskKept(m, Multiply(g, i))
<1> DEFINE p == MULXU(MCU_Operand_Read(g, i.w), g.m.r[i.r], i.w)
           n == IF i.w = Wide THEN SetPair(g.m, i.r, p.val \div 2^Wide, p.val)
                ELSE SetWord(g.m, i.r, p.val)
<1>1. p \in Result
  BY OperandReadType, PlaceKeeps, RegisterType, ProductType
<1>2. Multiply(g, i) = WithFlags(n, p.flags)
  BY Zenon DEF Multiply
<1> HIDE DEF p
<1>3. p.val \in Int /\ p.flags \in SUBSET Flags
  BY <1>1 DEF Result
<1>4. p.val \div 2^Wide \in Int
  BY <1>3, Sizes
<1>5. MaskKept(m, n)
  BY <1>3, <1>4, PlaceKeeps, SetPairType, RegisterAfter
<1> HIDE DEF n
<1> QED BY <1>2, <1>3, <1>5, FlagsAfter

LEMMA DivideType ==
  ASSUME NEW m, NEW g, IsPlace(m, g), NEW i, i.w \in Widths, i.r \in 0..7
  PROVE  MaskKept(m, Divide(g, i))
<1> DEFINE d == MCU_Operand_Read(g, i.w)
           u == IF i.w = Wide THEN Pair(g.m, i.r) ELSE g.m.r[i.r]
           q == DIVXU(u, d, i.w)
           low == (q.remainder * 2^Byte) + q.quotient
           n == IF ~q.done THEN g.m
                ELSE IF i.w = Wide THEN SetPair(g.m, i.r, q.remainder, q.quotient)
                ELSE SetWord(g.m, i.r, low)
<1>1. d \in Nat
  BY OperandReadType
<1>2. u \in Nat
  <2>1. Even(i.r) \in 0..7 /\ Even(i.r) + 1 \in 0..7
    BY PairIs
  <2>2. /\ g.m.r[Even(i.r)] \in Nat /\ g.m.r[Even(i.r) + 1] \in Nat
        /\ g.m.r[i.r] \in Nat
    BY <2>1, PlaceKeeps, RegisterType
  <2>3. Pair(g.m, i.r) \in Nat
    BY <2>2, Sizes DEF Pair
  <2> QED BY <2>2, <2>3
<1>3. Divide(g, i) = WithFlags(n, q.flags)
  BY Zenon DEF Divide
<1> HIDE DEF d, u
<1>4. /\ q.done \in BOOLEAN /\ q.flags \in SUBSET Flags
      /\ q.done => q.quotient \in Int /\ q.remainder \in Int
  BY <1>1, <1>2, QuotientType
<1> HIDE DEF q
<1>5. q.done => low \in Int
  BY <1>4, Sizes
<1> HIDE DEF low
<1>6. MaskKept(m, n)
  BY <1>4, <1>5, PlaceKeeps, SetPairType, RegisterAfter
<1> HIDE DEF n
<1> QED BY <1>3, <1>4, <1>6, FlagsAfter

LEMMA CommonType ==
  ASSUME NEW m, NEW g, NEW n, MaskKept(m, n), NEW y, NEW w
  PROVE  MaskKept(m, Common(g, n, y, w))
<1>1. SetStatusCommon(y, w, g.m.flags) \in SUBSET Flags
  BY StatusType
<1> QED BY <1>1, FlagsAfter DEF Common

LEMMA MoveType ==
  ASSUME NEW m, NEW g, IsPlace(m, g), NEW i, i.op \in {"LD", "ST", "XCH"},
         i.w \in Widths, i.r \in 0..7,
         i.op = "ST" => g.t # "I", i.op = "XCH" => g.t = "R"
  PROVE  MaskKept(m, Move(g, i))
<1> DEFINE x == MCU_Operand_Read(g, i.w)
           y == g.m.r[i.r]
<1>1. x \in Int /\ y \in Int
  BY PlaceKeeps, RegisterType, OperandReadType
<1>2. CASE i.op = "LD"
  <2>1. Move(g, i) = Common(g, SetReg(g.m, i.r, x, i.w), x, i.w)
    BY <1>2, Zenon DEF Move
  <2> HIDE DEF x
  <2>2. MaskKept(m, SetReg(g.m, i.r, x, i.w))
    BY <1>1, PlaceKeeps, RegisterAfter
  <2> QED BY <2>1, <2>2, CommonType
<1>3. CASE i.op = "ST"
  <2>1. Move(g, i) = Common(g, MCU_Operand_Write(g, y, i.w), y, i.w)
    BY <1>3, Zenon DEF Move
  <2> HIDE DEF y
  <2>2. MaskKept(m, MCU_Operand_Write(g, y, i.w))
    BY <1>1, <1>3, OperandWriteType
  <2> QED BY <2>1, <2>2, CommonType
<1>4. CASE i.op = "XCH"
  <2> DEFINE n == SetWord(g.m, i.r, g.m.r[g.a])
  <2>1. Move(g, i) = SetWord(n, g.a, y)
    BY <1>4, Zenon DEF Move
  <2>2. g.a \in 0..7
    BY <1>4 DEF IsPlace
  <2>3. g.m.r[g.a] \in Int
    BY <2>2, PlaceKeeps, RegisterType
  <2>4. MaskKept(m, n)
    BY <2>3, PlaceKeeps, RegisterAfter
  <2> HIDE DEF n, y
  <2> QED BY <1>1, <2>1, <2>2, <2>4, RegisterAfter
<1> QED BY <1>2, <1>3, <1>4

LEMMA ImmediateType ==
  ASSUME NEW m, NEW g, IsPlace(m, g), NEW i, i.op \in {"STI", "CMPI"},
         i.w \in Widths, i.n \in Int, i.op = "STI" => g.t # "I"
  PROVE  MaskKept(m, MOVG_Immediate(g, i))
<1>1. CASE i.op = "STI"
  <2>1. MOVG_Immediate(g, i) = Common(g, MCU_Operand_Write(g, i.n, i.w), i.n, i.w)
    BY <1>1, Zenon DEF MOVG_Immediate
  <2>2. MaskKept(m, MCU_Operand_Write(g, i.n, i.w))
    BY <1>1, OperandWriteType
  <2> QED BY <2>1, <2>2, CommonType
<1>2. CASE i.op = "CMPI"
  <2> DEFINE s == SUB_Common(MCU_Operand_Read(g, i.w), i.n, 0, i.w)
  <2>1. MOVG_Immediate(g, i) = WithFlags(g.m, s.flags)
    BY <1>2, Zenon DEF MOVG_Immediate
  <2>2. s \in Result
    BY OperandReadType, SumType
  <2> HIDE DEF s
  <2>3. s.flags \in SUBSET Flags
    BY <2>2 DEF Result
  <2> QED BY <2>1, <2>3, PlaceKeeps, FlagsAfter
<1> QED BY <1>1, <1>2

LEMMA FrameType ==
  ASSUME NEW m, NEW g, IsPlace(m, g), NEW i, i.op \in {"LDF", "STF"},
         i.w \in Widths, i.r \in 0..7
  PROVE  MaskKept(m, Frame(g, i))
<1> DEFINE other == IF i.w = Wide THEN Byte ELSE Wide
           old == g.m.r[i.r]
           x == Load(g.m, g.page, g.a, i.w)
           y == Cut(old, other)
           z == IF i.w = Wide THEN Or(old - Cut(old, Byte), x) ELSE x
           n == IF i.op = "LDF" THEN SetWord(g.m, i.r, z)
                ELSE Store(g.m, g.page, g.a, y, other)
<1>1. Frame(g, i) = Common(g, n, IF i.op = "LDF" THEN x ELSE y, other)
  BY Zenon DEF Frame
<1>2. old \in Int /\ g.m \in Mcu
  BY PlaceKeeps, RegisterType
<1>3. x \in Int
  <2>1. x \in Word
    BY <1>2, LoadType
  <2> HIDE DEF x
  <2> QED BY <2>1, WordsAreNumbers
<1>4. other \in Widths
  BY DEF Widths
<1> HIDE DEF other, old, x
<1>5. y \in Int
  BY <1>2, <1>4, CutType
<1>6. z \in Int
  <2>1. Cut(old, Byte) \in Int
    BY <1>2, CutType DEF Widths
  <2>2. old - Cut(old, Byte) \in Int
    BY <1>2, <2>1
  <2>3. Or(old - Cut(old, Byte), x) \in Int
    BY <1>3, <2>2, LogicType
  <2> QED BY <1>3, <2>3
<1> HIDE DEF y, z
<1>7. MaskKept(m, n)
  <2>1. MaskKept(m, SetWord(g.m, i.r, z))
    BY <1>6, PlaceKeeps, RegisterAfter
  <2>2. MaskKept(g.m, Store(g.m, g.page, g.a, y, other))
    BY <1>2, <1>5, StoreType
  <2> QED BY <2>1, <2>2, PlaceKeeps, KeepsTwice
<1> HIDE DEF n
<1> QED BY <1>1, <1>7, CommonType

LEMMA ControlLoadType ==
  ASSUME NEW m, NEW g, IsPlace(m, g), NEW i, i.op \in {"LDC", "STC"},
         i.w \in Widths, i.c \in ControlRegs, i.op = "STC" => g.t # "I"
  PROVE  /\ LDC_STC(g, i) \in Mcu
         /\ i.op = "STC" \/ i.c # "sr" => LDC_STC(g, i).mask = m.mask
<1> DEFINE both == i.c = "ep" /\ i.at.k = 7
           w == IF both THEN Wide ELSE i.w
           x == MCU_Operand_Read(g, w)
           old == MCU_ControlRegisterRead(g.m, i.c, i.w)
<1>1. g.m \in Mcu /\ g.m.mask = m.mask
  BY DEF IsPlace
<1>2. x \in Word /\ x \in Int
  <2>1. w \in Widths
    BY DEF Widths
  <2> HIDE DEF w
  <2> QED BY <2>1, OperandReadType
<1>3. old \in Int
  BY <1>1, ControlType
<1>4. CASE i.op = "STC"
  <2> DEFINE y == old + g.m.page["dp"] * 2^Byte
  <2>1. y \in Int
    <3>1. g.m.page["dp"] \in Octet
      BY <1>1 DEF Mcu, PageRegs
    <3> HIDE DEF old
    <3> QED BY <1>3, <3>1, WordsAreNumbers, Sizes
  <2>2. LDC_STC(g, i) = IF both THEN MCU_Operand_Write(g, y, Wide)
                        ELSE MCU_Operand_Write(g, old, i.w)
    BY <1>4, Zenon DEF LDC_STC
  <2> HIDE DEF y, old, both
  <2>3. /\ MaskKept(m, MCU_Operand_Write(g, y, Wide))
        /\ MaskKept(m, MCU_Operand_Write(g, old, i.w))
    BY <1>3, <1>4, <2>1, OperandWriteType DEF Widths
  <2> QED BY <2>2, <2>3 DEF MaskKept
<1>5. CASE i.op = "LDC"
  <2> DEFINE n == MCU_ControlRegisterWrite(g.m, i.c, x)
             dp == IF both THEN x \div 2^Byte ELSE n.page["dp"]
  <2>1. LDC_STC(g, i) = [n EXCEPT !.ignore = TRUE,
                           !.page["dp"] = IF both THEN x \div 2^Byte ELSE @]
    BY <1>5, Zenon DEF LDC_STC
  <2> HIDE DEF x
  <2>2. n \in Mcu /\ (i.c # "sr" => n.mask = m.mask)
    BY <1>1, <1>2, ControlType
  <2> HIDE DEF n, both
  <2>3. dp \in Octet
    BY <1>2, <2>2, Halves DEF Mcu, PageRegs
  <2>4. LDC_STC(g, i) = [n EXCEPT !.ignore = TRUE, !.page["dp"] = dp]
    BY <2>1
  <2> HIDE DEF dp
  <2>5. LET k == [n EXCEPT !.ignore = TRUE, !.page["dp"] = dp]
        IN k \in Mcu /\ k.mask = n.mask
    BY <2>2, <2>3 DEF Mcu, PageRegs
  <2> QED BY <1>5, <2>2, <2>4, <2>5
<1> QED BY <1>4, <1>5

LEMMA ControlLogicType ==
  ASSUME NEW m, NEW g, IsPlace(m, g), NEW i, i.w \in Widths,
         i.c \in ControlRegs
  PROVE  /\ ORC_ANDC(g, i) \in Mcu
         /\ i.c # "sr" => ORC_ANDC(g, i).mask = m.mask
<1> DEFINE x == MCU_Operand_Read(g, i.w)
           old == MCU_ControlRegisterRead(g.m, i.c, i.w)
           y == IF i.op = "ORC" THEN Or(old, x) ELSE And(old, x)
           n == MCU_ControlRegisterWrite(g.m, i.c, y)
           flags == IF i.c \in PageRegs THEN SetStatusCommon(y, i.w, n.flags)
                    ELSE n.flags
<1>1. g.m \in Mcu /\ g.m.mask = m.mask
  BY DEF IsPlace
<1>2. x \in Int /\ old \in Int
  BY <1>1, OperandReadType, ControlType
<1>3. ORC_ANDC(g, i) = [n EXCEPT !.ignore = TRUE,
        !.flags = IF i.c \in PageRegs THEN SetStatusCommon(y, i.w, @) ELSE @]
  BY Zenon DEF ORC_ANDC
<1> HIDE DEF x, old
<1>4. y \in Int
  BY <1>2, LogicType
<1> HIDE DEF y
<1>5. n \in Mcu /\ (i.c # "sr" => n.mask = m.mask)
  BY <1>1, <1>4, ControlType
<1> HIDE DEF n
<1>6. flags \in SUBSET Flags
  BY <1>5, StatusType DEF Mcu
<1>7. ORC_ANDC(g, i) = [n EXCEPT !.ignore = TRUE, !.flags = flags]
  BY <1>3
<1> HIDE DEF flags
<1>8. LET k == [n EXCEPT !.ignore = TRUE, !.flags = flags]
      IN k \in Mcu /\ k.mask = n.mask
  BY <1>5, <1>6 DEF Mcu
<1> QED BY <1>5, <1>7, <1>8

----------------------------------------------------------------------------
(* The instructions without one. *)

LEMMA PopPushType ==
  ASSUME NEW m, NEW n, MaskKept(m, n), NEW regs, NEW k \in 0..7
  PROVE  MaskKept(m, PopInto(n, regs, k)) /\ MaskKept(m, PushFrom(n, regs, k))
<1>1. n \in Mcu
  BY DEF MaskKept
<1>2. MaskKept(m, PopInto(n, regs, k))
  <2> DEFINE p == IF k = 7 THEN n ELSE SetWord(n, k, Top(n))
  <2>1. MaskKept(m, p)
    <3>1. Top(n) \in Int
      BY <1>1, PopType
    <3> QED BY <3>1, RegisterAfter
  <2>2. PopInto(n, regs, k) = IF k \notin regs THEN n ELSE Drop(p)
    BY Zenon DEF PopInto
  <2> HIDE DEF p
  <2>3. MaskKept(p, Drop(p))
    BY <2>1, PopType DEF MaskKept
  <2> QED BY <2>1, <2>2, <2>3, KeepsTwice
<1>3. MaskKept(m, PushFrom(n, regs, k))
  <2> DEFINE x == IF k = 7 THEN n.r[7] - 2 ELSE n.r[k]
  <2>1. x \in Int
    BY <1>1, RegisterType
  <2>2. PushFrom(n, regs, k) = IF k \notin regs THEN n ELSE MCU_PushStack(n, x)
    BY Zenon DEF PushFrom
  <2> HIDE DEF x
  <2>3. MaskKept(n, MCU_PushStack(n, x))
    BY <1>1, <2>1, PushType
  <2> QED BY <2>2, <2>3, KeepsTwice
<1> QED BY <1>2, <1>3

LEMMA PushAfter ==
  ASSUME NEW m, NEW n, MaskKept(m, n), NEW x \in Int
  PROVE  MaskKept(m, MCU_PushStack(n, x))
<1>1. MaskKept(n, MCU_PushStack(n, x))
  BY PushType DEF MaskKept
<1> QED BY <1>1, KeepsTwice

LEMMA DropAfter ==
  ASSUME NEW m, NEW n, MaskKept(m, n)
  PROVE  MaskKept(m, Drop(n)) /\ Top(n) \in Word /\ Top(n) \in Int
<1>1. MaskKept(n, Drop(n)) /\ Top(n) \in Word /\ Top(n) \in Int
  BY PopType DEF MaskKept
<1> QED BY <1>1, KeepsTwice

LEMMA StackType ==
  ASSUME NEW m \in Mcu, NEW i, i.op \in {"LDM", "STM", "LINK", "UNLK"},
         i.op = "LINK" => i.n \in Int
  PROVE  MaskKept(m, Stack(m, i))
<1>1. MaskKept(m, m) /\ 6 \in 0..7 /\ 7 \in 0..7
  BY DEF MaskKept
<1>2. CASE i.op = "LDM"
  <2> DEFINE a == PopInto(m, i.regs, 0)   b == PopInto(a, i.regs, 1)
             c == PopInto(b, i.regs, 2)   d == PopInto(c, i.regs, 3)
             e == PopInto(d, i.regs, 4)   f == PopInto(e, i.regs, 5)
             g == PopInto(f, i.regs, 6)   h == PopInto(g, i.regs, 7)
  <2>1. Stack(m, i) = h
    BY <1>2, Zenon DEF Stack, LDM
  <2>2. MaskKept(m, a)
    BY <1>1, PopPushType
  <2> HIDE DEF a
  <2>3. MaskKept(m, b)
    BY <2>2, PopPushType
  <2> HIDE DEF b
  <2>4. MaskKept(m, c)
    BY <2>3, PopPushType
  <2> HIDE DEF c
  <2>5. MaskKept(m, d)
    BY <2>4, PopPushType
  <2> HIDE DEF d
  <2>6. MaskKept(m, e)
    BY <2>5, PopPushType
  <2> HIDE DEF e
  <2>7. MaskKept(m, f)
    BY <2>6, PopPushType
  <2> HIDE DEF f
  <2>8. MaskKept(m, g)
    BY <2>7, PopPushType
  <2> HIDE DEF g
  <2> QED BY <2>1, <2>8, PopPushType
<1>3. CASE i.op = "STM"
  <2> DEFINE a == PushFrom(m, i.regs, 7)   b == PushFrom(a, i.regs, 6)
             c == PushFrom(b, i.regs, 5)   d == PushFrom(c, i.regs, 4)
             e == PushFrom(d, i.regs, 3)   f == PushFrom(e, i.regs, 2)
             g == PushFrom(f, i.regs, 1)   h == PushFrom(g, i.regs, 0)
  <2>1. Stack(m, i) = h
    BY <1>3, Zenon DEF Stack, STM
  <2>2. MaskKept(m, a)
    BY <1>1, PopPushType
  <2> HIDE DEF a
  <2>3. MaskKept(m, b)
    BY <2>2, PopPushType
  <2> HIDE DEF b
  <2>4. MaskKept(m, c)
    BY <2>3, PopPushType
  <2> HIDE DEF c
  <2>5. MaskKept(m, d)
    BY <2>4, PopPushType
  <2> HIDE DEF d
  <2>6. MaskKept(m, e)
    BY <2>5, PopPushType
  <2> HIDE DEF e
  <2>7. MaskKept(m, f)
    BY <2>6, PopPushType
  <2> HIDE DEF f
  <2>8. MaskKept(m, g)
    BY <2>7, PopPushType
  <2> HIDE DEF g
  <2> QED BY <2>1, <2>8, PopPushType
<1>4. CASE i.op = "LINK"
  <2> DEFINE n == MCU_PushStack(m, m.r[6])
             k == SetWord(n, 6, n.r[7])
  <2>1. Stack(m, i) = SetWord(k, 7, n.r[7] + i.n)
    BY <1>4, Zenon DEF Stack
  <2>2. MaskKept(m, n)
    BY <1>1, RegisterType, PushAfter
  <2> HIDE DEF n
  <2>3. n.r[7] \in Int /\ n.r[7] + i.n \in Int
    <3>1. n.r[7] \in Int
      BY <2>2, RegisterType DEF MaskKept
    <3> QED BY <1>4, <3>1
  <2>4. MaskKept(m, k)
    BY <1>1, <2>2, <2>3, RegisterAfter, Zenon
  <2> HIDE DEF k
  <2> QED BY <2>1, <2>3, <2>4, RegisterAfter
<1>5. CASE i.op = "UNLK"
  <2> DEFINE n == SetWord(m, 7, m.r[6])
             k == SetWord(n, 6, Top(n))
  <2>1. Stack(m, i) = Drop(k)
    BY <1>5, Zenon DEF Stack
  <2>2. MaskKept(m, n)
    BY <1>1, RegisterType, RegisterAfter, Zenon
  <2> HIDE DEF n
  <2>3. MaskKept(m, k)
    BY <1>1, <2>2, DropAfter, RegisterAfter, Zenon
  <2> HIDE DEF k
  <2> QED BY <2>1, <2>3, DropAfter
<1> QED BY <1>2, <1>3, <1>4, <1>5

LEMMA GotoType ==
  ASSUME NEW m, NEW n, MaskKept(m, n), NEW cp \in Int, NEW to \in Int
  PROVE  MaskKept(m, Goto(n, to)) /\ MaskKept(m, GotoPage(n, cp, to))
<1>1. Cut(to, Wide) \in Word /\ Cut(cp, Byte) \in Octet
  BY CutType
<1>2. Goto(n, to) = [n EXCEPT !.pc = Cut(to, Wide)]
  BY Zenon DEF Goto
<1>3. GotoPage(n, cp, to) = [Goto(n, to) EXCEPT !.cp = Cut(cp, Byte)]
  BY Zenon DEF GotoPage
<1>4. \A y \in Word : MaskKept(m, [n EXCEPT !.pc = y])
  BY DEF MaskKept, Mcu
<1>5. MaskKept(m, Goto(n, to))
  BY <1>1, <1>2, <1>4, Zenon
<1>6. \A k : MaskKept(m, k) => \A y \in Octet : MaskKept(m, [k EXCEPT !.cp = y])
  BY DEF MaskKept, Mcu
<1>7. MaskKept(m, GotoPage(n, cp, to))
  BY <1>1, <1>3, <1>5, <1>6, Zenon
<1> QED BY <1>5, <1>7

LEMMA BranchType ==
  ASSUME NEW m \in Mcu, NEW i, i.n \in Int
  PROVE  MaskKept(m, Branch(m, i))
<1>1. MaskKept(m, m) /\ m.pc \in Int
  BY WordsAreNumbers DEF MaskKept, Mcu
<1>2. m.pc + i.n \in Int
  BY <1>1
<1>3. MaskKept(m, Goto(m, m.pc + i.n))
  BY <1>1, <1>2, GotoType
<1> QED BY <1>1, <1>3 DEF Branch

LEMMA LoopType ==
  ASSUME NEW m \in Mcu, NEW i, i.n \in Int, i.r \in 0..7
  PROVE  MaskKept(m, Loop(m, i))
<1> DEFINE n == SetWord(m, i.r, m.r[i.r] - 1)
<1>1. MaskKept(m, m)
  BY DEF MaskKept
<1>2. MaskKept(m, n)
  <2>1. m.r[i.r] - 1 \in Int
    BY RegisterType
  <2> QED BY <1>1, <2>1, RegisterAfter
<1>3. Loop(m, i) \in {m, n, Goto(n, n.pc + i.n)}
  BY Zenon DEF Loop
<1> HIDE DEF n
<1>4. n.pc + i.n \in Int
  <2>1. n.pc \in Int
    BY <1>2, WordsAreNumbers DEF MaskKept, Mcu
  <2> QED BY <2>1
<1>5. MaskKept(m, Goto(n, n.pc + i.n))
  BY <1>2, <1>4, GotoType
<1> QED BY <1>1, <1>2, <1>3, <1>5, Zenon

LEMMA JumpType ==
  ASSUME NEW m \in Mcu, NEW i, i.op \in {"JMP", "PJMP", "JMPR", "PJMPR"},
         i.op \in {"JMP", "PJMP", "JMPR"} => i.n \in Int,
         i.op = "PJMP" => i.page \in Int,
         i.op = "JMPR" => i.r \in 0..7, i.op = "PJMPR" => i.r \in 0..6
  PROVE  MaskKept(m, Jump(m, i))
<1>1. MaskKept(m, m)
  BY DEF MaskKept
<1>2. \A k \in 0..7 : m.r[k] \in Int
  BY RegisterType
<1>3. CASE i.op = "JMP"
  <2>1. Jump(m, i) = Goto(m, i.n)
    BY <1>3, Zenon DEF Jump
  <2>2. 0 \in Int
    OBVIOUS
  <2> QED BY <1>1, <1>3, <2>1, <2>2, GotoType
<1>4. CASE i.op = "PJMP"
  <2>1. Jump(m, i) = GotoPage(m, i.page, i.n)
    BY <1>4, Zenon DEF Jump
  <2> QED BY <1>1, <1>4, <2>1, GotoType
<1>5. CASE i.op = "JMPR"
  <2>1. Jump(m, i) = Goto(m, m.r[i.r] + i.n)
    BY <1>5, Zenon DEF Jump
  <2>2. m.r[i.r] + i.n \in Int
    BY <1>2, <1>5
  <2> QED BY <1>1, <2>1, <2>2, GotoType
<1>6. CASE i.op = "PJMPR"
  <2>1. Jump(m, i) = GotoPage(m, m.r[i.r], m.r[i.r + 1])
    BY <1>6, Zenon DEF Jump
  <2>2. m.r[i.r] \in Int /\ m.r[i.r + 1] \in Int
    BY <1>2, <1>6
  <2> QED BY <1>1, <2>1, <2>2, GotoType
<1> QED BY <1>3, <1>4, <1>5, <1>6

LEMMA CallType ==
  ASSUME NEW m \in Mcu, NEW i,
         i.op \in {"BSR", "JSR", "JSRR", "PJSR", "PJSRR"},
         i.op \in {"BSR", "JSR", "PJSR"} => i.n \in Int,
         i.op = "PJSR" => i.page \in Int,
         i.op \in {"JSRR", "PJSRR"} => i.r \in 0..7
  PROVE  MaskKept(m, Call(m, i))
<1> DEFINE near == MCU_PushStack(m, m.pc)
           far == MCU_PushStack(near, m.cp)
           k == Even(i.r)
<1>1. MaskKept(m, m) /\ m.pc \in Int /\ m.cp \in Int
  BY WordsAreNumbers DEF MaskKept, Mcu
<1>2. MaskKept(m, near)
  BY <1>1, PushAfter
<1>3. MaskKept(m, far)
  <2> HIDE DEF near
  <2> QED BY <1>1, <1>2, PushAfter
<1>4. /\ \A j \in 0..7 : near.r[j] \in Int
      /\ \A j \in 0..7 : far.r[j] \in Int
  <2> HIDE DEF near, far
  <2> QED BY <1>2, <1>3, RegisterType DEF MaskKept
<1>5. CASE i.op = "BSR"
  <2>1. Call(m, i) = Goto(near, m.pc + i.n)
    BY <1>5, Zenon DEF Call
  <2>2. m.pc + i.n \in Int
    BY <1>1, <1>5
  <2> HIDE DEF near
  <2> QED BY <1>2, <2>1, <2>2, GotoType
<1>6. CASE i.op = "JSR"
  <2>1. Call(m, i) = Goto(near, i.n)
    BY <1>6, Zenon DEF Call
  <2> HIDE DEF near
  <2> QED BY <1>1, <1>2, <1>6, <2>1, GotoType
<1>7. CASE i.op = "JSRR"
  <2>1. Call(m, i) = Goto(near, near.r[i.r])
    BY <1>7, Zenon DEF Call
  <2> HIDE DEF near
  <2>2. near.r[i.r] \in Int
    BY <1>4, <1>7
  <2> QED BY <1>1, <1>2, <2>1, <2>2, GotoType
<1>8. CASE i.op = "PJSR"
  <2>1. Call(m, i) = GotoPage(far, i.page, i.n)
    BY <1>8, Zenon DEF Call
  <2> HIDE DEF far
  <2> QED BY <1>3, <1>8, <2>1, GotoType
<1>9. CASE i.op = "PJSRR"
  <2>1. Call(m, i) = GotoPage(far, far.r[k], far.r[k + 1])
    BY <1>9, Zenon DEF Call
  <2> HIDE DEF far
  <2>2. far.r[k] \in Int /\ far.r[k + 1] \in Int
    <3>1. k \in 0..7 /\ k + 1 \in 0..7
      BY <1>9, PairIs
    <3> QED BY <1>4, <3>1
  <2> QED BY <1>3, <2>1, <2>2, GotoType
<1> QED BY <1>5, <1>6, <1>7, <1>8, <1>9

LEMMA ReturnType ==
  ASSUME NEW m \in Mcu, NEW i, i.op \in {"RTS", "RTD", "PRTS"},
         i.op = "RTD" => i.n \in Int
  PROVE  MaskKept(m, Return(m, i))
<1> DEFINE d == Drop(m)
           n == Goto(d, Top(m))
<1>1. MaskKept(m, m) /\ 0 \in Int /\ 7 \in 0..7
  BY DEF MaskKept
<1>2. MaskKept(m, d) /\ Top(m) \in Int
  BY <1>1, DropAfter
<1>3. MaskKept(m, n)
  <2> HIDE DEF d
  <2> QED BY <1>1, <1>2, GotoType
<1>4. CASE i.op = "RTS"
  <2>1. Return(m, i) = n
    BY <1>4, Zenon DEF Return
  <2> QED BY <1>3, <2>1
<1>5. CASE i.op = "RTD"
  <2>1. Return(m, i) = SetWord(n, 7, n.r[7] + i.n)
    BY <1>5, Zenon DEF Return
  <2> HIDE DEF n
  <2>2. n.r[7] + i.n \in Int
    <3>1. n.r[7] \in Int
      BY <1>3, RegisterType DEF MaskKept
    <3> QED BY <1>5, <3>1
  <2> QED BY <1>1, <1>3, <2>1, <2>2, RegisterAfter, Zenon
<1>6. CASE i.op = "PRTS"
  <2>1. Return(m, i) = GotoPage(Drop(d), Top(m), Top(d))
    BY <1>6, Zenon DEF Return
  <2> HIDE DEF d
  <2>2. MaskKept(m, Drop(d)) /\ Top(d) \in Int
    BY <1>2, DropAfter
  <2> QED BY <1>2, <2>1, <2>2, GotoType
<1> QED BY <1>4, <1>5, <1>6

\* RTE takes SR from the top of the stack.
LEMMA RteType ==
  ASSUME NEW m \in Mcu
  PROVE  RTE(m) \in Mcu /\ RTE(m).mask = (Top(m) \div 2^Byte) % 8
<1> DEFINE s == SetSr(m, Top(m))
           n == Drop(s)
           d == Drop(n)
           g == GotoPage(Drop(d), Top(n), Top(d))
<1>1. Top(m) \in Int
  BY PopType
<1>2. s \in Mcu /\ s.mask = (Top(m) \div 2^Byte) % 8
  BY <1>1, SetSrType
<1>3. RTE(m) = [g EXCEPT !.ignore = TRUE]
  BY Zenon DEF RTE
<1> HIDE DEF s
<1>4. MaskKept(s, n)
  BY <1>2, DropAfter DEF MaskKept
<1> HIDE DEF n
<1>5. MaskKept(s, d) /\ Top(n) \in Int
  BY <1>4, DropAfter
<1> HIDE DEF d
<1>6. MaskKept(s, Drop(d)) /\ Top(d) \in Int
  BY <1>5, DropAfter
<1>7. MaskKept(s, g)
  BY <1>5, <1>6, GotoType
<1> HIDE DEF g
<1>8. [g EXCEPT !.ignore = TRUE] \in Mcu /\ [g EXCEPT !.ignore = TRUE].mask = g.mask
  BY <1>7 DEF MaskKept, Mcu
<1> QED BY <1>2, <1>3, <1>7, <1>8 DEF MaskKept

LEMMA RestType ==
  ASSUME NEW m \in Mcu, NEW i
  PROVE  /\ i.n \in 0..15 => MaskKept(m, TRAPA(m, i))
         /\ MaskKept(m, Sleep(m, i))
         /\ MaskKept(m, Fetched(m))
<1>1. ASSUME i.n \in 0..15 PROVE MaskKept(m, TRAPA(m, i))
  <2>1. \A x \in 0..15 : MaskKept(m, [m EXCEPT !.trap = @ \cup {x}])
    BY DEF MaskKept, Mcu
  <2> QED BY <1>1, <2>1, Zenon DEF TRAPA
<1>2. MaskKept(m, Sleep(m, i))
  BY DEF Sleep, MaskKept, Mcu
<1>3. MaskKept(m, Fetched(m))
  <2> DEFINE y == Cut(m.pc + 1, Wide)
  <2>1. m.pc + 1 \in Int
    <3>1. m.pc \in Int
      BY WordsAreNumbers DEF Mcu
    <3> QED BY <3>1
  <2>2. y \in Word
    BY <2>1, CutType
  <2>3. Fetched(m) = [m EXCEPT !.pc = y]
    BY DEF Fetched
  <2> HIDE DEF y
  <2>4. MaskKept(m, [m EXCEPT !.pc = y])
    BY <2>2 DEF MaskKept, Mcu
  <2> QED BY <2>3, <2>4
<1> QED BY <1>1, <1>2, <1>3

----------------------------------------------------------------------------
(* A turn of the loop. *)

LEMMA FetchedFormed ==
  ASSUME job \in DOMAIN Programs, NEW m, InText(m)
  PROVE  WellFormed(Fetch(m))
<1>1. CASE m.cp = 0
  <2>1. Fetch(m) \in Range(Handlers)
    BY <1>1 DEF Fetch, InText, Rom0, Range
  <2> QED BY <2>1, CpuPrograms
<1>2. CASE m.cp # 0
  <2> DEFINE program == Programs[job]
             text == program.rom[m.cp]
  <2>1. program \in Range(Jobs)
    BY DEF Programs, Range
  <2>2. text \in Range(program.rom) /\ Fetch(m) \in Range(text)
    BY <1>2 DEF Fetch, InText, Range
  <2> QED BY <2>1, <2>2, CpuPrograms, Zenon
<1> QED BY <1>1, <1>2

\* The one operand every instruction of Compute and most of Transfer have.
LEMMA GeneralOperand ==
  ASSUME NEW m \in Mcu, NEW i, WellFormed(i), i.op \in General
  PROVE  LET g == MCU_Operand_General(m, i)
         IN /\ IsPlace(m, g) /\ i.w \in Widths
            /\ i.op \in Writing => g.t # "I"
            /\ i.op \in {"EXTU", "EXTS", "SWAP", "XCH"} => g.t = "R"
<1>1. i.w \in Widths /\ i.at \in Operand
  BY DEF WellFormed, Widths
<1>2. /\ i.op \in Writing => i.at.t # "Imm"
      /\ i.op \in {"EXTU", "EXTS", "SWAP", "XCH"} => i.at.t = "Reg"
  BY DEF WellFormed
<1> QED BY <1>1, <1>2, PlaceType

LEMMA ComputeKeeps ==
  ASSUME NEW m \in Mcu, NEW i, WellFormed(i)
  PROVE  LET g == MCU_Operand_General(m, i)
         IN /\ i.op \in AddSubOps => MaskKept(m, AddSub(g, i))
            /\ i.op \in {"ADDS", "SUBS"} => MaskKept(m, ADDS_SUBS(g, i))
            /\ i.op = "ADDQ" => MaskKept(m, ADDQ(g, i))
            /\ i.op \in UnaryOps => MaskKept(m, Unary(g, i))
            /\ i.op \in LogicOps => MaskKept(m, Logic(g, i))
            /\ i.op \in BitOps \cup BitRegOps => MaskKept(m, BitOp(g, i))
            /\ i.op \in ShiftKinds => MaskKept(m, ShiftOp(g, i))
            /\ i.op = "MULXU" => MaskKept(m, Multiply(g, i))
            /\ i.op = "DIVXU" => MaskKept(m, Divide(g, i))
<1> DEFINE g == MCU_Operand_General(m, i)
<1>1. ASSUME i.op \in General
      PROVE  /\ IsPlace(m, g) /\ i.w \in Widths
             /\ i.op \in Writing => g.t # "I"
             /\ i.op \in {"EXTU", "EXTS", "SWAP", "XCH"} => g.t = "R"
  BY <1>1, GeneralOperand
<1>2. /\ i.op \in WithRegister => i.r \in 0..7
      /\ i.op \in WithNumber => i.n \in Int
      /\ i.op \in BitOps => i.n \in Nat
  BY DEF WellFormed
<1> HIDE DEF g
<1>3. ASSUME i.op \in AddSubOps PROVE MaskKept(m, AddSub(g, i))
  <2>1. i.op \in General /\ i.op \in WithRegister
    BY <1>3, Zenon DEF General, WithRegister
  <2> QED BY <1>1, <1>2, <1>3, <2>1, AddSubType
<1>4. ASSUME i.op \in {"ADDS", "SUBS"} PROVE MaskKept(m, ADDS_SUBS(g, i))
  <2>1. i.op \in General /\ i.op \in WithRegister
    BY <1>4, Zenon DEF General, WithRegister
  <2> QED BY <1>1, <1>2, <2>1, AddsType
<1>5. ASSUME i.op = "ADDQ" PROVE MaskKept(m, ADDQ(g, i))
  <2>1. i.op \in General /\ i.op \in Writing /\ i.op \in WithNumber
    BY <1>5, Zenon DEF General, Writing, WithNumber
  <2> QED BY <1>1, <1>2, <2>1, AddqType
<1>6. ASSUME i.op \in UnaryOps PROVE MaskKept(m, Unary(g, i))
  <2>1. i.op \in General
    BY <1>6, Zenon DEF General
  <2>2. i.op # "TST" => i.op \in Writing \cup {"EXTU", "EXTS", "SWAP", "XCH"}
    BY <1>6 DEF UnaryOps, Writing
  <2>3. i.op # "TST" => g.t # "I"
    BY <1>1, <2>1, <2>2
  <2>4. i.op \in {"EXTU", "EXTS", "SWAP"} => g.t = "R"
    BY <1>1, <2>1
  <2> QED BY <1>1, <1>6, <2>1, <2>3, <2>4, UnaryType
<1>7. ASSUME i.op \in LogicOps PROVE MaskKept(m, Logic(g, i))
  <2>1. i.op \in General /\ i.op \in WithRegister
    BY <1>7, Zenon DEF General, WithRegister
  <2> QED BY <1>1, <1>2, <1>7, <2>1, LogicOpType
<1>8. ASSUME i.op \in BitOps \cup BitRegOps PROVE MaskKept(m, BitOp(g, i))
  <2>1. i.op \in General /\ (i.op \in BitRegOps => i.op \in WithRegister)
    BY <1>8, Zenon DEF General, WithRegister
  <2>2. i.op \notin {"BTST", "BTSTR"} => i.op \in Writing
    BY <1>8 DEF BitOps, BitRegOps, Writing
  <2>3. i.op \notin {"BTST", "BTSTR"} => g.t # "I"
    BY <1>1, <2>1, <2>2, Zenon
  <2>4. i.op \in BitRegOps => i.r \in 0..7
    BY <1>2, <2>1
  <2> QED BY <1>1, <1>2, <1>8, <2>1, <2>3, <2>4, BitOpType
<1>9. ASSUME i.op \in ShiftKinds PROVE MaskKept(m, ShiftOp(g, i))
  <2>1. i.op \in General /\ i.op \in Writing
    BY <1>9, Zenon DEF General, Writing
  <2> QED BY <1>1, <1>9, <2>1, ShiftOpType
<1>10. ASSUME i.op \in {"MULXU", "DIVXU"}
       PROVE  MaskKept(m, Multiply(g, i)) /\ MaskKept(m, Divide(g, i))
  <2>1. i.op \in General /\ i.op \in WithRegister
    BY <1>10, Zenon DEF General, WithRegister
  <2> QED BY <1>1, <1>2, <2>1, MultiplyType, DivideType
<1> QED BY <1>3, <1>4, <1>5, <1>6, <1>7, <1>8, <1>9, <1>10, Zenon DEF g

\* What loads SR, the only way to the mask but for a handler's end.
LoadsSr(i) == i.op \in {"LDC", "ORC", "ANDC"} /\ i.c = "sr"

LEMMA TransferKeeps ==
  ASSUME NEW m \in Mcu, NEW i, WellFormed(i)
  PROVE  LET g == MCU_Operand_General(m, i)
         IN /\ i.op \in {"LD", "ST", "XCH"} => MaskKept(m, Move(g, i))
            /\ i.op \in {"STI", "CMPI"} => MaskKept(m, MOVG_Immediate(g, i))
            /\ i.op \in {"LDF", "STF"} => MaskKept(m, Frame(g, i))
            /\ i.op \in {"LDC", "STC"} =>
                 /\ LDC_STC(g, i) \in Mcu
                 /\ ~LoadsSr(i) => LDC_STC(g, i).mask = m.mask
            /\ i.op \in {"ORC", "ANDC"} =>
                 /\ ORC_ANDC(g, i) \in Mcu
                 /\ ~LoadsSr(i) => ORC_ANDC(g, i).mask = m.mask
            /\ i.op \in {"LDM", "STM", "LINK", "UNLK"} => MaskKept(m, Stack(m, i))
<1> DEFINE g == MCU_Operand_General(m, i)
<1>1. ASSUME i.op \in General
      PROVE  /\ IsPlace(m, g) /\ i.w \in Widths
             /\ i.op \in Writing => g.t # "I"
             /\ i.op \in {"EXTU", "EXTS", "SWAP", "XCH"} => g.t = "R"
  BY <1>1, GeneralOperand
<1>2. /\ i.op \in WithRegister => i.r \in 0..7
      /\ i.op \in WithNumber => i.n \in Int
      /\ i.op \in {"LDC", "STC", "ORC", "ANDC"} => i.c \in ControlRegs
  BY DEF WellFormed, ControlRegs
<1> HIDE DEF g
<1>3. ASSUME i.op \in {"LD", "ST", "XCH"} PROVE MaskKept(m, Move(g, i))
  <2>1. i.op \in General /\ i.op \in WithRegister
    BY <1>3, Zenon DEF General, Writing, WithRegister
  <2>2. /\ i.op = "ST" => i.op \in Writing
        /\ i.op = "XCH" => i.op \in {"EXTU", "EXTS", "SWAP", "XCH"}
    BY Zenon DEF Writing
  <2> QED BY <1>1, <1>2, <1>3, <2>1, <2>2, MoveType
<1>4. ASSUME i.op \in {"STI", "CMPI"} PROVE MaskKept(m, MOVG_Immediate(g, i))
  <2>1. i.op \in General /\ i.op \in WithNumber
    BY <1>4, Zenon DEF General, Writing, WithNumber
  <2>2. i.op = "STI" => i.op \in Writing
    BY Zenon DEF Writing
  <2> QED BY <1>1, <1>2, <1>4, <2>1, <2>2, ImmediateType
<1>5. ASSUME i.op \in {"LDF", "STF"} PROVE MaskKept(m, Frame(g, i))
  <2>1. i.op \in General /\ i.op \in WithRegister
    BY <1>5, Zenon DEF General, WithRegister
  <2> QED BY <1>1, <1>2, <1>5, <2>1, FrameType
<1>6. ASSUME i.op \in {"LDC", "STC"}
      PROVE  /\ LDC_STC(g, i) \in Mcu
             /\ ~LoadsSr(i) => LDC_STC(g, i).mask = m.mask
  <2>1. i.op \in General /\ i.op \in {"LDC", "STC", "ORC", "ANDC"}
    BY <1>6, Zenon DEF General, Writing
  <2>2. i.op = "STC" => i.op \in Writing
    BY Zenon DEF Writing
  <2>3. ~LoadsSr(i) => i.op = "STC" \/ i.c # "sr"
    BY <1>6 DEF LoadsSr
  <2> QED BY <1>1, <1>2, <1>6, <2>1, <2>2, <2>3, ControlLoadType
<1>7. ASSUME i.op \in {"ORC", "ANDC"}
      PROVE  /\ ORC_ANDC(g, i) \in Mcu
             /\ ~LoadsSr(i) => ORC_ANDC(g, i).mask = m.mask
  <2>1. i.op \in General /\ i.op \in {"LDC", "STC", "ORC", "ANDC"}
    BY <1>7, Zenon DEF General
  <2>2. ~LoadsSr(i) => i.c # "sr"
    BY <1>7 DEF LoadsSr
  <2> QED BY <1>1, <1>2, <2>1, <2>2, ControlLogicType
<1>8. ASSUME i.op \in {"LDM", "STM", "LINK", "UNLK"} PROVE MaskKept(m, Stack(m, i))
  <2>1. i.op = "LINK" => i.op \in WithNumber
    BY Zenon DEF WithNumber
  <2> QED BY <1>2, <1>8, <2>1, StackType
<1> QED BY <1>3, <1>4, <1>5, <1>6, <1>7, <1>8, Zenon DEF g

LEMMA FlowKeeps ==
  ASSUME NEW m \in Mcu, NEW i, WellFormed(i)
  PROVE  /\ i.op \in Conditions => MaskKept(m, Branch(m, i))
         /\ i.op \in LoopOps => MaskKept(m, Loop(m, i))
         /\ i.op \in {"JMP", "PJMP", "JMPR", "PJMPR"} => MaskKept(m, Jump(m, i))
         /\ i.op \in {"BSR", "JSR", "JSRR", "PJSR", "PJSRR"} => MaskKept(m, Call(m, i))
         /\ i.op \in {"RTS", "RTD", "PRTS"} => MaskKept(m, Return(m, i))
         /\ i.op = "TRAPA" => MaskKept(m, TRAPA(m, i))
         /\ i.op = "SLEEP" => MaskKept(m, Sleep(m, i))
<1>1. /\ i.op \in WithRegister => i.r \in 0..7
      /\ i.op \in WithNumber => i.n \in Int
      /\ i.op = "PJMPR" => i.r # 7
      /\ i.op \in {"PJMP", "PJSR"} => i.page \in Int
      /\ i.op = "TRAPA" => i.n \in 0..15
  BY WordsAreNumbers DEF WellFormed
<1>2. ASSUME i.op \in Conditions PROVE MaskKept(m, Branch(m, i))
  <2>1. i.op \in WithNumber
    BY <1>2, Zenon DEF WithNumber
  <2> QED BY <1>1, <2>1, BranchType
<1>3. ASSUME i.op \in LoopOps PROVE MaskKept(m, Loop(m, i))
  <2>1. i.op \in WithNumber /\ i.op \in WithRegister
    BY <1>3, Zenon DEF WithNumber, WithRegister
  <2> QED BY <1>1, <2>1, LoopType
<1>4. ASSUME i.op \in {"JMP", "PJMP", "JMPR", "PJMPR"}
      PROVE  MaskKept(m, Jump(m, i))
  <2>1. /\ i.op \in {"JMP", "PJMP", "JMPR"} => i.op \in WithNumber
        /\ i.op \in {"JMPR", "PJMPR"} => i.op \in WithRegister
    BY Zenon DEF WithNumber, WithRegister
  <2>2. i.op \in {"JMP", "PJMP", "JMPR"} => i.n \in Int
    BY <1>1, <2>1
  <2>3. i.op = "PJMP" => i.page \in Int
    BY <1>1
  <2>4. i.op = "JMPR" => i.r \in 0..7
    BY <1>1, <2>1
  <2>5. i.op = "PJMPR" => i.r \in 0..6
    BY <1>1, <2>1
  <2> QED BY <1>4, <2>2, <2>3, <2>4, <2>5, JumpType
<1>5. ASSUME i.op \in {"BSR", "JSR", "JSRR", "PJSR", "PJSRR"}
      PROVE  MaskKept(m, Call(m, i))
  <2>1. /\ i.op \in {"BSR", "JSR", "PJSR"} => i.op \in WithNumber
        /\ i.op \in {"JSRR", "PJSRR"} => i.op \in WithRegister
    BY Zenon DEF WithNumber, WithRegister
  <2>2. i.op \in {"BSR", "JSR", "PJSR"} => i.n \in Int
    BY <1>1, <2>1
  <2>3. i.op = "PJSR" => i.page \in Int
    BY <1>1
  <2>4. i.op \in {"JSRR", "PJSRR"} => i.r \in 0..7
    BY <1>1, <2>1
  <2> QED BY <1>5, <2>2, <2>3, <2>4, CallType
<1>6. ASSUME i.op \in {"RTS", "RTD", "PRTS"} PROVE MaskKept(m, Return(m, i))
  <2>1. i.op = "RTD" => i.op \in WithNumber
    BY Zenon DEF WithNumber
  <2> QED BY <1>1, <1>6, <2>1, ReturnType
<1> QED BY <1>1, <1>2, <1>3, <1>4, <1>5, <1>6, RestType

CpuInv ==
  /\ job \in DOMAIN Programs /\ cpu \in Mcu
  /\ asked \in SUBSET Sources /\ may \in SUBSET Sources
  /\ active \in Seq(Begun)

\* The instruction of a turn, and the handlers that run while it does.
TurnOf(i, running) ==
  LET t == NewTurn
  IN /\ ~t.m.sleep /\ InText(t.m)
     /\ i = Fetch(t.m) /\ running = active \o t.begun

\* What a turn makes of the mask and of the handlers.
Outcome ==
  \/ cpu'.mask = NewTurn.m.mask /\ active' = active \o NewTurn.begun
  \/ \E i, running : /\ TurnOf(i, running) /\ LoadsSr(i)
                     /\ active' = running
  \/ \E i, running : /\ TurnOf(i, running) /\ i.op = "RTE"
                     /\ cpu'.mask = (Top(Fetched(NewTurn.m)) \div 2^Byte) % 8
                     /\ active' = Front(running)

LEMMA DevicesType ==
  ASSUME CpuInv, Devices
  PROVE  may' \in SUBSET Sources /\ asked' \in SUBSET Sources
BY DEF CpuInv, Devices

\* What a step leaves of that to show.
Turned == cpu' \in Mcu /\ UNCHANGED job /\ Devices /\ Outcome

\* An instruction other than RTE.
LEMMA RunsOutcome ==
  ASSUME CpuInv, NEW i, TurnOf(i, active \o NewTurn.begun), NEW ops, NEW m,
         i.op \in ops => m \in Mcu /\ (m.mask = NewTurn.m.mask \/ LoadsSr(i)),
         Runs(NewTurn, i, ops, m)
  PROVE  Turned
<1>1. /\ i.op \in ops /\ cpu' = m /\ active' = active \o NewTurn.begun
      /\ UNCHANGED job /\ Devices
  BY DEF Runs
<1> QED BY <1>1 DEF Outcome, Turned

LEMMA RunsKeeping ==
  ASSUME CpuInv, NEW i, TurnOf(i, active \o NewTurn.begun), NEW ops, NEW m,
         i.op \in ops => MaskKept(Fetched(NewTurn.m), m),
         Runs(NewTurn, i, ops, m)
  PROVE  Turned
<1>1. NewTurn.m \in Mcu
  BY TurnType DEF CpuInv, MachineIs, Beginning
<1>2. MaskKept(NewTurn.m, Fetched(NewTurn.m))
  BY <1>1, RestType
<1>3. i.op \in ops => m \in Mcu /\ m.mask = NewTurn.m.mask
  BY <1>2 DEF MaskKept
<1> QED BY <1>3, RunsOutcome

LEMMA TurnOutcome ==
  ASSUME CpuInv, CpuNext
  PROVE  CpuInv' /\ Outcome
<1> DEFINE t == NewTurn
           i == Fetch(t.m)
           f == Fetched(t.m)
           g == MCU_Operand_General(f, i)
           running == active \o t.begun
<1>1. /\ t \in Beginning /\ t.m \in Mcu
      /\ t.begun # <<>> => t.m \in Awake
  BY TurnType DEF CpuInv, MachineIs, Beginning
<1>2. t.begun \in Seq(Begun) /\ running \in Seq(Begun)
  <2>1. t.begun \in {<<>>} \cup {<<b>> : b \in Begun}
    BY <1>1 DEF Beginning
  <2>2. t.begun \in Seq(Begun)
    <3>1. <<>> \in Seq(Begun) /\ \A b \in Begun : <<b>> \in Seq(Begun)
      OBVIOUS
    <3> QED BY <2>1, <3>1, Zenon
  <2>3. active \in Seq(Begun)
    BY DEF CpuInv
  <2> HIDE DEF t
  <2> QED BY <2>2, <2>3
<1>3. ASSUME Turned, active' \in Seq(Begun) PROVE CpuInv' /\ Outcome
  BY <1>3, DevicesType DEF Turned, CpuInv
<1>4. ASSUME Outcome PROVE active' \in Seq(Begun)
  <2>1. ASSUME NEW s \in Seq(Begun) PROVE Front(s) \in Seq(Begun)
    BY DEF Front
  <2> QED BY <1>2, <1>4, <2>1 DEF Outcome, TurnOf
<1>5. CASE Asleep(t)
  <2>1. t.begun = <<>>
    BY <1>1, <1>5 DEF Asleep, Awake
  <2>2. cpu' = t.m /\ active' = active /\ UNCHANGED job /\ Devices
    BY <1>5 DEF Asleep
  <2>3. active \o <<>> = active
    BY DEF CpuInv
  <2> HIDE DEF t
  <2>4. active' = active \o t.begun
    BY <2>1, <2>2, <2>3
  <2>5. Turned
    BY <1>1, <2>2, <2>4 DEF Turned, Outcome, t
  <2> QED BY <1>3, <1>4, <2>5 DEF Turned
<1>6. ASSUME ~t.m.sleep, InText(t.m)
      PROVE  WellFormed(i) /\ TurnOf(i, running) /\ MaskKept(t.m, f) /\ f \in Mcu
  <2>1. WellFormed(i)
    BY <1>6, FetchedFormed DEF CpuInv
  <2>2. MaskKept(t.m, f)
    BY <1>1, RestType
  <2> QED BY <1>6, <2>1, <2>2 DEF TurnOf, MaskKept
<1>7. CASE ~t.m.sleep /\ InText(t.m) /\ Compute(t, i)
  <2> HIDE DEF g, i
  <2>1. \/ Runs(t, i, AddSubOps, AddSub(g, i))
        \/ Runs(t, i, {"ADDS", "SUBS"}, ADDS_SUBS(g, i))
        \/ Runs(t, i, {"ADDQ"}, ADDQ(g, i))
        \/ Runs(t, i, UnaryOps, Unary(g, i))
        \/ Runs(t, i, LogicOps, Logic(g, i))
        \/ Runs(t, i, BitOps \cup BitRegOps, BitOp(g, i))
        \/ Runs(t, i, ShiftKinds, ShiftOp(g, i))
        \/ Runs(t, i, {"MULXU"}, Multiply(g, i))
        \/ Runs(t, i, {"DIVXU"}, Divide(g, i))
    BY <1>7, Zenon DEF Compute, g
  <2>2. WellFormed(i) /\ TurnOf(i, running) /\ f \in Mcu
    BY <1>6, <1>7
  <2> HIDE DEF f
  <2>3. /\ i.op \in AddSubOps => MaskKept(f, AddSub(g, i))
        /\ i.op \in {"ADDS", "SUBS"} => MaskKept(f, ADDS_SUBS(g, i))
        /\ i.op \in {"ADDQ"} => MaskKept(f, ADDQ(g, i))
        /\ i.op \in UnaryOps => MaskKept(f, Unary(g, i))
        /\ i.op \in LogicOps => MaskKept(f, Logic(g, i))
        /\ i.op \in BitOps \cup BitRegOps => MaskKept(f, BitOp(g, i))
        /\ i.op \in ShiftKinds => MaskKept(f, ShiftOp(g, i))
        /\ i.op \in {"MULXU"} => MaskKept(f, Multiply(g, i))
        /\ i.op \in {"DIVXU"} => MaskKept(f, Divide(g, i))
    BY <2>2, ComputeKeeps DEF g
  <2>4. Turned
    BY <2>1, <2>2, <2>3, RunsKeeping DEF f
  <2> QED BY <1>3, <1>4, <2>4 DEF Turned
<1>8. CASE ~t.m.sleep /\ InText(t.m) /\ Transfer(t, i)
  <2> HIDE DEF g, i
  <2>1. \/ Runs(t, i, {"LD", "ST", "XCH"}, Move(g, i))
        \/ Runs(t, i, {"STI", "CMPI"}, MOVG_Immediate(g, i))
        \/ Runs(t, i, {"LDF", "STF"}, Frame(g, i))
        \/ Runs(t, i, {"LDC", "STC"}, LDC_STC(g, i))
        \/ Runs(t, i, {"ORC", "ANDC"}, ORC_ANDC(g, i))
        \/ Runs(t, i, {"LDM", "STM", "LINK", "UNLK"}, Stack(f, i))
    BY <1>8, Zenon DEF Transfer, g
  <2>2. WellFormed(i) /\ TurnOf(i, running) /\ f \in Mcu /\ f.mask = t.m.mask
    BY <1>6, <1>8 DEF MaskKept
  <2> HIDE DEF f
  <2>3. /\ i.op \in {"LD", "ST", "XCH"} => MaskKept(f, Move(g, i))
        /\ i.op \in {"STI", "CMPI"} => MaskKept(f, MOVG_Immediate(g, i))
        /\ i.op \in {"LDF", "STF"} => MaskKept(f, Frame(g, i))
        /\ i.op \in {"LDM", "STM", "LINK", "UNLK"} => MaskKept(f, Stack(f, i))
    BY <2>2, TransferKeeps DEF g
  <2>4. /\ i.op \in {"LDC", "STC"} =>
             /\ LDC_STC(g, i) \in Mcu
             /\ LDC_STC(g, i).mask = t.m.mask \/ LoadsSr(i)
        /\ i.op \in {"ORC", "ANDC"} =>
             /\ ORC_ANDC(g, i) \in Mcu
             /\ ORC_ANDC(g, i).mask = t.m.mask \/ LoadsSr(i)
    BY <2>2, TransferKeeps DEF g
  <2>5. Turned
    BY <2>1, <2>2, <2>3, <2>4, RunsKeeping, RunsOutcome DEF f
  <2> QED BY <1>3, <1>4, <2>5 DEF Turned
<1>9. CASE ~t.m.sleep /\ InText(t.m) /\ Flow(t, i)
  <2> HIDE DEF i
  <2>1. \/ Runs(t, i, Conditions, Branch(f, i))
        \/ Runs(t, i, LoopOps, Loop(f, i))
        \/ Runs(t, i, {"JMP", "PJMP", "JMPR", "PJMPR"}, Jump(f, i))
        \/ Runs(t, i, {"BSR", "JSR", "JSRR", "PJSR", "PJSRR"}, Call(f, i))
        \/ Runs(t, i, {"RTS", "RTD", "PRTS"}, Return(f, i))
        \/ Runs(t, i, {"TRAPA"}, TRAPA(f, i))
        \/ Runs(t, i, {"SLEEP"}, Sleep(f, i))
    BY <1>9, Zenon DEF Flow
  <2>2. WellFormed(i) /\ TurnOf(i, running) /\ f \in Mcu
    BY <1>6, <1>9
  <2> HIDE DEF f
  <2>3. /\ i.op \in Conditions => MaskKept(f, Branch(f, i))
        /\ i.op \in LoopOps => MaskKept(f, Loop(f, i))
        /\ i.op \in {"JMP", "PJMP", "JMPR", "PJMPR"} => MaskKept(f, Jump(f, i))
        /\ i.op \in {"BSR", "JSR", "JSRR", "PJSR", "PJSRR"} => MaskKept(f, Call(f, i))
        /\ i.op \in {"RTS", "RTD", "PRTS"} => MaskKept(f, Return(f, i))
        /\ i.op \in {"TRAPA"} => MaskKept(f, TRAPA(f, i))
        /\ i.op \in {"SLEEP"} => MaskKept(f, Sleep(f, i))
    BY <2>2, FlowKeeps
  <2>4. Turned
    BY <2>1, <2>2, <2>3, RunsKeeping DEF f
  <2> QED BY <1>3, <1>4, <2>4 DEF Turned
<1>10. CASE ~t.m.sleep /\ InText(t.m) /\ ReturnFromHandler(t, i)
  <2>1. /\ i.op = "RTE" /\ cpu' = RTE(f) /\ active' = Front(running)
        /\ Devices /\ UNCHANGED job
    BY <1>10 DEF ReturnFromHandler
  <2>2. TurnOf(i, running) /\ f \in Mcu
    BY <1>6, <1>10
  <2>3. cpu' \in Mcu /\ cpu'.mask = (Top(f) \div 2^Byte) % 8
    BY <2>1, <2>2, RteType
  <2>4. Turned
    BY <2>1, <2>2, <2>3 DEF Turned, Outcome
  <2> QED BY <1>3, <1>4, <2>4 DEF Turned
<1>11. CASE ~t.m.sleep /\ InText(t.m) /\ Acknowledge(t, i)
  <2>1. /\ cpu' = f /\ asked' = asked \ {i.n} /\ active' = running
        /\ UNCHANGED <<job, may>>
    BY <1>11 DEF Acknowledge
  <2>2. f \in Mcu /\ f.mask = t.m.mask
    BY <1>6, <1>11 DEF MaskKept
  <2>3. Outcome
    BY <2>1, <2>2 DEF Outcome
  <2> HIDE DEF f, i
  <2> QED BY <1>2, <2>1, <2>2, <2>3 DEF CpuInv
<1> QED BY <1>5, <1>7, <1>8, <1>9, <1>10, <1>11, Zenon DEF CpuNext

LEMMA ResetType ==
  ASSUME NEW memory \in Memory
  PROVE  MCU_Reset(memory) \in Mcu /\ MCU_Reset(memory).mask = 7
<1>1. 0 \in Word /\ 1 \in Word /\ 0 \in Octet /\ 1 \in Octet
  BY Sizes DEF Word, Octet
<1> QED BY <1>1 DEF MCU_Reset, Mcu

LEMMA CpuInvInit == CpuInit => CpuInv
<1> SUFFICES ASSUME CpuInit PROVE CpuInv
  OBVIOUS
<1> DEFINE program == Programs[job]
<1>1. job \in DOMAIN Programs /\ program \in Range(Jobs)
  BY DEF CpuInit, Programs, Range
<1>2. /\ DOMAIN program.memory \subseteq Ram
      /\ program.memory \in [DOMAIN program.memory -> Octet]
      /\ program.may \subseteq Sources
  BY <1>1, CpuPrograms
<1>3. cpu = MCU_Reset(program.memory) /\ asked = {} /\ may = program.may
      /\ active = <<>>
  BY DEF CpuInit
<1> HIDE DEF program
<1>4. program.memory \in Memory
  BY <1>2, MemoryIs
<1>5. cpu \in Mcu
  BY <1>3, <1>4, ResetType
<1> QED BY <1>1, <1>2, <1>3, <1>5 DEF CpuInv

LEMMA CpuInvStep == CpuInv /\ [CpuNext]_machine => CpuInv'
<1>1. CpuInv /\ CpuNext => CpuInv'
  BY TurnOutcome
<1>2. CpuInv /\ UNCHANGED machine => CpuInv'
  BY DEF CpuInv, machine
<1> QED BY <1>1, <1>2

LEMMA InvTypeOK == CpuInv => CpuTypeOK
<1> SUFFICES ASSUME CpuInv PROVE CpuTypeOK
  OBVIOUS
<1>1. cpu.mem \in Memory /\ cpu.page \in [PageRegs -> Octet]
  BY DEF CpuInv, Mcu
<1>2. /\ DOMAIN cpu.mem \subseteq Ram
      /\ \A a \in DOMAIN cpu.mem : cpu.mem[a] \in Octet
  BY <1>1, MemoryIs
<1>3. cpu.cp \in Octet /\ \A p \in PageRegs : cpu.page[p] \in Octet
  BY <1>1 DEF CpuInv, Mcu
<1>4. /\ cpu.r \in [0..7 -> Word] /\ cpu.pc \in Word
      /\ cpu.flags \subseteq Flags /\ cpu.mask \in 0..7
      /\ cpu.trap \subseteq 0..15
  BY DEF CpuInv, Mcu
<1>5. {cpu.sleep, cpu.ignore} \subseteq BOOLEAN
  BY Zenon DEF CpuInv, Mcu
<1> QED BY <1>2, <1>3, <1>4, <1>5 DEF CpuInv, CpuTypeOK

(* The processor keeps its types whatever programs it runs: no instruction  *)
(* takes a register, the program counter, the mask or the memory out of its *)
(* range, at every width and with any interrupts.                           *)
THEOREM CpuTypeCorrect == CpuSpec => []CpuTypeOK
<1> QED BY CpuInvInit, CpuInvStep, InvTypeOK, PTL DEF CpuSpec

----------------------------------------------------------------------------
(* Handlers nest by level. *)

MaskIn(sr) == (sr \div 2^Byte) % 8

\* Each frame holds an SR that masks what ran when it was pushed, so that
\* its handler's end leaves all of that masked.
NestedIn(s, masked) ==
  \A k \in DOMAIN s :
    /\ s[k].level <= masked
    /\ \A j \in 1..k - 1 :
         /\ s[j].level <= MaskIn(s[k].sr)
         /\ s[k].level # 0 => s[j].level < s[k].level
Nested == NestedIn(active, cpu.mask)

LEMMA MaskInSr == \A m \in Mcu : MaskIn(SrOf(m)) = m.mask
<1> SUFFICES ASSUME NEW m \in Mcu PROVE MaskIn(SrOf(m)) = m.mask
  OBVIOUS
<1>1. CcrOf(m) \in Octet /\ m.mask \in Octet /\ m.mask \in 0..7
  <2>1. CcrOf(m) \in 0..15 /\ m.mask \in 0..7
    BY CcrType DEF Mcu
  <2> QED BY <2>1, Sizes DEF Octet
<1>2. SrOf(m) \div 2^Byte = m.mask
  BY <1>1, Halves DEF SrOf
<1> QED BY <1>1, <1>2 DEF MaskIn

LEMMA FetchedTop == \A m \in Mcu : Top(Fetched(m)) = Top(m)
<1> SUFFICES ASSUME NEW m \in Mcu PROVE Top(Fetched(m)) = Top(m)
  OBVIOUS
<1> DEFINE n == Fetched(m)
<1>1. n.r = m.r /\ n.mem = m.mem
  BY DEF Fetched, Mcu
<1> HIDE DEF n
<1>2. \A a : MCU_Read(n, 0, a) = MCU_Read(m, 0, a)
  BY <1>1, Zenon DEF MCU_Read
<1>3. \A a : Load(n, 0, a, Wide) = Load(m, 0, a, Wide)
  BY <1>2 DEF Load
<1> QED BY <1>1, <1>3, Zenon DEF Top, n

(* Levels L below the masks M in the frames above them: one more on top.    *)
LEMMA Rising ==
  ASSUME NEW n \in Nat, NEW L \in [1..n + 1 -> 0..7], NEW M,
         NEW low \in 0..7, NEW top \in 0..7,
         \A k \in 1..n :
           /\ L[k] <= low
           /\ \A j \in 1..k - 1 : L[j] <= M[k] /\ (L[k] # 0 => L[j] < L[k]),
         M[n + 1] = low,
         (L[n + 1] = 0 /\ top = low) \/ (L[n + 1] = top /\ low < top)
  PROVE  \A k \in 1..n + 1 :
           /\ L[k] <= top
           /\ \A j \in 1..k - 1 : L[j] <= M[k] /\ (L[k] # 0 => L[j] < L[k])
<1>1. L[n + 1] \in 0..7 /\ L[n + 1] <= top
  OBVIOUS
<1>2. ASSUME NEW k \in 1..n PROVE L[k] \in 0..7 /\ L[k] <= low /\ L[k] <= top
  <2>1. L[k] \in 0..7 /\ L[k] <= low /\ low <= top
    BY <1>1
  <2> QED BY <2>1
<1>3. ASSUME NEW j \in 1..n PROVE L[j] <= M[n + 1] /\ (L[n + 1] # 0 => L[j] < L[n + 1])
  <2>1. L[j] \in 0..7 /\ L[j] <= low
    BY <1>2, Zenon
  <2> QED BY <1>1, <2>1
<1>4. \A k \in 1..n + 1 : k \in 1..n \/ k = n + 1
  OBVIOUS
<1>5. (n + 1) - 1 = n
  OBVIOUS
<1> QED BY <1>1, <1>2, <1>3, <1>4, <1>5, Zenon

\* A handler on top of those that run masks more than they did.
LEMMA NestedMore ==
  ASSUME NEW q, NEW s, NEW n \in Nat, NEW low \in 0..7, NEW top \in 0..7,
         DOMAIN q = 1..n, DOMAIN s = 1..n + 1,
         \A k \in 1..n : s[k] = q[k] /\ q[k].level \in 0..7,
         NestedIn(q, low), MaskIn(s[n + 1].sr) = low,
         \/ s[n + 1].level = 0 /\ top = low
         \/ s[n + 1].level = top /\ low < top
  PROVE  NestedIn(s, top)
<1> DEFINE L == [k \in 1..n + 1 |-> s[k].level]
           M == [k \in 1..n + 1 |-> MaskIn(s[k].sr)]
<1>1. \A k \in 1..n + 1 : L[k] = s[k].level /\ M[k] = MaskIn(s[k].sr)
  BY Zenon
<1>8. n + 1 \in 1..n + 1 /\ 1..n \subseteq 1..n + 1
  OBVIOUS
<1>2. ASSUME NEW k \in 1..n
      PROVE  L[k] <= low /\ \A j \in 1..k - 1 : L[j] <= M[k] /\ (L[k] # 0 => L[j] < L[k])
  <2>1. s[k] = q[k] /\ k \in DOMAIN q /\ k \in 1..n + 1
    BY <1>8
  <2>2. \A j \in 1..k - 1 : s[j] = q[j] /\ j \in 1..n + 1
    OBVIOUS
  <2> QED BY <1>1, <2>1, <2>2, Zenon DEF NestedIn
<1>3. M[n + 1] = low /\ ((L[n + 1] = 0 /\ top = low) \/ (L[n + 1] = top /\ low < top))
  BY <1>8, <1>1, Zenon
<1>4. L \in [1..n + 1 -> 0..7]
  <2>1. \A k \in 1..n + 1 : k \in 1..n \/ k = n + 1
    OBVIOUS
  <2>2. 0 \in 0..7
    OBVIOUS
  <2>3. \A k \in 1..n + 1 : s[k].level \in 0..7
    BY <2>1, <2>2, Zenon
  <2> QED BY <2>3, Zenon
<1> HIDE DEF L, M
<1>6. \A k \in 1..n + 1 :
           /\ L[k] <= top
           /\ \A j \in 1..k - 1 : L[j] <= M[k] /\ (L[k] # 0 => L[j] < L[k])
  BY <1>2, <1>3, <1>4, Rising, Zenon
<1>7. \A k \in 1..n + 1 : \A j \in 1..k - 1 : j \in 1..n + 1
  OBVIOUS
<1> QED BY <1>1, <1>6, <1>7, Zenon DEF NestedIn

\* A handler that begins leaves the nesting as it is.
LEMMA NestedBegin ==
  ASSUME MachineIs, active \in Seq(Begun), NestedIn(active, cpu.mask)
  PROVE  LET s == active \o NewTurn.begun
         IN NestedIn(s, NewTurn.m.mask) /\ s \in Seq(Begun)
<1> DEFINE t == NewTurn
           n == Len(active)
           s == active \o t.begun
<1>1. t \in Beginning /\ cpu \in Mcu /\ cpu.mask \in 0..7
  BY TurnType DEF MachineIs, Mcu
<1>2. CASE t.begun = <<>>
  <2>1. t.m.mask = cpu.mask
    BY <1>2, TurnType
  <2>2. s = active
    BY <1>2
  <2> QED BY <2>1, <2>2
<1>3. CASE t.begun # <<>>
  <2>1. PICK b \in Begun : t.begun = <<b>>
    BY <1>1, <1>3 DEF Beginning
  <2>2. /\ b.sr = SrOf(cpu)
        /\ \/ b.level = 0 /\ t.m.mask = cpu.mask
           \/ b.level = t.m.mask /\ cpu.mask < t.m.mask
    BY <1>3, <2>1, TurnType
  <2>3. MaskIn(b.sr) = cpu.mask
    BY <1>1, <2>2, MaskInSr
  <2> HIDE DEF t
  <2>4. /\ s \in Seq(Begun) /\ DOMAIN s = 1..n + 1 /\ n \in Nat
        /\ s[n + 1] = b /\ \A k \in 1..n : s[k] = active[k]
    BY <2>1
  <2>5. t.m.mask \in 0..7
    BY <1>1 DEF Beginning, Mcu
  <2>6. \A k \in 1..n : active[k].level \in 0..7
    <3>1. \A x \in Begun : x.level \in 0..7
      BY DEF Begun
    <3>2. \A k \in 1..n : active[k] \in Begun
      OBVIOUS
    <3> QED BY <3>1, <3>2
  <2>7. DOMAIN active = 1..n
    OBVIOUS
  <2> HIDE DEF s, n
  <2>8. NestedIn(s, t.m.mask)
    <3> DEFINE top == t.m.mask
               low == cpu.mask
    <3>1. /\ low \in 0..7 /\ top \in 0..7
          /\ NestedIn(active, low) /\ MaskIn(s[n + 1].sr) = low
          /\ \A k \in 1..n : s[k] = active[k] /\ active[k].level \in 0..7
      BY <1>1, <2>3, <2>4, <2>5, <2>6, Zenon
    <3>2. \/ s[n + 1].level = 0 /\ top = low
          \/ s[n + 1].level = top /\ low < top
      BY <2>2, <2>4, Zenon
    <3> HIDE DEF top, low
    <3>3. NestedIn(s, top)
      BY <2>4, <2>7, <3>1, <3>2, NestedMore, Zenon
    <3> QED BY <3>3 DEF top
  <2> QED BY <2>4, <2>8 DEF s, t
<1> QED BY <1>2, <1>3

LEMMA NestedStep ==
  ASSUME CpuInv, Nested, CpuNext, KeepsFrames
  PROVE  Nested'
<1> DEFINE t == NewTurn
           i == Fetch(t.m)
           running == active \o t.begun
<1>1. /\ t \in Beginning /\ t.m \in Mcu /\ cpu \in Mcu
      /\ active \in Seq(Begun)
  BY TurnType DEF CpuInv, MachineIs, Beginning
<1>2. NestedIn(running, t.m.mask) /\ running \in Seq(Begun)
  BY <1>1, NestedBegin DEF CpuInv, Nested, MachineIs
<1>3. CASE cpu'.mask = t.m.mask /\ active' = running
  BY <1>2, <1>3 DEF Nested
<1>4. CASE \E x, r : TurnOf(x, r) /\ LoadsSr(x) /\ active' = r
  <2>1. /\ ~t.m.sleep /\ InText(t.m) /\ LoadsSr(i) /\ active' = running
    BY <1>4 DEF TurnOf
  <2>2. \A k \in DOMAIN running : running[k].level <= cpu'.mask
    BY <2>1, Zenon DEF KeepsFrames, LoadsSr
  <2> HIDE DEF t, running
  <2> QED BY <1>2, <2>1, <2>2 DEF Nested, NestedIn
<1>5. CASE \E x, r : /\ TurnOf(x, r) /\ x.op = "RTE"
                     /\ cpu'.mask = (Top(Fetched(t.m)) \div 2^Byte) % 8
                     /\ active' = Front(r)
  <2>1. /\ ~t.m.sleep /\ InText(t.m) /\ i.op = "RTE"
        /\ cpu'.mask = MaskIn(Top(Fetched(t.m)))
        /\ active' = Front(running)
    BY <1>5 DEF TurnOf, MaskIn
  <2>2. running # <<>> /\ Top(t.m) = Last(running).sr
    BY <2>1, Zenon DEF KeepsFrames
  <2>3. Top(Fetched(t.m)) = Top(t.m)
    BY <1>1, FetchedTop
  <2> HIDE DEF t, running
  <2>4. cpu'.mask = MaskIn(running[Len(running)].sr)
    BY <2>1, <2>2, <2>3 DEF Last
  <2> DEFINE n == Len(running)
             masked == MaskIn(running[n].sr)
  <2>5. n \in Nat \ {0} /\ DOMAIN running = 1..n
    BY <1>2, <2>2
  <2>6. DOMAIN Front(running) = 1..n - 1
        /\ \A k \in 1..n - 1 : Front(running)[k] = running[k]
    BY <1>2, <2>5 DEF Front
  <2>7. \A k \in 1..n - 1 : running[k].level <= masked
    BY <1>2, <2>5 DEF NestedIn
  <2> HIDE DEF masked
  <2>8. NestedIn(Front(running), masked)
    BY <1>2, <2>5, <2>6, <2>7 DEF NestedIn
  <2> QED BY <2>1, <2>4, <2>8 DEF Nested, masked
<1>6. Outcome
  BY TurnOutcome
<1> QED BY <1>3, <1>4, <1>5, <1>6, Zenon DEF Outcome

(* Handlers nest by level as long as they keep their frames, which is up to *)
(* the firmware: the mask that an interrupt sets, a trap leaves and RTE     *)
(* takes from the frame never lets in what runs or is below it. That is     *)
(* what MCU_Interrupt_StartVector pushes SR for: each frame masks all that  *)
(* was running when it was pushed (Nested).                                 *)
THEOREM HandlersNest == CpuSpec /\ HandlersKeepFrames => []NestingByLevel
<1>1. CpuInit => Nested
  BY DEF CpuInit, Nested, NestedIn
<1>2. CpuInv /\ Nested /\ [CpuNext]_machine /\ [KeepsFrames]_machine => Nested'
  <2>1. CpuInv /\ Nested /\ CpuNext /\ KeepsFrames => Nested'
    BY NestedStep
  <2>2. Nested /\ UNCHANGED machine => Nested'
    BY DEF Nested, machine
  <2> QED BY <2>1, <2>2
<1>3. CpuInv /\ Nested => NestingByLevel
  BY DEF CpuInv, Nested, NestedIn, NestingByLevel
<1> QED BY CpuInvInit, CpuInvStep, <1>1, <1>2, <1>3, PTL
        DEF CpuSpec, HandlersKeepFrames

----------------------------------------------------------------------------
(* What RTE finds is what the interrupt left. *)

LEMMA WriteIs ==
  ASSUME NEW m \in Mcu, NEW a \in Ram, NEW x \in Int
  PROVE  LET n == MCU_Write(m, 0, a, x)
         IN /\ n.r = m.r /\ n.pc = m.pc /\ n.cp = m.cp
            /\ n.flags = m.flags /\ n.mask = m.mask
            /\ MCU_Read(n, 0, a) = Cut(x, Byte)
            /\ \A b : b # a => MCU_Read(n, 0, b) = MCU_Read(m, 0, b)
            /\ n \in Mcu
<1> DEFINE f == [b \in {a} \cup DOMAIN m.mem |->
                  IF b = a THEN Cut(x, Byte) ELSE m.mem[b]]
           n == MCU_Write(m, 0, a, x)
<1>1. n = [m EXCEPT !.mem = f]
  BY DEF MCU_Write
<1>2. DOMAIN f = {a} \cup DOMAIN m.mem /\ f[a] = Cut(x, Byte)
      /\ \A b \in DOMAIN m.mem : b # a => f[b] = m.mem[b]
  OBVIOUS
<1> HIDE DEF f, n
<1>3. /\ n.r = m.r /\ n.pc = m.pc /\ n.cp = m.cp
      /\ n.flags = m.flags /\ n.mask = m.mask /\ n.mem = f
  BY <1>1 DEF Mcu
<1>4. ASSUME NEW b
      PROVE  MCU_Read(n, 0, b) = IF b = a THEN Cut(x, Byte) ELSE MCU_Read(m, 0, b)
  <2>1. CASE b = a
    BY <1>2, <1>3, <2>1 DEF MCU_Read
  <2>2. CASE b # a /\ b \in DOMAIN m.mem
    BY <1>2, <1>3, <2>2 DEF MCU_Read
  <2>3. CASE b # a /\ b \notin DOMAIN m.mem
    BY <1>2, <1>3, <2>3 DEF MCU_Read
  <2> QED BY <2>1, <2>2, <2>3
<1>5. n \in Mcu
  BY WriteType DEF n, MaskKept
<1> QED BY <1>3, <1>4, <1>5 DEF n

\* Two bytes of the word at e, on page 0.
WordAt(m, e) == MCU_Read(m, 0, e) * 2^Byte + MCU_Read(m, 0, e + 1)

LEMMA PushIs ==
  ASSUME NEW m \in Mcu, m.r[7] >= 2, NEW x \in Word,
         Even(m.r[7] - 2) \in Ram, Even(m.r[7] - 2) + 1 \in Ram
  PROVE  LET n == MCU_PushStack(m, x)
             e == Even(m.r[7] - 2)
         IN /\ n \in Mcu /\ n.r[7] = m.r[7] - 2
            /\ n.pc = m.pc /\ n.cp = m.cp
            /\ n.flags = m.flags /\ n.mask = m.mask
            /\ WordAt(n, e) = x
            /\ \A b : b \notin {e, e + 1} => MCU_Read(n, 0, b) = MCU_Read(m, 0, b)
<1> DEFINE a == m.r[7] - 2
           e == Even(a)
           s == SetWord(m, 7, a)
           h == MCU_Write(s, 0, e, x \div 2^Byte)
           l == MCU_Write(h, 0, e + 1, x)
<1>1. a \in Word /\ a \in Int /\ Cut(a, Wide) = a
  <2>1. m.r[7] \in Word /\ m.r[7] \in Nat
    BY RegisterType
  <2>2. a \in Nat /\ a < 2^Wide
    BY <2>1, Sizes DEF Word
  <2> HIDE DEF a
  <2>3. a % 2^Wide = a
    BY <2>2, Sizes
  <2> QED BY <2>2, <2>3, Sizes DEF Word, Cut
<1>2. e \in Int /\ e # e + 1
  <2> HIDE DEF a
  <2> QED BY <1>1 DEF Even
<1>3. x \div 2^Byte \in Octet /\ x % 2^Byte \in Octet
      /\ x = (x \div 2^Byte) * 2^Byte + (x % 2^Byte)
      /\ x \in Int /\ x \div 2^Byte \in Int
  BY Halves, WordsAreNumbers
<1>4. Cut(x \div 2^Byte, Byte) = x \div 2^Byte /\ Cut(x, Byte) = x % 2^Byte
  <2>1. \A y \in Octet : y % 2^Byte = y
    BY Sizes DEF Octet
  <2> QED BY <1>3, <2>1 DEF Cut
<1>5. /\ s \in Mcu /\ s.r[7] = a /\ s.pc = m.pc /\ s.cp = m.cp
      /\ s.flags = m.flags /\ s.mask = m.mask /\ s.mem = m.mem
  <2>1. \A y \in Word : LET n == [m EXCEPT !.r[7] = y]
                        IN /\ n \in Mcu /\ n.r[7] = y /\ n.pc = m.pc /\ n.cp = m.cp
                           /\ n.flags = m.flags /\ n.mask = m.mask /\ n.mem = m.mem
    BY DEF Mcu
  <2>2. s = [m EXCEPT !.r[7] = a]
    BY <1>1, Zenon DEF SetWord
  <2> HIDE DEF s, a
  <2> QED BY <1>1, <2>1, <2>2, Zenon
<1>6. MCU_PushStack(m, x) = l
  <2>1. MCU_PushStack(m, x) = Store(s, 0, s.r[7], x, Wide)
    BY Zenon DEF MCU_PushStack
  <2> HIDE DEF s, a
  <2>2. Store(s, 0, a, x, Wide) = l
    BY Zenon DEF Store
  <2> QED BY <1>5, <2>1, <2>2
<1> HIDE DEF a, e, s, h, l
<1>7. e \in Ram /\ e + 1 \in Ram
  BY DEF e, a
<1>8. /\ h.r = s.r /\ h.pc = s.pc /\ h.cp = s.cp
      /\ h.flags = s.flags /\ h.mask = s.mask
      /\ MCU_Read(h, 0, e) = x \div 2^Byte
      /\ \A b : b # e => MCU_Read(h, 0, b) = MCU_Read(s, 0, b)
      /\ h \in Mcu
  <2> DEFINE y == x \div 2^Byte
  <2>1. y \in Int /\ Cut(y, Byte) = y /\ h = MCU_Write(s, 0, e, y)
    BY <1>3, <1>4, Zenon DEF h
  <2> HIDE DEF y
  <2>2. LET n == MCU_Write(s, 0, e, y)
        IN /\ n.r = s.r /\ n.pc = s.pc /\ n.cp = s.cp
           /\ n.flags = s.flags /\ n.mask = s.mask
           /\ MCU_Read(n, 0, e) = Cut(y, Byte)
           /\ \A b : b # e => MCU_Read(n, 0, b) = MCU_Read(s, 0, b)
           /\ n \in Mcu
    BY <1>5, <1>7, <2>1, WriteIs
  <2> QED BY <2>1, <2>2, Zenon DEF y
<1>9. /\ l.r = h.r /\ l.pc = h.pc /\ l.cp = h.cp
      /\ l.flags = h.flags /\ l.mask = h.mask
      /\ MCU_Read(l, 0, e + 1) = x % 2^Byte
      /\ \A b : b # e + 1 => MCU_Read(l, 0, b) = MCU_Read(h, 0, b)
      /\ l \in Mcu
  <2> DEFINE d == e + 1
  <2>1. d \in Ram /\ l = MCU_Write(h, 0, d, x)
    BY <1>7 DEF l
  <2> HIDE DEF d
  <2>2. LET n == MCU_Write(h, 0, d, x)
        IN /\ n.r = h.r /\ n.pc = h.pc /\ n.cp = h.cp
           /\ n.flags = h.flags /\ n.mask = h.mask
           /\ MCU_Read(n, 0, d) = Cut(x, Byte)
           /\ \A b : b # d => MCU_Read(n, 0, b) = MCU_Read(h, 0, b)
           /\ n \in Mcu
    BY <1>3, <1>8, <2>1, WriteIs
  <2> QED BY <1>4, <2>1, <2>2, Zenon DEF d
<1>10. \A b : MCU_Read(s, 0, b) = MCU_Read(m, 0, b)
  BY <1>5, Zenon DEF MCU_Read
<1>11. MCU_Read(l, 0, e) = x \div 2^Byte /\ MCU_Read(l, 0, e + 1) = x % 2^Byte
  BY <1>2, <1>8, <1>9
<1>12. WordAt(l, e) = x
  BY <1>3, <1>11 DEF WordAt
<1>13. \A b : b \notin {e, e + 1} => MCU_Read(l, 0, b) = MCU_Read(m, 0, b)
  BY <1>8, <1>9, <1>10
<1> QED BY <1>5, <1>6, <1>8, <1>9, <1>12, <1>13 DEF a, e

LEMMA DropIs ==
  ASSUME NEW m \in Mcu, m.r[7] + 2 < 2^Wide
  PROVE  LET n == Drop(m)
         IN /\ n \in Mcu /\ n.r[7] = m.r[7] + 2 /\ n.mem = m.mem
            /\ n.flags = m.flags /\ n.mask = m.mask
<1> DEFINE a == m.r[7] + 2
<1>1. a \in Word /\ Cut(a, Wide) = a
  <2>1. m.r[7] \in Word /\ m.r[7] \in Nat
    BY RegisterType
  <2>2. a \in Nat /\ a < 2^Wide
    BY <2>1
  <2> HIDE DEF a
  <2>3. a % 2^Wide = a
    BY <2>2, Sizes
  <2> QED BY <2>2, <2>3, Sizes DEF Word, Cut
<1>2. \A y \in Word : LET n == [m EXCEPT !.r[7] = y]
                      IN /\ n \in Mcu /\ n.r[7] = y /\ n.mem = m.mem
                         /\ n.flags = m.flags /\ n.mask = m.mask
  BY DEF Mcu
<1>3. PICK y \in Word : y = a /\ Drop(m) = [m EXCEPT !.r[7] = y]
  <2>1. Drop(m) = [m EXCEPT !.r[7] = a]
    BY <1>1, Zenon DEF Drop, SetWord
  <2> HIDE DEF a
  <2> QED BY <1>1, <2>1, Zenon
<1> QED BY <1>2, <1>3

LEMMA TopIs ==
  /\ \A m : Top(m) = WordAt(m, Even(m.r[7]))
  /\ \A m, n : m.mem = n.mem => \A e : WordAt(m, e) = WordAt(n, e)
<1>1. \A m : Top(m) = WordAt(m, Even(m.r[7]))
  BY DEF Top, Load, WordAt
<1>2. ASSUME NEW m, NEW n, m.mem = n.mem
      PROVE  \A e : WordAt(m, e) = WordAt(n, e)
  <2>1. \A b : MCU_Read(m, 0, b) = MCU_Read(n, 0, b)
    BY <1>2, Zenon DEF MCU_Read
  <2> QED BY <2>1 DEF WordAt
<1> QED BY <1>1, <1>2

\* SR holds the flags and the mask, and gives them back.
LEMMA FlagsInSr ==
  ASSUME NEW m \in Mcu
  PROVE  FlagsOf(SrOf(m)) = m.flags /\ MaskIn(SrOf(m)) = m.mask
<1> DEFINE n == IF "N" \in m.flags THEN 8 ELSE 0
           z == IF "Z" \in m.flags THEN 4 ELSE 0
           v == IF "V" \in m.flags THEN 2 ELSE 0
           c == IF "C" \in m.flags THEN 1 ELSE 0
           x == SrOf(m)
<1>1. CcrOf(m) = n + z + v + c
  BY DEF CcrOf, FlagValue
<1>2. PICK q \in Nat : x = 16 * q + (n + z + v + c)
  <2>1. 2^Byte = 16 * (2^Byte \div 16) /\ 2^Byte \div 16 \in Nat
    BY Sizes
  <2>2. m.mask \in Nat
    BY DEF Mcu
  <2> DEFINE k == 2^Byte \div 16
  <2> HIDE DEF k
  <2>3. m.mask * 2^Byte = 16 * (m.mask * k) /\ m.mask * k \in Nat
    BY <2>1, <2>2 DEF k
  <2> HIDE DEF n, z, v, c
  <2>4. x = 16 * (m.mask * k) + (n + z + v + c)
    BY <1>1, <2>3 DEF SrOf
  <2> QED BY <2>3, <2>4
<1>3. n \in {0, 8} /\ z \in {0, 4} /\ v \in {0, 2} /\ c \in {0, 1}
  OBVIOUS
<1>4. /\ (x \div 8) % 2 = 1 <=> n = 8
      /\ (x \div 4) % 2 = 1 <=> z = 4
      /\ (x \div 2) % 2 = 1 <=> v = 2
      /\ (x \div 1) % 2 = 1 <=> c = 1
  <2> HIDE DEF n, z, v, c, x
  <2> QED BY <1>2, <1>3
<1>5. /\ n = 8 <=> "N" \in m.flags
      /\ z = 4 <=> "Z" \in m.flags
      /\ v = 2 <=> "V" \in m.flags
      /\ c = 1 <=> "C" \in m.flags
  OBVIOUS
<1>6. /\ FlagValue("N") = 8 /\ FlagValue("Z") = 4
      /\ FlagValue("V") = 2 /\ FlagValue("C") = 1
  BY DEF FlagValue
<1> HIDE DEF n, z, v, c, x
<1>7. \A f \in {"N", "Z", "V", "C"} :
        (x \div FlagValue(f)) % 2 = 1 <=> f \in m.flags
  BY <1>4, <1>5, <1>6
<1>8. m.flags \subseteq Flags
  BY DEF Mcu
<1>9. FlagsOf(x) = m.flags
  BY <1>7, <1>8, Zenon DEF FlagsOf, Flags
<1> QED BY <1>9, MaskInSr DEF x

\* Where a handler's frame is: the words of PC, CP and SR below m.r[7].
FrameOf(m) ==
  LET e == Even(m.r[7] - 6) IN {e, e + 1, e + 2, e + 3, e + 4, e + 5}

LEMMA FrameIs ==
  ASSUME NEW m \in Mcu, m.r[7] >= 6, FrameOf(m) \subseteq Ram,
         NEW at \in Word, NEW level \in 0..7
  PROVE  LET n == MCU_Interrupt_StartVector(m, at, level)
             e == Even(m.r[7] - 6)
         IN /\ n \in Mcu /\ n.r[7] = m.r[7] - 6
            /\ WordAt(n, e) = SrOf(m)
            /\ WordAt(n, e + 2) = m.cp
            /\ WordAt(n, e + 4) = m.pc
<1> DEFINE a == m.r[7]
           e == Even(a - 6)
           p == MCU_PushStack(m, m.pc)
           q == MCU_PushStack(p, m.cp)
           s == MCU_PushStack(q, SrOf(m))
           n == MCU_Interrupt_StartVector(m, at, level)
<1>1. a \in Nat /\ a \in Word /\ m.pc \in Word /\ m.cp \in Octet /\ SrOf(m) \in Word
  BY RegisterType, CcrType DEF Mcu
<1>2. m.cp \in Word
  BY <1>1, Sizes DEF Octet, Word
<1>3. /\ e \in Int /\ Even(a - 4) = e + 2 /\ Even(a - 2) = e + 4
      /\ {e, e + 1, e + 2, e + 3, e + 4, e + 5} \subseteq Ram
  <2>1. FrameOf(m) = {e, e + 1, e + 2, e + 3, e + 4, e + 5}
    BY DEF FrameOf
  <2> HIDE DEF a
  <2>2. e \in Int /\ Even(a - 4) = e + 2 /\ Even(a - 2) = e + 4
    BY <1>1 DEF Even
  <2> QED BY <2>1, <2>2
<1> HIDE DEF e
<1>4. /\ p \in Mcu /\ p.r[7] = a - 2 /\ p.cp = m.cp
      /\ WordAt(p, e + 4) = m.pc
  BY <1>1, <1>3, PushIs
<1> HIDE DEF p
<1>5. p.r[7] >= 2 /\ p.r[7] - 2 = a - 4
  <2> HIDE DEF a
  <2> QED BY <1>1, <1>4 DEF a
<1>6. /\ q \in Mcu /\ q.r[7] = a - 4 /\ WordAt(q, e + 2) = m.cp
      /\ \A b : b \notin {e + 2, e + 3} => MCU_Read(q, 0, b) = MCU_Read(p, 0, b)
  <2>1. Even(p.r[7] - 2) = e + 2 /\ e + 2 \in Ram /\ (e + 2) + 1 = e + 3
        /\ e + 3 \in Ram
    BY <1>3, <1>5
  <2> QED BY <1>2, <1>4, <1>5, <2>1, PushIs
<1> HIDE DEF q
<1>7. q.r[7] >= 2 /\ q.r[7] - 2 = a - 6
  <2> HIDE DEF a
  <2> QED BY <1>1, <1>6 DEF a
<1>8. /\ s \in Mcu /\ s.r[7] = a - 6 /\ WordAt(s, e) = SrOf(m)
      /\ \A b : b \notin {e, e + 1} => MCU_Read(s, 0, b) = MCU_Read(q, 0, b)
  <2>1. Even(q.r[7] - 2) = e /\ e \in Ram /\ e + 1 \in Ram
    BY <1>3, <1>7 DEF e
  <2> QED BY <1>1, <1>6, <1>7, <2>1, PushIs
<1> HIDE DEF s
<1>9. WordAt(s, e + 4) = m.pc /\ WordAt(s, e + 2) = m.cp
  <2>1. (e + 4) + 1 = e + 5 /\ (e + 2) + 1 = e + 3
    BY <1>3
  <2>2. /\ MCU_Read(s, 0, e + 4) = MCU_Read(p, 0, e + 4)
        /\ MCU_Read(s, 0, e + 5) = MCU_Read(p, 0, e + 5)
        /\ MCU_Read(s, 0, e + 2) = MCU_Read(q, 0, e + 2)
        /\ MCU_Read(s, 0, e + 3) = MCU_Read(q, 0, e + 3)
    <3>1. {e + 4, e + 5, e + 2, e + 3} \cap {e, e + 1} = {}
          /\ {e + 4, e + 5} \cap {e + 2, e + 3} = {}
      BY <1>3
    <3> QED BY <1>6, <1>8, <3>1
  <2> QED BY <1>4, <1>6, <2>1, <2>2 DEF WordAt
<1>10. n \in Mcu
  BY VectorType
<1>11. n.r = s.r /\ n.mem = s.mem
  <2>1. n = [s EXCEPT !.mask = IF level = 0 THEN @ ELSE level,
                      !.sleep = FALSE, !.cp = 0, !.pc = at]
    BY Zenon DEF MCU_Interrupt_StartVector, p, q, s
  <2> DEFINE masked == IF level = 0 THEN s.mask ELSE level
  <2>2. n = [s EXCEPT !.mask = masked, !.sleep = FALSE, !.cp = 0, !.pc = at]
    BY <2>1
  <2> HIDE DEF masked, n
  <2> QED BY <1>8, <2>2 DEF Mcu
<1> HIDE DEF n
<1>12. \A b : WordAt(n, b) = WordAt(s, b)
  BY <1>11, TopIs
<1> QED BY <1>8, <1>9, <1>10, <1>11, <1>12 DEF e, n

(* RTE takes the processor back to where an interrupt or a trap took it     *)
(* from: whatever ran in between, if the stack pointer is back at the frame *)
(* and the six bytes of the frame are as they were pushed, the program      *)
(* counter, its page, the flags, the mask and the stack pointer are those   *)
(* of the program interrupted.                                              *)
THEOREM InterruptUndone ==
  ASSUME NEW m \in Mcu, m.r[7] >= 6, FrameOf(m) \subseteq Ram,
         NEW at \in Word, NEW level \in 0..7,
         NEW k \in Mcu,
         LET n == MCU_Interrupt_StartVector(m, at, level)
         IN /\ k.r[7] = n.r[7]
            /\ \A b \in FrameOf(m) : MCU_Read(k, 0, b) = MCU_Read(n, 0, b)
  PROVE  LET x == RTE(k)
         IN /\ x.pc = m.pc /\ x.cp = m.cp /\ x.r[7] = m.r[7]
            /\ x.flags = m.flags /\ x.mask = m.mask
<1> DEFINE a == m.r[7]
           e == Even(a - 6)
           v == MCU_Interrupt_StartVector(m, at, level)
           s == SetSr(k, Top(k))
           n == Drop(s)
           d == Drop(n)
           l == Drop(d)
<1>1. a \in Nat /\ a < 2^Wide /\ a >= 6
  BY RegisterType, Sizes DEF Word
<1>2. /\ v.r[7] = a - 6 /\ WordAt(v, e) = SrOf(m)
      /\ WordAt(v, e + 2) = m.cp /\ WordAt(v, e + 4) = m.pc
  BY FrameIs
<1> HIDE DEF v
<1>3. /\ k.r[7] = a - 6 /\ WordAt(k, e) = SrOf(m)
      /\ WordAt(k, e + 2) = m.cp /\ WordAt(k, e + 4) = m.pc
  <2>1. FrameOf(m) = {e, e + 1, e + 2, e + 3, e + 4, e + 5}
    BY DEF FrameOf
  <2>2. (e + 4) + 1 = e + 5 /\ (e + 2) + 1 = e + 3
    <3> HIDE DEF a
    <3>1. e \in Int
      BY <1>1 DEF Even
    <3> HIDE DEF e
    <3> QED BY <3>1
  <2>3. k.r[7] = v.r[7] /\ \A b \in FrameOf(m) : MCU_Read(k, 0, b) = MCU_Read(v, 0, b)
    BY DEF v
  <2> HIDE DEF a, e
  <2> QED BY <1>2, <2>1, <2>2, <2>3 DEF WordAt
<1>4. Even(a - 4) = e + 2 /\ Even(a - 2) = e + 4
  <2> HIDE DEF a
  <2> QED BY <1>1 DEF Even
<1>5. Top(k) = SrOf(m)
  BY <1>3, TopIs
<1>6. /\ s \in Mcu /\ s.r = k.r /\ s.mem = k.mem
      /\ s.flags = m.flags /\ s.mask = m.mask
  <2>1. FlagsOf(Top(k)) = m.flags /\ (Top(k) \div 2^Byte) % 8 = m.mask
    BY <1>5, FlagsInSr DEF MaskIn
  <2>2. m.flags \in SUBSET Flags /\ m.mask \in 0..7
    BY DEF Mcu
  <2>3. s = [k EXCEPT !.flags = m.flags, !.mask = m.mask]
    BY <2>1, Zenon DEF SetSr
  <2> HIDE DEF s
  <2> QED BY <2>2, <2>3 DEF Mcu
<1> HIDE DEF a, e, s
<1>7. /\ n \in Mcu /\ n.r[7] = a - 4 /\ n.mem = k.mem
      /\ n.flags = m.flags /\ n.mask = m.mask
  <2>1. s.r[7] + 2 < 2^Wide /\ s.r[7] + 2 = a - 4
    BY <1>1, <1>3, <1>6, Sizes
  <2> QED BY <1>6, <2>1, DropIs
<1> HIDE DEF n
<1>8. /\ d \in Mcu /\ d.r[7] = a - 2 /\ d.mem = k.mem
      /\ d.flags = m.flags /\ d.mask = m.mask
  <2>1. n.r[7] + 2 < 2^Wide /\ n.r[7] + 2 = a - 2
    BY <1>1, <1>7, Sizes
  <2> QED BY <1>7, <2>1, DropIs
<1> HIDE DEF d
<1>9. /\ l \in Mcu /\ l.r[7] = a
      /\ l.flags = m.flags /\ l.mask = m.mask
  <2>1. d.r[7] + 2 < 2^Wide /\ d.r[7] + 2 = a
    BY <1>1, <1>8, Sizes
  <2> QED BY <1>8, <2>1, DropIs
<1> HIDE DEF l
<1>10. Top(n) = m.cp
  <2>1. Top(n) = WordAt(n, e + 2)
    BY <1>4, <1>7, TopIs
  <2>2. n.mem = k.mem => \A b : WordAt(n, b) = WordAt(k, b)
    BY TopIs
  <2> QED BY <1>3, <1>7, <2>1, <2>2
<1>11. Top(d) = m.pc
  <2>1. Top(d) = WordAt(d, e + 4)
    BY <1>4, <1>8, TopIs
  <2>2. d.mem = k.mem => \A b : WordAt(d, b) = WordAt(k, b)
    BY TopIs
  <2> QED BY <1>3, <1>8, <2>1, <2>2
<1>12. Cut(m.pc, Wide) = m.pc /\ Cut(m.cp, Byte) = m.cp
  <2>1. m.pc \in 0..2^Wide - 1 /\ m.cp \in 0..2^Byte - 1
    BY DEF Mcu, Word, Octet
  <2>2. m.pc % 2^Wide = m.pc /\ m.cp % 2^Byte = m.cp
    BY <2>1, Sizes
  <2> QED BY <2>2 DEF Cut
<1>13. RTE(k) = [[[l EXCEPT !.pc = m.pc] EXCEPT !.cp = m.cp] EXCEPT !.ignore = TRUE]
  <2>1. RTE(k) = [GotoPage(l, Top(n), Top(d)) EXCEPT !.ignore = TRUE]
    BY Zenon DEF RTE, l, d, n, s
  <2>2. GotoPage(l, m.cp, m.pc) = [[l EXCEPT !.pc = m.pc] EXCEPT !.cp = m.cp]
    BY <1>12, Zenon DEF GotoPage, Goto
  <2> QED BY <1>10, <1>11, <2>1, <2>2, Zenon
<1>14. m.pc \in Word /\ m.cp \in Octet
  BY DEF Mcu
<1> DEFINE x == RTE(k)
<1>15. x = [[[l EXCEPT !.pc = m.pc] EXCEPT !.cp = m.cp] EXCEPT !.ignore = TRUE]
  BY <1>13
<1> HIDE DEF x
<1>16. /\ x.pc = m.pc /\ x.cp = m.cp /\ x.r = l.r
       /\ x.flags = l.flags /\ x.mask = l.mask
  BY <1>9, <1>14, <1>15 DEF Mcu
<1> QED BY <1>9, <1>16 DEF a, x

----------------------------------------------------------------------------
(* A handler's registers.                                                   *)

(* What SetWord and a push leave of the other registers. *)
LEMMA RegisterSet ==
  \A m \in Mcu, k \in 0..7, x \in Word :
    /\ SetWord(m, k, x) \in Mcu /\ SetWord(m, k, x).r[k] = x
    /\ SetWord(m, k, x).mem = m.mem
    /\ \A q \in 0..7 : q # k => SetWord(m, k, x).r[q] = m.r[q]
<1> SUFFICES ASSUME NEW m \in Mcu, NEW k \in 0..7, NEW x \in Word
             PROVE  /\ SetWord(m, k, x) \in Mcu /\ SetWord(m, k, x).r[k] = x
                    /\ SetWord(m, k, x).mem = m.mem
                    /\ \A q \in 0..7 : q # k => SetWord(m, k, x).r[q] = m.r[q]
  BY Zenon
<1>1. Cut(x, Wide) = x
  BY Sizes DEF Word, Cut
<1>2. LET n == [m EXCEPT !.r[k] = x]
      IN /\ n \in Mcu /\ n.r[k] = x /\ n.mem = m.mem
         /\ \A q \in 0..7 : q # k => n.r[q] = m.r[q]
  BY DEF Mcu
<1> QED BY <1>1, <1>2, Zenon DEF SetWord

LEMMA PushKeeps ==
  ASSUME NEW m \in Mcu, m.r[7] >= 2, NEW x \in Word,
         Even(m.r[7] - 2) \in Ram, Even(m.r[7] - 2) + 1 \in Ram
  PROVE  \A q \in 0..6 : MCU_PushStack(m, x).r[q] = m.r[q]
<1> DEFINE a == m.r[7] - 2
           s == SetWord(m, 7, a)
<1>1. a \in Word
  BY RegisterType, Sizes DEF Word
<1>2. s \in Mcu /\ s.r[7] = a /\ \A q \in 0..6 : s.r[q] = m.r[q]
  <2>1. 7 \in 0..7 /\ \A q \in 0..6 : q \in 0..7 /\ q # 7
    OBVIOUS
  <2> HIDE DEF a
  <2>2. /\ SetWord(m, 7, a) \in Mcu /\ SetWord(m, 7, a).r[7] = a
        /\ \A q \in 0..7 : q # 7 => SetWord(m, 7, a).r[q] = m.r[q]
    BY <1>1, <2>1, RegisterSet
  <2> QED BY <2>1, <2>2, Zenon
<1> DEFINE h == MCU_Write(s, 0, Even(a), x \div 2^Byte)
           l == MCU_Write(h, 0, Even(a) + 1, x)
<1>3. MCU_PushStack(m, x) = l
  <2>1. MCU_PushStack(m, x) = Store(s, 0, s.r[7], x, Wide)
    BY Zenon DEF MCU_PushStack
  <2> HIDE DEF s, a
  <2>2. Store(s, 0, a, x, Wide) = l
    BY Zenon DEF Store
  <2> QED BY <1>2, <2>1, <2>2
<1>4. x \in Int /\ x \div 2^Byte \in Int
  BY Halves, WordsAreNumbers
<1>5. Even(a) \in Ram /\ Even(a) + 1 \in Ram
  OBVIOUS
<1> HIDE DEF s, a, l
<1>6. h \in Mcu /\ h.r = s.r
  BY <1>2, <1>4, <1>5, WriteIs
<1> HIDE DEF h
<1>7. l.r = h.r
  BY <1>4, <1>5, <1>6, WriteIs DEF l
<1> QED BY <1>2, <1>3, <1>6, <1>7

\* The bytes that registers j and above take of the stack.
Under(regs, j) ==
  LET c(k) == IF k \in regs /\ k >= j THEN 2 ELSE 0
  IN c(0) + c(1) + c(2) + c(3) + c(4) + c(5) + c(6) + c(7)

LEMMA UnderIs ==
  ASSUME NEW regs
  PROVE  /\ Under(regs, 8) = 0
         /\ \A j \in 0..7 :
              Under(regs, j)
                = Under(regs, j + 1) + (IF j \in regs THEN 2 ELSE 0)
         /\ \A j \in 0..8 : Under(regs, j) \in Nat /\ Under(regs, j) % 2 = 0
         /\ \A q, j \in 0..8 : q >= j => Under(regs, q) <= Under(regs, j)
<1> DEFINE d(k) == IF k \in regs THEN 2 ELSE 0
           u(j) == Under(regs, j)
<1>1. /\ u(8) = 0 /\ u(7) = d(7) /\ u(6) = d(7) + d(6)
      /\ u(5) = d(7) + d(6) + d(5) /\ u(4) = d(7) + d(6) + d(5) + d(4)
      /\ u(3) = d(7) + d(6) + d(5) + d(4) + d(3)
      /\ u(2) = d(7) + d(6) + d(5) + d(4) + d(3) + d(2)
      /\ u(1) = d(7) + d(6) + d(5) + d(4) + d(3) + d(2) + d(1)
      /\ u(0) = d(7) + d(6) + d(5) + d(4) + d(3) + d(2) + d(1) + d(0)
  BY DEF Under
<1>2. \A k \in 0..7 : d(k) \in {0, 2}
  OBVIOUS
<1> HIDE DEF u, d
<1>3. \A j \in 0..7 : u(j) = u(j + 1) + d(j)
  <2> SUFFICES ASSUME NEW j \in 0..7 PROVE u(j) = u(j + 1) + d(j)
    OBVIOUS
  <2>1. CASE j = 0 BY <1>1, <1>2, <2>1
  <2>2. CASE j = 1 BY <1>1, <1>2, <2>2
  <2>3. CASE j = 2 BY <1>1, <1>2, <2>3
  <2>4. CASE j = 3 BY <1>1, <1>2, <2>4
  <2>5. CASE j = 4 BY <1>1, <1>2, <2>5
  <2>6. CASE j = 5 BY <1>1, <1>2, <2>6
  <2>7. CASE j = 6 BY <1>1, <1>2, <2>7
  <2>8. CASE j = 7 BY <1>1, <1>2, <2>8
  <2> QED BY <2>1, <2>2, <2>3, <2>4, <2>5, <2>6, <2>7, <2>8
<1>4. /\ u(8) \in Nat /\ u(8) % 2 = 0 /\ u(7) \in Nat /\ u(7) % 2 = 0
      /\ u(6) \in Nat /\ u(6) % 2 = 0 /\ u(5) \in Nat /\ u(5) % 2 = 0
      /\ u(4) \in Nat /\ u(4) % 2 = 0 /\ u(3) \in Nat /\ u(3) % 2 = 0
      /\ u(2) \in Nat /\ u(2) % 2 = 0 /\ u(1) \in Nat /\ u(1) % 2 = 0
      /\ u(0) \in Nat /\ u(0) % 2 = 0
  <2>1. u(8) \in Nat /\ u(8) % 2 = 0
    BY <1>1
  <2>2. u(7) \in Nat /\ u(7) % 2 = 0
    <3>1. u(7) = u(8) + d(7) /\ d(7) \in {0, 2}
      BY <1>2, <1>3
    <3> QED BY <2>1, <3>1
  <2>3. u(6) \in Nat /\ u(6) % 2 = 0
    <3>1. u(6) = u(7) + d(6) /\ d(6) \in {0, 2}
      BY <1>2, <1>3
    <3> QED BY <2>2, <3>1
  <2>4. u(5) \in Nat /\ u(5) % 2 = 0
    <3>1. u(5) = u(6) + d(5) /\ d(5) \in {0, 2}
      BY <1>2, <1>3
    <3> QED BY <2>3, <3>1
  <2>5. u(4) \in Nat /\ u(4) % 2 = 0
    <3>1. u(4) = u(5) + d(4) /\ d(4) \in {0, 2}
      BY <1>2, <1>3
    <3> QED BY <2>4, <3>1
  <2>6. u(3) \in Nat /\ u(3) % 2 = 0
    <3>1. u(3) = u(4) + d(3) /\ d(3) \in {0, 2}
      BY <1>2, <1>3
    <3> QED BY <2>5, <3>1
  <2>7. u(2) \in Nat /\ u(2) % 2 = 0
    <3>1. u(2) = u(3) + d(2) /\ d(2) \in {0, 2}
      BY <1>2, <1>3
    <3> QED BY <2>6, <3>1
  <2>8. u(1) \in Nat /\ u(1) % 2 = 0
    <3>1. u(1) = u(2) + d(1) /\ d(1) \in {0, 2}
      BY <1>2, <1>3
    <3> QED BY <2>7, <3>1
  <2>9. u(0) \in Nat /\ u(0) % 2 = 0
    <3>1. u(0) = u(1) + d(0) /\ d(0) \in {0, 2}
      BY <1>2, <1>3
    <3> QED BY <2>8, <3>1
  <2> QED BY <2>1, <2>2, <2>3, <2>4, <2>5, <2>6, <2>7, <2>8, <2>9
<1>5. u(8) <= u(7) /\ u(7) <= u(6) /\ u(6) <= u(5) /\ u(5) <= u(4)
      /\ u(4) <= u(3) /\ u(3) <= u(2) /\ u(2) <= u(1) /\ u(1) <= u(0)
  BY <1>1, <1>2
<1>6. \A j \in 0..8 : u(j) \in Nat /\ u(j) % 2 = 0
  BY <1>4
<1>7. \A q, j \in 0..8 : q >= j => u(q) <= u(j)
  BY <1>4, <1>5
<1> QED BY <1>1, <1>3, <1>6, <1>7 DEF u, d

\* The stack of m with the registers j and above of regs on it, and the
\* stack of k with those below j taken from it.
PushedTo(m, regs, n, j) ==
  /\ n \in Mcu /\ n.r[7] = m.r[7] - Under(regs, j)
  /\ \A q \in 0..6 : n.r[q] = m.r[q]
  /\ \A q \in regs \cap (j..6) :
       WordAt(n, Even(m.r[7]) - Under(regs, q)) = m.r[q]
PoppedTo(m, regs, k, n, j) ==
  /\ n \in Mcu /\ n.r[7] = m.r[7] - Under(regs, j) /\ n.mem = k.mem
  /\ \A q \in 0..6 : IF q \in regs THEN q < j => n.r[q] = m.r[q]
                     ELSE n.r[q] = k.r[q]

\* The bytes that the registers of regs take below m.r[7].
SavedIn(m, regs) == Even(m.r[7]) - Under(regs, 0)..Even(m.r[7]) - 1

LEMMA PushedStep ==
  ASSUME NEW m \in Mcu, NEW regs \in SUBSET (0..7), m.r[7] >= Under(regs, 0),
         SavedIn(m, regs) \subseteq Ram,
         NEW j \in 0..7, NEW n, PushedTo(m, regs, n, j + 1)
  PROVE  PushedTo(m, regs, PushFrom(n, regs, j), j)
<1> DEFINE a == m.r[7]
           e == Even(a) - Under(regs, j)
           u(q) == Under(regs, q)
           x == IF j = 7 THEN n.r[7] - 2 ELSE n.r[j]
           p == MCU_PushStack(n, x)
<1>1. /\ n \in Mcu /\ n.r[7] = a - u(j + 1)
      /\ \A q \in 0..6 : n.r[q] = m.r[q]
      /\ \A q \in regs \cap (j + 1..6) : WordAt(n, Even(a) - u(q)) = m.r[q]
  BY DEF PushedTo
<1>2. CASE j \notin regs
  <2>1. PushFrom(n, regs, j) = n
    BY <1>2, Zenon DEF PushFrom
  <2>2. u(j) = u(j + 1) + 0
    BY <1>2, UnderIs
  <2>3. u(j) = u(j + 1)
    BY <2>2, UnderIs
  <2>4. regs \cap (j..6) = regs \cap (j + 1..6)
    BY <1>2
  <2> HIDE DEF u, a
  <2>5. PushedTo(m, regs, n, j)
    BY <1>1, <2>3, <2>4 DEF PushedTo, u, a
  <2> QED BY <2>1, <2>5
<1>3. CASE j \in regs
  <2>1. PushFrom(n, regs, j) = p
    BY <1>3, Zenon DEF PushFrom
  <2>2. /\ u(j) = u(j + 1) + 2 /\ u(j) \in Nat /\ u(j) % 2 = 0
        /\ u(j) <= u(0) /\ u(j + 1) \in Nat
    BY <1>3, UnderIs
  <2>3. a \in Nat /\ a \in Word /\ a >= u(0) /\ u(0) \in Nat
    BY RegisterType, UnderIs
  <2>4. a >= u(j)
    <3> HIDE DEF a, u
    <3> QED BY <2>2, <2>3
  <2>5. \A q \in regs \cap (j + 1..6) :
          /\ u(q) \in Nat /\ u(q) <= u(j + 1)
    <3>1. \A q \in regs \cap (j + 1..6) :
            q \in 0..8 /\ j + 1 \in 0..8 /\ q >= j + 1
      OBVIOUS
    <3> QED BY <3>1, UnderIs
  <2>6. n.r[7] >= 2 /\ n.r[7] - 2 = a - u(j) /\ Even(n.r[7] - 2) = e
    <3>1. e = Even(a) - u(j)
      OBVIOUS
    <3> HIDE DEF a, u, e
    <3>2. n.r[7] >= 2 /\ n.r[7] - 2 = a - u(j)
      BY <1>1, <2>2, <2>3, <2>4
    <3>3. Even(a - u(j)) = Even(a) - u(j)
      BY <2>2, <2>3 DEF Even
    <3> QED BY <3>1, <3>2, <3>3
  <2>7. e \in Ram /\ e + 1 \in Ram /\ e \in Int
    <3>1. e = Even(a) - u(j) /\ SavedIn(m, regs) = Even(a) - u(0)..Even(a) - 1
      BY DEF SavedIn
    <3>2. Even(a) \in Int
      BY <2>3 DEF Even
    <3> HIDE DEF a, u, e
    <3> DEFINE E == Even(a)
    <3> HIDE DEF E
    <3>3. {e, e + 1} \subseteq E - u(0)..E - 1 /\ e \in Int
      <4>1. e = E - u(j) /\ E \in Int
        BY <3>1, <3>2 DEF E
      <4>2. /\ u(j) \in Nat /\ u(j) >= 2 /\ u(j) <= u(0) /\ u(0) \in Nat
        BY <2>2, <2>3
      <4>3. e \in Int /\ e >= E - u(0) /\ e + 1 <= E - 1
        BY <4>1, <4>2
      <4> QED BY <4>1, <4>2, <4>3
    <3> QED BY <3>1, <3>3 DEF E
  <2>8. x \in Word
    <3>1. CASE j = 7
      <4>1. n.r[7] - 2 \in Nat /\ n.r[7] - 2 < 2^Wide
        BY <1>1, <2>6, RegisterType, Sizes DEF Word
      <4> QED BY <3>1, <4>1, Sizes DEF Word
    <3>2. CASE j # 7
      BY <1>1, <3>2, RegisterType
    <3> QED BY <3>1, <3>2
  <2> HIDE DEF e, x, a, p
  <2>9. /\ p \in Mcu /\ p.r[7] = n.r[7] - 2 /\ WordAt(p, e) = x
        /\ \A b : b \notin {e, e + 1} => MCU_Read(p, 0, b) = MCU_Read(n, 0, b)
    BY <1>1, <2>6, <2>7, <2>8, PushIs DEF p
  <2>10. \A q \in 0..6 : p.r[q] = n.r[q]
    BY <1>1, <2>6, <2>7, <2>8, PushKeeps DEF p
  <2>11. j # 7 => x = m.r[j]
    BY <1>1 DEF x
  <2>12. ASSUME NEW q \in regs \cap (j..6)
         PROVE  WordAt(p, Even(a) - u(q)) = m.r[q]
    <3>1. CASE q = j
      BY <2>9, <2>11, <3>1 DEF e
    <3>2. CASE q # j
      <4> DEFINE f == Even(a) - u(q)
      <4>1. q \in regs \cap (j + 1..6) /\ WordAt(n, f) = m.r[q]
        BY <1>1, <3>2
      <4>2. f \in Int /\ f >= e + 2
        <5>1. Even(a) \in Int
          BY <2>3 DEF Even
        <5>2. u(q) \in Nat /\ u(q) <= u(j + 1)
          BY <2>5, <4>1
        <5>3. f = Even(a) - u(q) /\ e = Even(a) - u(j)
          BY DEF e
        <5> HIDE DEF u, f
        <5> QED BY <2>2, <5>1, <5>2, <5>3
      <4> HIDE DEF f
      <4>3. f \notin {e, e + 1} /\ f + 1 \notin {e, e + 1}
        BY <2>7, <4>2
      <4>4. WordAt(p, f) = WordAt(n, f)
        BY <2>9, <4>3 DEF WordAt
      <4> QED BY <4>1, <4>4 DEF f
    <3> QED BY <3>1, <3>2
  <2>13. p.r[7] = a - u(j)
    BY <2>6, <2>9
  <2>14. \A q \in 0..6 : p.r[q] = m.r[q]
    BY <1>1, <2>10
  <2> QED BY <2>1, <2>9, <2>12, <2>13, <2>14, Zenon DEF PushedTo, a
<1> QED BY <1>2, <1>3

LEMMA PoppedStep ==
  ASSUME NEW m \in Mcu, NEW k \in Mcu, NEW regs \in SUBSET (0..7),
         m.r[7] >= Under(regs, 0),
         \A q \in regs \cap (0..6) :
           WordAt(k, Even(m.r[7]) - Under(regs, q)) = m.r[q],
         NEW j \in 0..7, NEW n, PoppedTo(m, regs, k, n, j)
  PROVE  PoppedTo(m, regs, k, PopInto(n, regs, j), j + 1)
<1>1. \A y \in Word : /\ SetWord(n, j, y) \in Mcu
                      /\ SetWord(n, j, y).r[j] = y
                      /\ SetWord(n, j, y).mem = n.mem
                      /\ \A q \in 0..7 : q # j => SetWord(n, j, y).r[q] = n.r[q]
  <2>1. n \in Mcu
    BY DEF PoppedTo
  <2> QED BY <2>1, RegisterSet, ZenonT(40)
<1> DEFINE a == m.r[7]
           u(q) == Under(regs, q)
           s == SetWord(n, j, Top(n))
           l == IF j = 7 THEN n ELSE s
           p == Drop(l)
<1>2. /\ n \in Mcu /\ n.r[7] = a - u(j) /\ n.mem = k.mem
      /\ \A q \in 0..6 : IF q \in regs THEN q < j => n.r[q] = m.r[q]
                         ELSE n.r[q] = k.r[q]
  BY DEF PoppedTo
<1>3. CASE j \notin regs
  <2>1. PopInto(n, regs, j) = n
    BY <1>3, Zenon DEF PopInto
  <2>2. u(j) = u(j + 1) + 0 /\ u(j + 1) \in Nat
    BY <1>3, UnderIs
  <2>3. \A q \in 0..6 : q \in regs /\ q < j + 1 => q < j
    BY <1>3
  <2> HIDE DEF u, a
  <2>4. u(j) = u(j + 1)
    BY <2>2
  <2>5. \A q \in 0..6 : IF q \in regs THEN q < j + 1 => n.r[q] = m.r[q]
                       ELSE n.r[q] = k.r[q]
    BY <1>2, <2>3, Zenon
  <2> QED BY <1>2, <2>1, <2>4, <2>5, Zenon DEF PoppedTo, u, a
<1>4. CASE j \in regs
  <2>1. PopInto(n, regs, j) = p
    BY <1>4, Zenon DEF PopInto
  <2>2. /\ u(j) = u(j + 1) + 2 /\ u(j) \in Nat /\ u(j) % 2 = 0
        /\ u(j) <= u(0) /\ u(j + 1) \in Nat /\ u(0) \in Nat
    BY <1>4, UnderIs
  <2>3. a \in Nat /\ a \in Word /\ a >= u(0)
    BY RegisterType
  <2>4. Top(n) \in Word /\ (j # 7 => Top(n) = m.r[j])
    <3>1. Top(n) = WordAt(k, Even(a - u(j)))
      BY <1>2, TopIs
    <3>2. Even(a - u(j)) = Even(a) - u(j)
      <4> HIDE DEF a, u
      <4> QED BY <2>2, <2>3 DEF Even
    <3>3. \A b : WordAt(k, b) \in Word
      BY ReadType, Halves DEF WordAt
    <3>4. j # 7 => WordAt(k, Even(a) - u(j)) = m.r[j]
      BY <1>4
    <3> HIDE DEF a, u
    <3> QED BY <3>1, <3>2, <3>3, <3>4
  <2>5. /\ l \in Mcu /\ l.r[7] = n.r[7] /\ l.mem = n.mem
        /\ \A q \in 0..6 : q # j => l.r[q] = n.r[q]
        /\ j # 7 => l.r[j] = Top(n)
    <3>1. CASE j = 7
      BY <1>2, <3>1
    <3>2. CASE j # 7
      <4>1. /\ s \in Mcu /\ s.r[j] = Top(n) /\ s.mem = n.mem
            /\ \A q \in 0..7 : q # j => s.r[q] = n.r[q]
        BY <1>1, <2>4, Zenon
      <4>2. l = s
        BY <3>2 DEF l
      <4> HIDE DEF s, l
      <4> QED BY <3>2, <4>1, <4>2
    <3> QED BY <3>1, <3>2
  <2> HIDE DEF l
  <2>6. /\ p \in Mcu /\ p.r[7] = a - u(j + 1) /\ p.mem = l.mem
        /\ \A q \in 0..6 : p.r[q] = l.r[q]
    <3>1. l.r[7] + 2 = a - u(j + 1)
      <4> HIDE DEF a, u
      <4> QED BY <1>2, <2>2, <2>3, <2>5
    <3>2. a - u(j + 1) \in Word
      <4> HIDE DEF a, u
      <4> QED BY <2>2, <2>3, Sizes DEF Word
    <3>3. p = SetWord(l, 7, a - u(j + 1))
      BY <3>1, Zenon DEF Drop
    <3>4. 7 \in 0..7 /\ \A q \in 0..6 : q \in 0..7 /\ q # 7
      OBVIOUS
    <3> DEFINE y == a - u(j + 1)
    <3>5. y \in Word
      BY <3>2
    <3> HIDE DEF p, y
    <3>6. /\ SetWord(l, 7, y) \in Mcu /\ SetWord(l, 7, y).r[7] = y
          /\ SetWord(l, 7, y).mem = l.mem
          /\ \A q \in 0..7 : q # 7 => SetWord(l, 7, y).r[q] = l.r[q]
      BY <2>5, <3>4, <3>5, RegisterSet
    <3> QED BY <3>3, <3>4, <3>6, Zenon DEF y
  <2> HIDE DEF p
  <2>7. \A q \in 0..6 : IF q \in regs THEN q < j + 1 => p.r[q] = m.r[q]
                       ELSE p.r[q] = k.r[q]
    <3> SUFFICES ASSUME NEW q \in 0..6
                 PROVE  /\ q \in regs /\ q < j + 1 => p.r[q] = m.r[q]
                        /\ q \notin regs => p.r[q] = k.r[q]
      BY Zenon
    <3>1. CASE q = j
      <4>1. p.r[q] = m.r[q]
        BY <2>4, <2>5, <2>6, <3>1
      <4> QED BY <1>4, <3>1, <4>1
    <3>2. CASE q # j
      <4>1. p.r[q] = n.r[q]
        BY <2>5, <2>6, <3>2
      <4>2. q < j + 1 => q < j
        BY <3>2
      <4> QED BY <1>2, <4>1, <4>2, Zenon
    <3> QED BY <3>1, <3>2
  <2>8. p.mem = k.mem
    BY <1>2, <2>5, <2>6
  <2> QED BY <2>1, <2>6, <2>7, <2>8, Zenon DEF PoppedTo
<1> QED BY <1>3, <1>4

(* LDM brings back what STM saved: whatever ran in between, if the stack    *)
(* pointer is where STM left it and the bytes it wrote are as they were,    *)
(* each register of the list is as it was, the others are as they are, and  *)
(* the stack pointer is where it was before STM, also when it is itself one *)
(* of the list.                                                             *)
THEOREM SavedIsRestored ==
  ASSUME NEW m \in Mcu, NEW i, i.regs \in SUBSET (0..7),
         m.r[7] >= Under(i.regs, 0), SavedIn(m, i.regs) \subseteq Ram,
         NEW k \in Mcu, k.r[7] = STM(m, i).r[7],
         \A b \in SavedIn(m, i.regs) :
           MCU_Read(k, 0, b) = MCU_Read(STM(m, i), 0, b)
  PROVE  LET n == LDM(k, i)
         IN /\ n.r[7] = m.r[7] /\ n.mem = k.mem
            /\ \A q \in 0..6 : n.r[q] = IF q \in i.regs THEN m.r[q] ELSE k.r[q]
<1> DEFINE regs == i.regs
           p7 == PushFrom(m, regs, 7)    p6 == PushFrom(p7, regs, 6)
           p5 == PushFrom(p6, regs, 5)   p4 == PushFrom(p5, regs, 4)
           p3 == PushFrom(p4, regs, 3)   p2 == PushFrom(p3, regs, 2)
           p1 == PushFrom(p2, regs, 1)   p0 == PushFrom(p1, regs, 0)
           n1 == PopInto(k, regs, 0)     n2 == PopInto(n1, regs, 1)
           n3 == PopInto(n2, regs, 2)    n4 == PopInto(n3, regs, 3)
           n5 == PopInto(n4, regs, 4)    n6 == PopInto(n5, regs, 5)
           n7 == PopInto(n6, regs, 6)    n8 == PopInto(n7, regs, 7)
<1>1. STM(m, i) = p0 /\ LDM(k, i) = n8
  BY Zenon DEF STM, LDM
<1>2. regs \in SUBSET (0..7)
  OBVIOUS
<1> HIDE DEF regs, p0, p1, p2, p3, p4, p5, p6, p7,
             n1, n2, n3, n4, n5, n6, n7, n8
<1>3. /\ m.r[7] >= Under(regs, 0) /\ SavedIn(m, regs) \subseteq Ram
      /\ k.r[7] = p0.r[7]
      /\ \A b \in SavedIn(m, regs) : MCU_Read(k, 0, b) = MCU_Read(p0, 0, b)
  BY <1>1 DEF regs
<1>4. PushedTo(m, regs, p0, 0)
  <2>1. PushedTo(m, regs, m, 8)
    <3>1. Under(regs, 8) = 0 /\ regs \cap (8..6) = {}
      BY UnderIs
    <3>2. m.r[7] = m.r[7] - 0
      BY RegisterType
    <3> QED BY <3>1, <3>2, Zenon DEF PushedTo
  <2>2. \A j \in 0..7 : \A n : PushedTo(m, regs, n, j + 1)
                           => PushedTo(m, regs, PushFrom(n, regs, j), j)
    BY <1>2, <1>3, PushedStep
  <2>3. /\ 7 + 1 = 8 /\ 6 + 1 = 7 /\ 5 + 1 = 6 /\ 4 + 1 = 5
        /\ 3 + 1 = 4 /\ 2 + 1 = 3 /\ 1 + 1 = 2 /\ 0 + 1 = 1
        /\ {0, 1, 2, 3, 4, 5, 6, 7} \subseteq 0..7
    OBVIOUS
  <2>4. PushedTo(m, regs, p7, 7)
    BY <2>1, <2>2, <2>3 DEF p7
  <2>5. PushedTo(m, regs, p6, 6)
    BY <2>2, <2>3, <2>4 DEF p6
  <2>6. PushedTo(m, regs, p5, 5)
    BY <2>2, <2>3, <2>5 DEF p5
  <2>7. PushedTo(m, regs, p4, 4)
    BY <2>2, <2>3, <2>6 DEF p4
  <2>8. PushedTo(m, regs, p3, 3)
    BY <2>2, <2>3, <2>7 DEF p3
  <2>9. PushedTo(m, regs, p2, 2)
    BY <2>2, <2>3, <2>8 DEF p2
  <2>10. PushedTo(m, regs, p1, 1)
    BY <2>2, <2>3, <2>9 DEF p1
  <2> QED BY <2>2, <2>3, <2>10 DEF p0
<1>5. \A q \in regs \cap (0..6) :
        WordAt(k, Even(m.r[7]) - Under(regs, q)) = m.r[q]
  <2> SUFFICES ASSUME NEW q \in regs \cap (0..6)
               PROVE  WordAt(k, Even(m.r[7]) - Under(regs, q)) = m.r[q]
    OBVIOUS
  <2> DEFINE f == Even(m.r[7]) - Under(regs, q)
  <2>1. WordAt(p0, f) = m.r[q]
    BY <1>4 DEF PushedTo
  <2>2. f \in SavedIn(m, regs) /\ f + 1 \in SavedIn(m, regs)
    <3> DEFINE e == Even(m.r[7])
               u == Under(regs, q)
               v == Under(regs, q + 1)
               w == Under(regs, 0)
    <3>1. /\ u = v + 2 /\ v \in Nat /\ u <= w /\ w \in Nat
      <4>1. q \in 0..7 /\ q \in 0..8 /\ q + 1 \in 0..8 /\ 0 \in 0..8 /\ q >= 0
            /\ q \in regs
        OBVIOUS
      <4> QED BY <4>1, UnderIs
    <3>2. e \in Int
      BY RegisterType DEF Even
    <3>3. f = e - u /\ SavedIn(m, regs) = e - w..e - 1
      BY DEF SavedIn
    <3> HIDE DEF e, u, v, w, f
    <3> QED BY <3>1, <3>2, <3>3
  <2> HIDE DEF f
  <2>3. WordAt(k, f) = WordAt(p0, f)
    BY <1>3, <2>2 DEF WordAt
  <2> QED BY <2>1, <2>3 DEF f
<1>6. PoppedTo(m, regs, k, n8, 8)
  <2>1. PoppedTo(m, regs, k, k, 0)
    <3>1. k.r[7] = m.r[7] - Under(regs, 0)
      BY <1>3, <1>4 DEF PushedTo
    <3>2. \A q \in 0..6 : ~(q < 0)
      OBVIOUS
    <3> QED BY <3>1, <3>2, Zenon DEF PoppedTo
  <2>2. \A j \in 0..7 : \A n : PoppedTo(m, regs, k, n, j)
                 => PoppedTo(m, regs, k, PopInto(n, regs, j), j + 1)
    BY <1>2, <1>3, <1>5, PoppedStep
  <2>3. /\ 7 + 1 = 8 /\ 6 + 1 = 7 /\ 5 + 1 = 6 /\ 4 + 1 = 5
        /\ 3 + 1 = 4 /\ 2 + 1 = 3 /\ 1 + 1 = 2 /\ 0 + 1 = 1
        /\ {0, 1, 2, 3, 4, 5, 6, 7} \subseteq 0..7
    OBVIOUS
  <2>4. PoppedTo(m, regs, k, n1, 1)
    BY <2>1, <2>2, <2>3 DEF n1
  <2>5. PoppedTo(m, regs, k, n2, 2)
    BY <2>2, <2>3, <2>4 DEF n2
  <2>6. PoppedTo(m, regs, k, n3, 3)
    BY <2>2, <2>3, <2>5 DEF n3
  <2>7. PoppedTo(m, regs, k, n4, 4)
    BY <2>2, <2>3, <2>6 DEF n4
  <2>8. PoppedTo(m, regs, k, n5, 5)
    BY <2>2, <2>3, <2>7 DEF n5
  <2>9. PoppedTo(m, regs, k, n6, 6)
    BY <2>2, <2>3, <2>8 DEF n6
  <2>10. PoppedTo(m, regs, k, n7, 7)
    BY <2>2, <2>3, <2>9 DEF n7
  <2> QED BY <2>2, <2>3, <2>10 DEF n8
<1>7. /\ n8.r[7] = m.r[7] /\ n8.mem = k.mem
      /\ \A q \in 0..6 : n8.r[q] = IF q \in regs THEN m.r[q] ELSE k.r[q]
  <2>1. n8.r[7] = m.r[7]
    <3>1. n8.r[7] = m.r[7] - Under(regs, 8)
      BY <1>6, Zenon DEF PoppedTo
    <3>2. Under(regs, 8) = 0 /\ m.r[7] \in Int
      <4>1. 7 \in 0..7
        OBVIOUS
      <4> QED BY <4>1, UnderIs, RegisterType, Zenon
    <3> QED BY <3>1, <3>2
  <2>2. \A q \in 0..6 : q < 8
    OBVIOUS
  <2> QED BY <1>6, <2>1, <2>2, Zenon DEF PoppedTo
<1> QED BY <1>1, <1>7, Zenon DEF regs

----------------------------------------------------------------------------
(* A handler from end to end. *)

(* Dropping a word from the stack leaves the other registers and the pages. *)
LEMMA DropRest ==
  ASSUME NEW m \in Mcu
  PROVE  /\ Drop(m) \in Mcu /\ Drop(m).page = m.page
         /\ \A q \in 0..6 : Drop(m).r[q] = m.r[q]
<1> DEFINE y == Cut(m.r[7] + 2, Wide)
<1>1. y \in Word
  <2>1. m.r[7] + 2 \in Int
    BY RegisterType
  <2> QED BY <2>1, CutType
<1>2. Drop(m) = [m EXCEPT !.r[7] = y]
  BY Zenon DEF Drop, SetWord
<1> HIDE DEF y
<1>3. LET n == [m EXCEPT !.r[7] = y]
      IN n \in Mcu /\ n.page = m.page /\ \A q \in 0..6 : n.r[q] = m.r[q]
  BY <1>1 DEF Mcu
<1> QED BY <1>2, <1>3, Zenon

(* What the entry of a handler and RTE leave of the registers and pages.    *)
LEMMA VectorRest ==
  ASSUME NEW m \in Mcu, m.r[7] >= 6, FrameOf(m) \subseteq Ram,
         NEW at \in Word, NEW level \in 0..7
  PROVE  \A q \in 0..6 : MCU_Interrupt_StartVector(m, at, level).r[q] = m.r[q]
<1> DEFINE a == m.r[7]
           e == Even(a - 6)
           p == MCU_PushStack(m, m.pc)
           q == MCU_PushStack(p, m.cp)
           s == MCU_PushStack(q, SrOf(m))
           n == MCU_Interrupt_StartVector(m, at, level)
<1>1. a \in Nat /\ a \in Word /\ m.pc \in Word /\ m.cp \in Octet /\ SrOf(m) \in Word
  BY RegisterType, CcrType DEF Mcu
<1>2. m.cp \in Word
  BY <1>1, Sizes DEF Octet, Word
<1>3. /\ e \in Int /\ Even(a - 4) = e + 2 /\ Even(a - 2) = e + 4
      /\ {e, e + 1, e + 2, e + 3, e + 4, e + 5} \subseteq Ram
  <2>1. FrameOf(m) = {e, e + 1, e + 2, e + 3, e + 4, e + 5}
    BY DEF FrameOf
  <2> HIDE DEF a
  <2>2. e \in Int /\ Even(a - 4) = e + 2 /\ Even(a - 2) = e + 4
    BY <1>1 DEF Even
  <2> QED BY <2>1, <2>2
<1> HIDE DEF e
<1>4. p \in Mcu /\ p.r[7] = a - 2 /\ \A j \in 0..6 : p.r[j] = m.r[j]
  <2>1. Even(m.r[7] - 2) = e + 4 /\ e + 4 \in Ram /\ (e + 4) + 1 = e + 5 /\ e + 5 \in Ram
    BY <1>3
  <2> QED BY <1>1, <2>1, PushIs, PushKeeps
<1> HIDE DEF p
<1>5. p.r[7] >= 2 /\ p.r[7] - 2 = a - 4
  <2> HIDE DEF a
  <2> QED BY <1>1, <1>4 DEF a
<1>6. q \in Mcu /\ q.r[7] = a - 4 /\ \A j \in 0..6 : q.r[j] = p.r[j]
  <2>1. Even(p.r[7] - 2) = e + 2 /\ e + 2 \in Ram /\ (e + 2) + 1 = e + 3 /\ e + 3 \in Ram
    BY <1>3, <1>5
  <2> QED BY <1>2, <1>4, <1>5, <2>1, PushIs, PushKeeps
<1> HIDE DEF q
<1>7. q.r[7] >= 2 /\ q.r[7] - 2 = a - 6
  <2> HIDE DEF a
  <2> QED BY <1>1, <1>6 DEF a
<1>8. s \in Mcu /\ \A j \in 0..6 : s.r[j] = q.r[j]
  <2>1. Even(q.r[7] - 2) = e /\ e \in Ram /\ e + 1 \in Ram
    BY <1>3, <1>7 DEF e
  <2> QED BY <1>1, <1>6, <1>7, <2>1, PushIs, PushKeeps
<1> HIDE DEF s
<1>9. n.r = s.r
  <2>1. n = [s EXCEPT !.mask = IF level = 0 THEN @ ELSE level,
                      !.sleep = FALSE, !.cp = 0, !.pc = at]
    BY Zenon DEF MCU_Interrupt_StartVector, p, q, s
  <2> DEFINE masked == IF level = 0 THEN s.mask ELSE level
  <2>2. n = [s EXCEPT !.mask = masked, !.sleep = FALSE, !.cp = 0, !.pc = at]
    BY <2>1
  <2> HIDE DEF masked, n
  <2> QED BY <1>8, <2>2 DEF Mcu
<1> QED BY <1>4, <1>6, <1>8, <1>9, Zenon DEF n

LEMMA RteRest ==
  ASSUME NEW m \in Mcu
  PROVE  RTE(m).page = m.page /\ \A q \in 0..6 : RTE(m).r[q] = m.r[q]
<1> DEFINE s == SetSr(m, Top(m))
           n == Drop(s)
           d == Drop(n)
           l == Drop(d)
           g == GotoPage(l, Top(n), Top(d))
<1>1. Top(m) \in Int
  BY PopType
<1>2. s \in Mcu /\ s.page = m.page /\ s.r = m.r
  <2> DEFINE f == FlagsOf(Top(m))  k == (Top(m) \div 2^Byte) % 8
  <2>1. s = [m EXCEPT !.flags = f, !.mask = k]
    BY Zenon DEF SetSr
  <2>2. s \in Mcu
    BY <1>1, SetSrType
  <2> HIDE DEF f, k, s
  <2> QED BY <2>1, <2>2 DEF Mcu
<1>3. RTE(m) = [g EXCEPT !.ignore = TRUE]
  BY Zenon DEF RTE
<1> HIDE DEF s
<1>4. /\ n \in Mcu /\ n.page = s.page /\ \A q \in 0..6 : n.r[q] = s.r[q]
      /\ Top(n) \in Int
  BY <1>2, DropRest, PopType
<1> HIDE DEF n
<1>5. /\ d \in Mcu /\ d.page = n.page /\ \A q \in 0..6 : d.r[q] = n.r[q]
      /\ Top(d) \in Int
  BY <1>4, DropRest, PopType
<1> HIDE DEF d
<1>6. l \in Mcu /\ l.page = d.page /\ \A q \in 0..6 : l.r[q] = d.r[q]
  BY <1>5, DropRest
<1> HIDE DEF l
<1>7. g \in Mcu /\ g.page = l.page /\ g.r = l.r
  <2> DEFINE x == Cut(Top(d), Wide)  y == Cut(Top(n), Byte)
  <2> DEFINE h == [l EXCEPT !.pc = x]
  <2>1. g = [h EXCEPT !.cp = y]
    BY Zenon DEF GotoPage, Goto
  <2>2. x \in Word /\ y \in Octet
    BY <1>4, <1>5, CutType
  <2> HIDE DEF x, y, g
  <2>3. h \in Mcu /\ h.page = l.page /\ h.r = l.r
    BY <1>6, <2>2 DEF Mcu
  <2> HIDE DEF h
  <2>4. LET z == [h EXCEPT !.cp = y] IN z \in Mcu /\ z.page = h.page /\ z.r = h.r
    BY <2>2, <2>3 DEF Mcu
  <2> QED BY <2>1, <2>3, <2>4, Zenon
<1> HIDE DEF g
<1>8. [g EXCEPT !.ignore = TRUE].page = g.page /\ [g EXCEPT !.ignore = TRUE].r = g.r
  BY <1>7 DEF Mcu
<1>9. g.page = m.page /\ \A q \in 0..6 : g.r[q] = m.r[q]
  <2>1. g.page = m.page
    BY <1>2, <1>4, <1>5, <1>6, <1>7, Zenon
  <2>2. ASSUME NEW q \in 0..6 PROVE g.r[q] = m.r[q]
    BY <1>2, <1>4, <1>5, <1>6, <1>7, Zenon
  <2> QED BY <2>1, <2>2, Zenon
<1>10. RTE(m).page = g.page /\ RTE(m).r = g.r
  BY <1>3, <1>8, Zenon
<1> QED BY <1>9, <1>10, Zenon

(* A handler that saves what it uses is invisible. An interrupt or a trap   *)
(* takes the processor from m to a handler that, in the state b, saves the  *)
(* registers i.regs with STM. Whatever it does then: if, when it comes in   *)
(* the state k to the LDM of the same registers, the stack pointer, the     *)
(* bytes saved and those of the frame are as they were, the registers it    *)
(* did not save too, and RTE, in the state c, finds what LDM left and the   *)
(* pages of the program interrupted, then every register, page, flag and    *)
(* mask, and where it goes on, are those of m.                              *)
THEOREM HandlersAreInvisible ==
  ASSUME NEW m \in Mcu, m.r[7] >= 6, FrameOf(m) \subseteq Ram,
         NEW at \in Word, NEW level \in 0..7,
         NEW b \in Mcu, NEW i, i.regs \in SUBSET (0..7),
         LET v == MCU_Interrupt_StartVector(m, at, level)
         IN b.r = v.r /\ b.mem = v.mem,
         b.r[7] >= Under(i.regs, 0), SavedIn(b, i.regs) \subseteq Ram,
         NEW k \in Mcu, k.r[7] = STM(b, i).r[7],
         \A y \in SavedIn(b, i.regs) : MCU_Read(k, 0, y) = MCU_Read(STM(b, i), 0, y),
         \A y \in FrameOf(m) : MCU_Read(k, 0, y) = MCU_Read(b, 0, y),
         \A q \in (0..6) \ i.regs : k.r[q] = m.r[q],
         NEW c \in Mcu, c.r = LDM(k, i).r, c.mem = LDM(k, i).mem, c.page = m.page
  PROVE  LET x == RTE(c)
         IN /\ x.pc = m.pc /\ x.cp = m.cp /\ x.r = m.r /\ x.page = m.page
            /\ x.flags = m.flags /\ x.mask = m.mask
<1> DEFINE v == MCU_Interrupt_StartVector(m, at, level)
           n == LDM(k, i)
           x == RTE(c)
<1>1. /\ n.r[7] = b.r[7] /\ n.mem = k.mem
      /\ \A q \in 0..6 : n.r[q] = IF q \in i.regs THEN b.r[q] ELSE k.r[q]
  BY SavedIsRestored
<1>2. b.r = v.r /\ b.mem = v.mem /\ \A q \in 0..6 : v.r[q] = m.r[q]
  BY VectorRest
<1>3. c.r = n.r /\ c.mem = n.mem
  OBVIOUS
<1> HIDE DEF n
<1>4. \A q \in 0..6 : c.r[q] = m.r[q]
  BY <1>1, <1>2, <1>3
<1> HIDE DEF v
<1>5. \A y \in FrameOf(m) : MCU_Read(c, 0, y) = MCU_Read(v, 0, y)
  <2>1. \A y : MCU_Read(c, 0, y) = MCU_Read(k, 0, y)
    BY <1>1, <1>3, Zenon DEF MCU_Read
  <2>2. \A y : MCU_Read(b, 0, y) = MCU_Read(v, 0, y)
    BY <1>2, Zenon DEF MCU_Read
  <2> QED BY <2>1, <2>2, Zenon
<1>6. c.r[7] = v.r[7]
  BY <1>1, <1>2, <1>3, Zenon
<1>7. /\ x.pc = m.pc /\ x.cp = m.cp /\ x.r[7] = m.r[7]
      /\ x.flags = m.flags /\ x.mask = m.mask
  BY <1>5, <1>6, InterruptUndone DEF v
<1>8. /\ x \in Mcu /\ x.page = c.page
      /\ \A q \in 0..6 : x.r[q] = c.r[q]
  BY RteType, RteRest
<1> HIDE DEF x
<1>9. x.r = m.r
  <2>1. x.r \in [0..7 -> Word] /\ m.r \in [0..7 -> Word]
    BY <1>8 DEF Mcu
  <2>2. \A q \in 0..7 : x.r[q] = m.r[q]
    <3> SUFFICES ASSUME NEW q \in 0..7 PROVE x.r[q] = m.r[q]
      OBVIOUS
    <3>1. q = 7 \/ q \in 0..6
      OBVIOUS
    <3> QED BY <1>4, <1>7, <1>8, <3>1, Zenon
  <2> QED BY <2>1, <2>2
<1> QED BY <1>7, <1>8, <1>9 DEF x

----------------------------------------------------------------------------
(* The linkage of subroutines. *)

(* What a jump leaves of the machine. *)
LEMMA GotoKeeps ==
  \A m \in Mcu, to \in Int, cp \in Int :
    /\ Goto(m, to) \in Mcu /\ GotoPage(m, cp, to) \in Mcu
    /\ Goto(m, to).r = m.r /\ Goto(m, to).mem = m.mem
    /\ Goto(m, to).pc = Cut(to, Wide) /\ Goto(m, to).cp = m.cp
    /\ GotoPage(m, cp, to).r = m.r /\ GotoPage(m, cp, to).mem = m.mem
    /\ GotoPage(m, cp, to).pc = Cut(to, Wide)
    /\ GotoPage(m, cp, to).cp = Cut(cp, Byte)
<1> SUFFICES ASSUME NEW m \in Mcu, NEW to \in Int, NEW cp \in Int
             PROVE  LET g == Goto(m, to)
                        p == GotoPage(m, cp, to)
                    IN /\ g \in Mcu /\ p \in Mcu
                       /\ g.r = m.r /\ g.mem = m.mem
                       /\ g.pc = Cut(to, Wide) /\ g.cp = m.cp
                       /\ p.r = m.r /\ p.mem = m.mem
                       /\ p.pc = Cut(to, Wide) /\ p.cp = Cut(cp, Byte)
  BY Zenon
<1> DEFINE x == Cut(to, Wide)
           y == Cut(cp, Byte)
           g == [m EXCEPT !.pc = x]
           p == [g EXCEPT !.cp = y]
<1>1. Goto(m, to) = g /\ GotoPage(m, cp, to) = p
  BY Zenon DEF Goto, GotoPage
<1>2. x \in Word /\ y \in Octet
  BY CutType
<1> HIDE DEF x, y
<1>3. /\ g \in Mcu /\ g.r = m.r /\ g.mem = m.mem /\ g.pc = x /\ g.cp = m.cp
  BY <1>2 DEF Mcu
<1> HIDE DEF g
<1>4. /\ p \in Mcu /\ p.r = g.r /\ p.mem = g.mem /\ p.pc = g.pc /\ p.cp = y
  BY <1>2, <1>3 DEF Mcu
<1> QED BY <1>1, <1>3, <1>4 DEF x, y

LEMMA RegisterSetKeepsPage ==
  \A m \in Mcu, k \in 0..7, x \in Int :
    SetWord(m, k, x).cp = m.cp /\ SetWord(m, k, x).pc = m.pc
<1> SUFFICES ASSUME NEW m \in Mcu, NEW k \in 0..7, NEW x \in Int
             PROVE  SetWord(m, k, x).cp = m.cp /\ SetWord(m, k, x).pc = m.pc
  BY Zenon
<1> DEFINE y == Cut(x, Wide)
<1>1. y \in Word
  BY CutType
<1> HIDE DEF y
<1>2. LET n == [m EXCEPT !.r[k] = y] IN n.cp = m.cp /\ n.pc = m.pc
  BY <1>1 DEF Mcu
<1> QED BY <1>2, Zenon DEF SetWord, y

LEMMA DropKeepsPage ==
  ASSUME NEW m \in Mcu
  PROVE  Drop(m).cp = m.cp
<1>1. m.r[7] + 2 \in Int /\ 7 \in 0..7
  BY RegisterType
<1> QED BY <1>1, RegisterSetKeepsPage, Zenon DEF Drop

\* The words on the stack of m below its top.
Below(m, d) == Even(m.r[7]) - d

LEMMA BelowIs ==
  ASSUME NEW m \in Mcu, NEW d \in {2, 4}, m.r[7] >= d
  PROVE  /\ Below(m, d) \in Nat /\ Even(m.r[7] - d) = Below(m, d)
         /\ Even(m.r[7]) \in Nat /\ Even(m.r[7]) < 2^Wide
         /\ m.r[7] \in Nat /\ m.r[7] < 2^Wide
<1> DEFINE a == m.r[7]
<1>1. a \in Nat /\ a < 2^Wide
  BY RegisterType, Sizes DEF Word
<1> HIDE DEF a
<1>2. /\ Even(a) - d \in Nat /\ Even(a - d) = Even(a) - d
      /\ Even(a) \in Nat /\ Even(a) < 2^Wide
  <2>1. a >= d
    BY DEF a
  <2> QED BY <1>1, <2>1, Sizes DEF Even
<1> QED BY <1>1, <1>2 DEF a, Below

\* One word pushed below m, and a second one below that.
LEMMA TwoPushed ==
  ASSUME NEW m \in Mcu, m.r[7] >= 2, NEW x \in Word, NEW y \in Word,
         Below(m, 2) \in Ram, Below(m, 2) + 1 \in Ram
  PROVE  LET p == MCU_PushStack(m, x)
             q == MCU_PushStack(p, y)
         IN /\ p \in Mcu /\ p.r[7] = m.r[7] - 2 /\ p.pc = m.pc /\ p.cp = m.cp
            /\ WordAt(p, Below(m, 2)) = x
            /\ m.r[7] >= 4 /\ Below(m, 4) \in Ram /\ Below(m, 4) + 1 \in Ram =>
                 /\ q \in Mcu /\ q.r[7] = m.r[7] - 4
                 /\ WordAt(q, Below(m, 2)) = x /\ WordAt(q, Below(m, 4)) = y
<1> DEFINE p == MCU_PushStack(m, x)
           q == MCU_PushStack(p, y)
           e == Below(m, 2)
           f == Below(m, 4)
<1>1. e = Even(m.r[7] - 2) /\ e \in Nat
  BY BelowIs
<1>2. /\ p \in Mcu /\ p.r[7] = m.r[7] - 2 /\ p.pc = m.pc /\ p.cp = m.cp
      /\ WordAt(p, e) = x
  BY <1>1, PushIs
<1>3. ASSUME m.r[7] >= 4, f \in Ram, f + 1 \in Ram
      PROVE  /\ q \in Mcu /\ q.r[7] = m.r[7] - 4
             /\ WordAt(q, e) = x /\ WordAt(q, f) = y
  <2>1. f = Even(m.r[7] - 4) /\ f \in Nat /\ m.r[7] \in Nat
    BY <1>3, BelowIs
  <2>2. e = f + 2
    <3>1. Even(m.r[7]) \in Nat
      BY BelowIs
    <3> QED BY <3>1 DEF Below
  <2> HIDE DEF p, e, f
  <2>3. p.r[7] >= 2 /\ p.r[7] - 2 = m.r[7] - 4
    BY <1>2, <1>3, <2>1
  <2>4. Even(p.r[7] - 2) = f
    BY <2>1, <2>3
  <2>5. /\ q \in Mcu /\ q.r[7] = p.r[7] - 2 /\ WordAt(q, f) = y
        /\ \A b : b \notin {f, f + 1} => MCU_Read(q, 0, b) = MCU_Read(p, 0, b)
    BY <1>2, <1>3, <2>3, <2>4, PushIs
  <2>6. e \notin {f, f + 1} /\ e + 1 \notin {f, f + 1}
    BY <2>1, <2>2
  <2>7. WordAt(q, e) = WordAt(p, e)
    BY <2>5, <2>6 DEF WordAt
  <2> QED BY <1>2, <2>3, <2>5, <2>7
<1> QED BY <1>2, <1>3 DEF p, q, e, f

\* What a call has put on the stack.
Linkage(m, i) == Even(Call(m, i).r[7])..Even(m.r[7]) - 1

Near == {"BSR", "JSR", "JSRR"}
Far == {"PJSR", "PJSRR"}

LEMMA CallIs ==
  ASSUME NEW m \in Mcu, NEW i, WellFormed(i)
  PROVE  LET p == MCU_PushStack(m, m.pc)
             q == MCU_PushStack(p, m.cp)
         IN /\ i.op \in Near => \E to \in Int : Call(m, i) = Goto(p, to)
            /\ i.op \in Far =>
                 \E to \in Int, cp \in Int : Call(m, i) = GotoPage(q, cp, to)
<1> DEFINE p == MCU_PushStack(m, m.pc)
           q == MCU_PushStack(p, m.cp)
           k == Even(i.r)
<1>1. /\ i.op \in {"BSR", "JSR", "PJSR"} => i.n \in Int
      /\ i.op = "PJSR" => i.page \in Int
      /\ i.op \in {"JSRR", "PJSRR"} => i.r \in 0..7
  BY WordsAreNumbers DEF WellFormed, WithNumber, WithRegister
<1>2. m.pc \in Int /\ m.cp \in Int
  BY WordsAreNumbers DEF Mcu
<1>3. MaskKept(m, p)
  BY <1>2, PushType
<1>4. q \in Mcu
  <2> HIDE DEF p
  <2> QED BY <1>2, <1>3, PushType DEF MaskKept
<1> HIDE DEF q
<1>5. \A j \in 0..7 : p.r[j] \in Int /\ q.r[j] \in Int
  <2> HIDE DEF p
  <2> QED BY <1>3, <1>4, RegisterType DEF MaskKept
<1>6. CASE i.op = "BSR"
  <2>1. Call(m, i) = Goto(p, m.pc + i.n)
    BY <1>6, Zenon DEF Call
  <2> QED BY <1>1, <1>2, <1>6, <2>1 DEF Far
<1>7. CASE i.op = "JSR"
  <2>1. Call(m, i) = Goto(p, i.n)
    BY <1>7, Zenon DEF Call
  <2> QED BY <1>1, <1>7, <2>1 DEF Far
<1>8. CASE i.op = "JSRR"
  <2>1. Call(m, i) = Goto(p, p.r[i.r])
    BY <1>8, Zenon DEF Call
  <2> HIDE DEF p
  <2>2. p.r[i.r] \in Int /\ i.op \notin Far
    BY <1>1, <1>5, <1>8 DEF Far
  <2> QED BY <2>1, <2>2, Zenon DEF p
<1>9. CASE i.op = "PJSR"
  <2>1. Call(m, i) = GotoPage(q, i.page, i.n)
    BY <1>9, Zenon DEF Call, q
  <2> QED BY <1>1, <1>9, <2>1 DEF Near, q
<1>10. CASE i.op = "PJSRR"
  <2>1. Call(m, i) = GotoPage(q, q.r[k], q.r[k + 1])
    BY <1>10, Zenon DEF Call, q
  <2>2. q.r[k] \in Int /\ q.r[k + 1] \in Int
    <3>1. k \in 0..7 /\ k + 1 \in 0..7
      BY <1>1, <1>10, PairIs
    <3> QED BY <1>5, <3>1
  <2> HIDE DEF k
  <2> QED BY <1>10, <2>1, <2>2 DEF Near, q
<1> QED BY <1>6, <1>7, <1>8, <1>9, <1>10 DEF Near, Far

\* The word where x is on top of the stack of k, and what is left.
LEMMA TakenOff ==
  ASSUME NEW k \in Mcu, NEW x, WordAt(k, Even(k.r[7])) = x, k.r[7] + 2 < 2^Wide
  PROVE  /\ Top(k) = x /\ Drop(k) \in Mcu /\ Drop(k).r[7] = k.r[7] + 2
         /\ Drop(k).cp = k.cp /\ \A e : WordAt(Drop(k), e) = WordAt(k, e)
<1> DEFINE d == Drop(k)
<1>1. d \in Mcu /\ d.r[7] = k.r[7] + 2 /\ d.mem = k.mem
  BY DropIs
<1>2. d.cp = k.cp
  BY DropKeepsPage
<1> HIDE DEF d
<1>3. \A e : WordAt(d, e) = WordAt(k, e)
  BY <1>1, TopIs
<1> QED BY <1>1, <1>2, <1>3, TopIs DEF d

(* A subroutine returns to its caller: whatever ran in between, if the stack*)
(* pointer is back where the call left it and what the call pushed is       *)
(* intact, RTS and RTD find the caller's program counter, PRTS its page as  *)
(* well, and the stack pointer is what it was, or for RTD past the          *)
(* arguments.                                                               *)
THEOREM CallsReturn ==
  ASSUME NEW m \in Mcu, m.r[7] >= 4, Below(m, 4)..Even(m.r[7]) - 1 \subseteq Ram,
         NEW i, WellFormed(i),
         NEW k \in Mcu, k.r[7] = Call(m, i).r[7],
         \A b \in Linkage(m, i) : MCU_Read(k, 0, b) = MCU_Read(Call(m, i), 0, b),
         NEW j, WellFormed(j)
  PROVE  LET n == Return(k, j)
         IN /\ i.op \in Near /\ j.op \in {"RTS", "RTD"} =>
                 /\ n.pc = m.pc /\ n.cp = k.cp
                 /\ n.r[7] = IF j.op = "RTS" THEN m.r[7]
                             ELSE Cut(m.r[7] + j.n, Wide)
            /\ i.op \in Far /\ j.op = "PRTS" =>
                 n.pc = m.pc /\ n.cp = m.cp /\ n.r[7] = m.r[7]
<1> DEFINE a == m.r[7]
           e == Below(m, 2)
           f == Below(m, 4)
           c == Call(m, i)
           p == MCU_PushStack(m, m.pc)
           q == MCU_PushStack(p, m.cp)
           n == Return(k, j)
<1>1. /\ a \in Nat /\ a < 2^Wide /\ a >= 4
      /\ f \in Nat /\ e = f + 2 /\ Even(a) = f + 4
      /\ Even(a - 2) = e /\ Even(a - 4) = f
  <2>1. Even(a) \in Nat /\ a \in Nat /\ a < 2^Wide /\ f \in Nat
        /\ Even(a - 4) = f
    BY BelowIs
  <2>2. a >= 2
    BY <2>1
  <2>3. Even(a - 2) = e
    BY <2>2, BelowIs
  <2>4. e = Even(a) - 2 /\ f = Even(a) - 4
    BY DEF Below
  <2> HIDE DEF a, e, f
  <2> QED BY <2>1, <2>3, <2>4 DEF a
<1>2. /\ f \in Ram /\ f + 1 \in Ram /\ e \in Ram /\ e + 1 \in Ram
  <2>1. f..Even(a) - 1 \subseteq Ram
    OBVIOUS
  <2> HIDE DEF a, e, f
  <2> QED BY <1>1, <2>1
<1>3. /\ m.pc \in Word /\ m.cp \in Word /\ m.pc \in Int /\ m.cp \in Int
      /\ Cut(m.pc, Wide) = m.pc /\ Cut(m.cp, Byte) = m.cp
  BY WordsAreNumbers, Sizes DEF Mcu, Cut, Octet, Word
<1>4. /\ p \in Mcu /\ p.r[7] = a - 2 /\ WordAt(p, e) = m.pc
      /\ q \in Mcu /\ q.r[7] = a - 4
      /\ WordAt(q, e) = m.pc /\ WordAt(q, f) = m.cp
  <2>1. a >= 2
    BY <1>1
  <2> QED BY <1>1, <1>2, <1>3, <2>1, TwoPushed
<1> HIDE DEF p, q
<1>5. CASE i.op \in Near /\ j.op \in {"RTS", "RTD"}
  <2>1. PICK to \in Int : c = Goto(p, to)
    BY <1>5, CallIs DEF p
  <2>2. c.r = p.r /\ c.mem = p.mem
    BY <1>4, <2>1, GotoKeeps
  <2>3. k.r[7] = a - 2 /\ WordAt(c, e) = m.pc
    BY <1>4, <2>2, TopIs
  <2>4. Linkage(m, i) = e..e + 1
    <3>1. Even(c.r[7]) = e
      BY <1>1, <2>3
    <3>2. Even(a) - 1 = e + 1
      BY <1>1
    <3> QED BY <3>1, <3>2 DEF Linkage
  <2>5. WordAt(k, e) = m.pc
    <3>1. e \in e..e + 1 /\ e + 1 \in e..e + 1
      BY <1>1
    <3>2. MCU_Read(k, 0, e) = MCU_Read(c, 0, e)
          /\ MCU_Read(k, 0, e + 1) = MCU_Read(c, 0, e + 1)
      BY <2>4, <3>1
    <3> QED BY <2>3, <3>2 DEF WordAt
  <2>6. k.r[7] + 2 = a /\ k.r[7] + 2 < 2^Wide /\ Even(k.r[7]) = e
    BY <1>1, <2>3
  <2> HIDE DEF a, e
  <2> DEFINE d == Drop(k)
             g == Goto(d, m.pc)
  <2>7. Top(k) = m.pc /\ d \in Mcu /\ d.r[7] = a /\ d.cp = k.cp
    BY <2>5, <2>6, TakenOff
  <2> HIDE DEF d
  <2>8. g \in Mcu /\ g.r = d.r /\ g.pc = m.pc /\ g.cp = k.cp
    BY <1>3, <2>7, GotoKeeps
  <2>9. CASE j.op = "RTS"
    <3>1. n = g
      BY <2>7, <2>9, Zenon DEF Return, d
    <3> QED BY <1>5, <2>7, <2>8, <2>9, <3>1 DEF a, Near, Far
  <2>10. CASE j.op = "RTD"
    <3> DEFINE x == g.r[7] + j.n
    <3>1. n = SetWord(g, 7, x)
      BY <2>7, <2>10, Zenon DEF Return, d
    <3>2. x \in Int /\ x = a + j.n
      <4>1. j.n \in Int
        BY <2>10 DEF WellFormed, WithNumber
      <4> QED BY <1>1, <2>7, <2>8, <4>1 DEF a
    <3> HIDE DEF g, x
    <3>3. n.cp = g.cp /\ n.pc = g.pc
      BY <2>8, <3>1, <3>2, RegisterSetKeepsPage
    <3>4. n.r[7] = Cut(x, Wide)
      BY <2>8, <3>1 DEF SetWord, Mcu
    <3> QED BY <1>5, <2>8, <2>10, <3>2, <3>3, <3>4 DEF a, Near, Far
  <2> QED BY <1>5, <2>9, <2>10
<1>6. CASE i.op \in Far /\ j.op = "PRTS"
  <2>1. PICK to \in Int, cp \in Int : c = GotoPage(q, cp, to)
    BY <1>6, CallIs DEF p, q
  <2>2. c.r = q.r /\ c.mem = q.mem
    BY <1>4, <2>1, GotoKeeps
  <2>3. k.r[7] = a - 4 /\ WordAt(c, e) = m.pc /\ WordAt(c, f) = m.cp
    BY <1>4, <2>2, TopIs
  <2>4. Linkage(m, i) = f..f + 3
    <3>1. Even(c.r[7]) = f
      BY <1>1, <2>3
    <3>2. Even(a) - 1 = f + 3
      BY <1>1
    <3> QED BY <3>1, <3>2 DEF Linkage
  <2>5. WordAt(k, e) = m.pc /\ WordAt(k, f) = m.cp
    <3>1. {e, e + 1, f, f + 1} \subseteq f..f + 3
      BY <1>1
    <3>2. \A b \in {e, e + 1, f, f + 1} : MCU_Read(k, 0, b) = MCU_Read(c, 0, b)
      BY <2>4, <3>1
    <3> QED BY <2>3, <3>2 DEF WordAt
  <2> HIDE DEF a, e, f
  <2>6. /\ k.r[7] + 2 = a - 2 /\ k.r[7] + 2 < 2^Wide /\ Even(k.r[7]) = f
        /\ Even(k.r[7] + 2) = e /\ (k.r[7] + 2) + 2 = a
    <3>1. k.r[7] = a - 4 /\ k.r[7] + 2 = a - 2
      BY <1>1, <2>3
    <3>2. Even(k.r[7]) = f /\ Even(k.r[7] + 2) = e
      BY <1>1, <3>1
    <3>3. a - 2 < 2^Wide /\ (a - 2) + 2 = a
      BY <1>1, Sizes
    <3> QED BY <3>1, <3>2, <3>3
  <2> DEFINE d == Drop(k)
             h == Drop(d)
  <2>7. /\ Top(k) = m.cp /\ d \in Mcu /\ d.r[7] = k.r[7] + 2
        /\ WordAt(d, e) = m.pc
    BY <2>5, <2>6, TakenOff
  <2> HIDE DEF d
  <2>8. Top(d) = m.pc /\ h \in Mcu /\ h.r[7] = a
    <3>1. Even(d.r[7]) = e /\ d.r[7] + 2 = a /\ d.r[7] + 2 < 2^Wide
      BY <1>1, <2>6, <2>7
    <3> QED BY <2>7, <3>1, TakenOff
  <2> HIDE DEF h
  <2>9. n = GotoPage(h, m.cp, m.pc)
    BY <1>6, <2>7, <2>8, Zenon DEF Return, d, h
  <2>10. n.r = h.r /\ n.pc = m.pc /\ n.cp = m.cp
    BY <1>3, <2>8, <2>9, GotoKeeps
  <2> QED BY <1>6, <2>8, <2>10 DEF a, Near, Far
<1> QED BY <1>5, <1>6 DEF Near, Far

\* The frame pointer and the stack pointer.
LEMMA PointersSet ==
  ASSUME NEW m \in Mcu, NEW x \in Word
  PROVE  /\ SetWord(m, 6, x) \in Mcu /\ SetWord(m, 6, x).mem = m.mem
         /\ SetWord(m, 6, x).r[6] = x /\ SetWord(m, 6, x).r[7] = m.r[7]
         /\ SetWord(m, 7, x) \in Mcu /\ SetWord(m, 7, x).mem = m.mem
         /\ SetWord(m, 7, x).r[7] = x /\ SetWord(m, 7, x).r[6] = m.r[6]
<1>1. Cut(x, Wide) = x
  BY Sizes DEF Word, Cut
<1>2. LET n == [m EXCEPT !.r[6] = x]
      IN n \in Mcu /\ n.mem = m.mem /\ n.r[6] = x /\ n.r[7] = m.r[7]
  BY DEF Mcu
<1>3. LET n == [m EXCEPT !.r[7] = x]
      IN n \in Mcu /\ n.mem = m.mem /\ n.r[7] = x /\ n.r[6] = m.r[6]
  BY DEF Mcu
<1> QED BY <1>1, <1>2, <1>3, Zenon DEF SetWord

(* UNLK takes down the frame that LINK put up: with the frame pointer where *)
(* LINK left it and the word under it intact, it brings back the caller's   *)
(* frame pointer and stack pointer, wherever the stack pointer is by then.  *)
THEOREM FramesUnlink ==
  ASSUME NEW m \in Mcu, m.r[7] >= 2,
         Below(m, 2) \in Ram, Below(m, 2) + 1 \in Ram,
         NEW i, i.op = "LINK", i.n \in Int,
         NEW k \in Mcu, k.r[6] = Stack(m, i).r[6],
         WordAt(k, Below(m, 2)) = WordAt(Stack(m, i), Below(m, 2)),
         NEW j, j.op = "UNLK"
  PROVE  /\ Stack(k, j).r[6] = m.r[6] /\ Stack(k, j).r[7] = m.r[7]
         /\ Stack(m, i).r[7] = Cut(Stack(m, i).r[6] + i.n, Wide)
<1> DEFINE a == m.r[7]
           e == Below(m, 2)
           p == MCU_PushStack(m, m.r[6])
           s == SetWord(p, 6, p.r[7])
           l == SetWord(s, 7, p.r[7] + i.n)
<1>1. /\ a \in Nat /\ a < 2^Wide /\ a >= 2 /\ e = Even(a - 2) /\ e \in Nat
      /\ m.r[6] \in Word
  BY BelowIs, RegisterType
<1>2. p \in Mcu /\ p.r[7] = a - 2 /\ WordAt(p, e) = m.r[6] /\ p.r[7] \in Word
  <2>1. p \in Mcu /\ p.r[7] = a - 2 /\ WordAt(p, e) = m.r[6]
    BY <1>1, PushIs
  <2> HIDE DEF p
  <2> QED BY <2>1, RegisterType
<1>3. Stack(m, i) = l
  BY Zenon DEF Stack
<1> HIDE DEF p
<1>4. s \in Mcu /\ s.r[6] = a - 2 /\ s.mem = p.mem
  <2> DEFINE x == p.r[7]
  <2>1. p \in Mcu /\ x \in Word
    BY <1>2
  <2> HIDE DEF x
  <2>2. /\ SetWord(p, 6, x) \in Mcu /\ SetWord(p, 6, x).r[6] = x
        /\ SetWord(p, 6, x).mem = p.mem
    BY <2>1, PointersSet
  <2> QED BY <1>2, <2>2 DEF x
<1> HIDE DEF s
<1>5. /\ p.r[7] + i.n \in Int
  BY <1>1, <1>2
<1>6. l.r[6] = a - 2 /\ l.mem = p.mem /\ l.r[7] = Cut(a - 2 + i.n, Wide)
  <2> DEFINE x == Cut(p.r[7] + i.n, Wide)
  <2>1. x \in Word
    BY <1>5, CutType
  <2>2. x = Cut(a - 2 + i.n, Wide)
    BY <1>2
  <2> HIDE DEF x
  <2>3. LET t == [s EXCEPT !.r[7] = x]
        IN t.r[6] = s.r[6] /\ t.mem = s.mem /\ t.r[7] = x
    BY <1>4, <2>1 DEF Mcu
  <2>4. l = [s EXCEPT !.r[7] = x]
    BY Zenon DEF SetWord, x
  <2> QED BY <1>4, <2>2, <2>3, <2>4
<1> HIDE DEF l
<1>7. k.r[6] = a - 2 /\ WordAt(k, e) = m.r[6]
  BY <1>2, <1>3, <1>6, TopIs
<1> DEFINE n == SetWord(k, 7, k.r[6])
           o == SetWord(n, 6, Top(n))
<1>8. n \in Mcu /\ n.r[7] = a - 2 /\ n.mem = k.mem
  <2>1. k.r[6] \in Word
    BY RegisterType
  <2> QED BY <1>7, <2>1, PointersSet
<1>9. Stack(k, j) = Drop(o)
  BY Zenon DEF Stack
<1> HIDE DEF n
<1>10. Top(n) = m.r[6]
  <2>1. Top(n) = WordAt(n, Even(n.r[7])) /\ WordAt(n, e) = WordAt(k, e)
    BY <1>8, TopIs
  <2> QED BY <1>1, <1>7, <1>8, <2>1
<1>11. o \in Mcu /\ o.r[6] = m.r[6] /\ o.r[7] = a - 2
  <2> DEFINE x == m.r[6]
  <2>1. x \in Word /\ o = SetWord(n, 6, x)
    BY <1>1, <1>10
  <2> HIDE DEF o, x
  <2>2. SetWord(n, 6, x) \in Mcu /\ SetWord(n, 6, x).r[6] = x
        /\ SetWord(n, 6, x).r[7] = n.r[7]
    BY <1>8, <2>1, PointersSet
  <2> QED BY <1>8, <2>1, <2>2 DEF x
<1> HIDE DEF o
<1>12. Drop(o).r[6] = m.r[6] /\ Drop(o).r[7] = a
  <2>1. o.r[7] + 2 = a /\ a \in Word
    BY <1>1, <1>11, Sizes DEF Word
  <2>2. Drop(o) = SetWord(o, 7, a)
    BY <2>1, Zenon DEF Drop
  <2> HIDE DEF a
  <2>3. SetWord(o, 7, a).r[7] = a /\ SetWord(o, 7, a).r[6] = o.r[6]
    BY <1>11, <2>1, PointersSet
  <2> QED BY <1>11, <2>2, <2>3
<1> QED BY <1>3, <1>6, <1>9, <1>12
----------------------------------------------------------------------------
(* What the instructions make of numbers, for every width.                  *)

(* A number of w bits is split by its sign. *)
LEMMA Ranges ==
  ASSUME NEW w \in Widths
  PROVE  2^w \in Nat /\ Msb(w) \in Nat /\ Msb(w) > 0 /\ 2^w = 2 * Msb(w)
<1>1. \A k \in 4..8 : 2^k \in Nat /\ 2^(k - 1) \in Nat /\ 2^(k - 1) > 0
                      /\ 2^k = 2 * 2^(k - 1)
  <2> SUFFICES ASSUME NEW k \in 4..8
               PROVE  2^k \in Nat /\ 2^(k - 1) \in Nat /\ 2^(k - 1) > 0
                      /\ 2^k = 2 * 2^(k - 1)
    OBVIOUS
  <2>1. CASE k = 4 BY <2>1
  <2>2. CASE k = 5 BY <2>2
  <2>3. CASE k = 6 BY <2>3
  <2>4. CASE k = 7 BY <2>4
  <2>5. CASE k = 8 BY <2>5
  <2> QED BY <2>1, <2>2, <2>3, <2>4, <2>5
<1>2. \A k \in {8, 10, 12, 14, 16} :
        2^k \in Nat /\ 2^(k - 1) \in Nat /\ 2^(k - 1) > 0
        /\ 2^k = 2 * 2^(k - 1)
  <2>1. 2^8 = 256 /\ 2^7 = 128 /\ 2^10 = 1024 /\ 2^9 = 512
        /\ 2^12 = 4096 /\ 2^11 = 2048 /\ 2^14 = 16384 /\ 2^13 = 8192
        /\ 2^16 = 65536 /\ 2^15 = 32768
    OBVIOUS
  <2> SUFFICES ASSUME NEW k \in {8, 10, 12, 14, 16}
               PROVE  2^k \in Nat /\ 2^(k - 1) \in Nat /\ 2^(k - 1) > 0
                      /\ 2^k = 2 * 2^(k - 1)
    OBVIOUS
  <2>2. CASE k = 8 BY <2>1, <2>2
  <2>3. CASE k = 10 BY <2>1, <2>3
  <2>4. CASE k = 12 BY <2>1, <2>4
  <2>5. CASE k = 14 BY <2>1, <2>5
  <2>6. CASE k = 16 BY <2>1, <2>6
  <2> QED BY <2>2, <2>3, <2>4, <2>5, <2>6
<1>3. w \in 4..8 \/ w \in {8, 10, 12, 14, 16}
  BY ByteSize DEF Widths, Wide
<1> QED BY <1>1, <1>2, <1>3 DEF Msb

(* A sum or difference of signed numbers and its value in w bits: they     *)
(* differ when V is set, and N and V together give its true sign.           *)
LEMMA TrueSign ==
  ASSUME NEW M \in Nat, M > 0, NEW u \in Int, NEW s \in -2*M..2*M - 1,
         NEW k \in -2..2, u = s + k * (2*M)
  PROVE  LET r(v) == ((v + M) % (2*M)) - M
         IN ((r(u) < 0) # (s # r(s))) <=> s < 0
<1> DEFINE B == 2*M
           r(v) == ((v + M) % B) - M
<1>1. B \in Nat /\ B > 0 /\ B = 2 * M
  OBVIOUS
<1> HIDE DEF B
<1>2. r(u) = r(s)
  <2>1. CASE k = 0 BY <1>1, <2>1
  <2>2. CASE k = 1 BY <1>1, <2>2
  <2>3. CASE k = 2 BY <1>1, <2>3
  <2>4. CASE k = -1 BY <1>1, <2>4
  <2>5. CASE k = -2 BY <1>1, <2>5
  <2> QED BY <2>1, <2>2, <2>3, <2>4, <2>5
<1>3. /\ s < -M => r(s) = s + B
      /\ s >= -M /\ s < M => r(s) = s
      /\ s >= M => r(s) = s - B
  <2>1. ASSUME s < -M PROVE r(s) = s + B
    <3>1. (s + M) % B = s + M + B
      BY <1>1, <2>1
    <3> QED BY <1>1, <3>1
  <2>2. ASSUME s >= -M, s < M PROVE r(s) = s
    BY <1>1, <2>2
  <2>3. ASSUME s >= M PROVE r(s) = s - B
    <3>1. (s + M) % B = s + M - B
      BY <1>1, <2>3
    <3> QED BY <1>1, <3>1
  <2> QED BY <2>1, <2>2, <2>3
<1> HIDE DEF r
<1>4. ((r(u) < 0) # (s # r(s))) <=> s < 0
  BY <1>1, <1>2, <1>3
<1> QED BY <1>4 DEF r, B

(* Signed gives the number of w bits its sign. *)
LEMMA SignedIs ==
  ASSUME NEW w \in Widths, NEW x \in 0..2^w - 1
  PROVE  /\ Cut(x, w) = x /\ Signed(x, w) \in -Msb(w)..Msb(w) - 1
         /\ Signed(x, w) = x \/ Signed(x, w) = x - 2^w
<1> DEFINE B == 2^w
           M == Msb(w)
<1>1. B \in Nat /\ M \in Nat /\ M > 0 /\ B = 2 * M /\ x \in 0..B - 1
  BY Ranges
<1>2. Cut(x, w) = x % B /\ Signed(x, w) = ((x + M) % B) - M
  BY DEF Cut, Signed
<1> HIDE DEF B, M
<1>3. x % B = x
  BY <1>1
<1>4. /\ x < M => (x + M) % B = x + M
      /\ x >= M => (x + M) % B = x + M - B
  BY <1>1
<1> QED BY <1>1, <1>2, <1>3, <1>4 DEF B, M

(* What an addition leaves in the flags: the carry, and in N and V the     *)
(* sign of the true sum.                                                    *)
LEMMA AddFlags ==
  ASSUME NEW w \in Widths, NEW x \in 0..2^w - 1, NEW y \in 0..2^w - 1,
         NEW c \in {0, 1}
  PROVE  LET s == ADD_Common(x, y, c, w)
         IN /\ s.val = (x + y + c) % 2^w
            /\ "Z" \in s.flags <=> s.val = 0
            /\ "C" \in s.flags <=> x + y + c >= 2^w
            /\ Taken("BLT", s.flags)
                 <=> Signed(x, w) + Signed(y, w) + c < 0
<1> DEFINE B == 2^w
           M == Msb(w)
           flags == ADD_Common(x, y, c, w).flags
           val == ADD_Common(x, y, c, w).val
           sx == Signed(x, w)
           sy == Signed(y, w)
           u == x + y + c
           s == sx + sy + c
           r(v) == ((v + M) % (2*M)) - M
<1>1. /\ M \in Nat /\ M > 0 /\ B = 2 * M /\ x \in 0..B - 1 /\ y \in 0..B - 1
      /\ sx \in -M..M - 1 /\ sy \in -M..M - 1
      /\ sx = x \/ sx = x - 2 * M
      /\ sy = y \/ sy = y - 2 * M
      /\ Cut(x, w) = x /\ Cut(y, w) = y
  BY Ranges, SignedIs
<1>2. \A v : Cut(v, w) = v % B /\ Signed(v, w) = ((v + M) % B) - M
  BY DEF Cut, Signed
<1>3. /\ val = Cut(u, w)
      /\ flags = Sign(u, w) \cup Raise("C", u >= B)
                   \cup Raise("V", s # Signed(s, w))
  BY <1>1 DEF ADD_Common
<1>4. u = x + y + c /\ s = sx + sy + c
  OBVIOUS
<1>5. u >= B <=> x + y + c >= 2^w
  BY <1>1, <1>4
<1> HIDE DEF flags, val, sx, sy, M, B, u, s
<1>6. /\ "Z" \in flags <=> Cut(u, w) = 0
      /\ "N" \in flags <=> Signed(u, w) < 0
      /\ "C" \in flags <=> u >= B
      /\ "V" \in flags <=> s # Signed(s, w)
  BY <1>3 DEF Sign, Raise
<1>7. u \in Int /\ s \in -2*M..2*M - 1
  BY <1>1, <1>4
<1>8. \E k \in -2..2 : u = s + k * (2*M)
  <2>1. \/ u = s + 0 * (2*M)
        \/ u = s + 1 * (2*M)
        \/ u = s + 2 * (2*M)
        \/ u = s + (-1) * (2*M)
    BY <1>1, <1>4
  <2> QED BY <2>1
<1>9. ((r(u) < 0) # (s # r(s))) <=> s < 0
  BY <1>1, <1>7, <1>8, TrueSign
<1>10. Taken("BLT", flags) <=> s < 0
  <2>1. \A v : Signed(v, w) = r(v)
    BY <1>1, <1>2
  <2>2. (("N" \in flags) # ("V" \in flags)) <=> s < 0
    BY <1>6, <1>9, <2>1
  <2> QED BY <2>2 DEF Taken
<1>11. val = u % B
  BY <1>2, <1>3
<1> QED BY <1>3, <1>4, <1>5, <1>6, <1>10, <1>11 DEF flags, val, sx, sy, B

(* What a subtraction leaves in them: the borrow, and the sign of the true  *)
(* difference.                                                              *)
LEMMA SubFlags ==
  ASSUME NEW w \in Widths, NEW x \in 0..2^w - 1, NEW y \in 0..2^w - 1,
         NEW c \in {0, 1}
  PROVE  LET s == SUB_Common(x, y, c, w)
         IN /\ s.val = (x - y - c) % 2^w
            /\ "Z" \in s.flags <=> s.val = 0
            /\ "C" \in s.flags <=> x - y - c < 0
            /\ Taken("BLT", s.flags)
                 <=> Signed(x, w) - Signed(y, w) - c < 0
<1> DEFINE B == 2^w
           M == Msb(w)
           flags == SUB_Common(x, y, c, w).flags
           val == SUB_Common(x, y, c, w).val
           sx == Signed(x, w)
           sy == Signed(y, w)
           u == x - y - c
           s == sx - sy - c
           r(v) == ((v + M) % (2*M)) - M
<1>1. /\ M \in Nat /\ M > 0 /\ B = 2 * M /\ x \in 0..B - 1 /\ y \in 0..B - 1
      /\ sx \in -M..M - 1 /\ sy \in -M..M - 1
      /\ sx = x \/ sx = x - 2 * M
      /\ sy = y \/ sy = y - 2 * M
      /\ Cut(x, w) = x /\ Cut(y, w) = y
  BY Ranges, SignedIs
<1>2. \A v : Cut(v, w) = v % B /\ Signed(v, w) = ((v + M) % B) - M
  BY DEF Cut, Signed
<1>3. /\ val = Cut(u, w)
      /\ flags = Sign(u, w) \cup Raise("C", u < 0)
                   \cup Raise("V", s # Signed(s, w))
  BY <1>1 DEF SUB_Common
<1>4. u = x - y - c /\ s = sx - sy - c
  OBVIOUS
<1>5. u < 0 <=> x - y - c < 0
  BY <1>1, <1>4
<1> HIDE DEF flags, val, sx, sy, M, B, u, s
<1>6. /\ "Z" \in flags <=> Cut(u, w) = 0
      /\ "N" \in flags <=> Signed(u, w) < 0
      /\ "C" \in flags <=> u < 0
      /\ "V" \in flags <=> s # Signed(s, w)
  BY <1>3 DEF Sign, Raise
<1>7. u \in Int /\ s \in -2*M..2*M - 1
  BY <1>1, <1>4
<1>8. \E k \in -2..2 : u = s + k * (2*M)
  <2>1. \/ u = s + 0 * (2*M)
        \/ u = s + 1 * (2*M)
        \/ u = s + 2 * (2*M)
        \/ u = s + (-1) * (2*M)
    BY <1>1, <1>4
  <2> QED BY <2>1
<1>9. ((r(u) < 0) # (s # r(s))) <=> s < 0
  BY <1>1, <1>7, <1>8, TrueSign
<1>10. Taken("BLT", flags) <=> s < 0
  <2>1. \A v : Signed(v, w) = r(v)
    BY <1>1, <1>2
  <2>2. (("N" \in flags) # ("V" \in flags)) <=> s < 0
    BY <1>6, <1>9, <2>1
  <2> QED BY <2>2 DEF Taken
<1>11. val = u % B
  BY <1>2, <1>3
<1> QED BY <1>3, <1>4, <1>5, <1>6, <1>10, <1>11 DEF flags, val, sx, sy, B

(* After a comparison the branches mean what they are called: the unsigned  *)
(* ones compare the numbers, the signed ones what these are as signed ones, *)
(* also where the difference leaves the range (MCU_SUB_Common, CMP, Bcc).   *)
THEOREM CompareTells ==
  ASSUME NEW w \in Widths, NEW x \in 0..2^w - 1, NEW y \in 0..2^w - 1
  PROVE  LET flags == SUB_Common(x, y, 0, w).flags
             sx == Signed(x, w)
             sy == Signed(y, w)
         IN /\ Taken("BEQ", flags) <=> x = y
            /\ Taken("BNE", flags) <=> x # y
            /\ Taken("BCS", flags) <=> x < y
            /\ Taken("BCC", flags) <=> x >= y
            /\ Taken("BLS", flags) <=> x <= y
            /\ Taken("BHI", flags) <=> x > y
            /\ Taken("BLT", flags) <=> sx < sy
            /\ Taken("BGE", flags) <=> sx >= sy
            /\ Taken("BLE", flags) <=> sx <= sy
            /\ Taken("BGT", flags) <=> sx > sy
<1> DEFINE B == 2^w
           flags == SUB_Common(x, y, 0, w).flags
           sx == Signed(x, w)
           sy == Signed(y, w)
<1>1. /\ B \in Nat /\ x \in 0..B - 1 /\ y \in 0..B - 1
      /\ sx \in Int /\ (sx = x \/ sx = x - B)
      /\ sy \in Int /\ (sy = y \/ sy = y - B)
      /\ sx = sy <=> x = y
  <2>1. /\ Msb(w) \in Nat /\ B = 2 * Msb(w) /\ x \in 0..B - 1 /\ y \in 0..B - 1
        /\ sx \in -Msb(w)..Msb(w) - 1 /\ sy \in -Msb(w)..Msb(w) - 1
        /\ sx = x \/ sx = x - B
        /\ sy = y \/ sy = y - B
    BY Ranges, SignedIs
  <2> HIDE DEF B, sx, sy
  <2> QED BY <2>1
<1>2. /\ "Z" \in flags <=> (x - y - 0) % B = 0
      /\ "C" \in flags <=> x - y - 0 < 0
      /\ Taken("BLT", flags) <=> sx - sy - 0 < 0
  BY SubFlags
<1> HIDE DEF flags, sx, sy, B
<1>3. (x - y - 0) % B = 0 <=> x = y
  BY <1>1
<1>4. /\ Taken("BEQ", flags) <=> "Z" \in flags
      /\ Taken("BNE", flags) <=> "Z" \notin flags
      /\ Taken("BCS", flags) <=> "C" \in flags
      /\ Taken("BCC", flags) <=> "C" \notin flags
      /\ Taken("BLS", flags) <=> "C" \in flags \/ "Z" \in flags
      /\ Taken("BHI", flags) <=> "C" \notin flags /\ "Z" \notin flags
      /\ Taken("BGE", flags) <=> ~Taken("BLT", flags)
      /\ Taken("BLE", flags) <=> Taken("BLT", flags) \/ "Z" \in flags
      /\ Taken("BGT", flags) <=> ~Taken("BLT", flags) /\ "Z" \notin flags
  BY DEF Taken
<1>5. /\ Taken("BEQ", flags) <=> x = y
      /\ Taken("BNE", flags) <=> x # y
      /\ Taken("BCS", flags) <=> x < y
      /\ Taken("BCC", flags) <=> x >= y
      /\ Taken("BLS", flags) <=> x <= y
      /\ Taken("BHI", flags) <=> x > y
      /\ Taken("BLT", flags) <=> sx < sy
      /\ Taken("BGE", flags) <=> sx >= sy
      /\ Taken("BLE", flags) <=> sx <= sy
      /\ Taken("BGT", flags) <=> sx > sy
  BY <1>1, <1>2, <1>3, <1>4
<1> QED BY <1>5 DEF flags, sx, sy

(* Two digits make a number, with what the digits carry or borrow.          *)
LEMMA Digits ==
  ASSUME NEW b \in Nat, b > 0
  PROVE  /\ \A h, l \in 0..b - 1 : h * b + l \in 0..b * b - 1
         /\ \A h, l \in 0..b - 1 : h * b + l = 0 <=> h = 0 /\ l = 0
         /\ \A t \in 0..2 * b - 1 :
              t % b = IF t < b THEN t ELSE t - b
         /\ \A t \in -b..b - 1 :
              t % b = IF t < 0 THEN t + b ELSE t
<1>1. ASSUME NEW h \in 0..b - 1, NEW l \in 0..b - 1
      PROVE  h * b + l \in 0..b * b - 1 /\ (h * b + l = 0 <=> h = 0 /\ l = 0)
  <2>1. h * b <= (b - 1) * b /\ h * b >= 0 /\ h * b \in Int
    OBVIOUS
  <2>2. (b - 1) * b = b * b - b /\ b * b \in Int
    OBVIOUS
  <2>3. h # 0 => h * b >= b
    OBVIOUS
  <2>4. h = 0 => h * b = 0
    OBVIOUS
  <2> QED BY <2>1, <2>2, <2>3, <2>4
<1>2. \A t \in 0..2 * b - 1 : t % b = IF t < b THEN t ELSE t - b
  OBVIOUS
<1>3. \A t \in -b..b - 1 : t % b = IF t < 0 THEN t + b ELSE t
  OBVIOUS
<1> QED BY <1>1, <1>2, <1>3

LEMMA LongSum ==
  ASSUME NEW b \in Nat, b > 0,
         NEW xh \in 0..b - 1, NEW xl \in 0..b - 1,
         NEW yh \in 0..b - 1, NEW yl \in 0..b - 1,
         NEW c, c = IF xl + yl >= b THEN 1 ELSE 0,
         NEW low, low = (xl + yl) % b,
         NEW high, high = (xh + yh + c) % b,
         NEW sum, sum = (xh * b + xl) + (yh * b + yl)
  PROVE  /\ sum % (b * b) = high * b + low
         /\ sum >= b * b <=> xh + yh + c >= b
         /\ sum % (b * b) = 0 <=> high = 0 /\ low = 0
<1> DEFINE t == xh + yh + c
           k == IF t >= b THEN 1 ELSE 0
<1>1. /\ xl + yl = c * b + low /\ low \in 0..b - 1 /\ c \in {0, 1}
      /\ t = k * b + high /\ high \in 0..b - 1 /\ k \in {0, 1}
      /\ t >= b <=> k = 1
  BY Digits
<1>2. t = xh + yh + c
  OBVIOUS
<1> HIDE DEF t, k
<1>3. sum = t * b + low
  BY <1>1, <1>2
<1>4. t * b = k * (b * b) + high * b
  BY <1>1
<1> DEFINE n == high * b + low
           bb == b * b
<1>5. n \in 0..bb - 1 /\ (n = 0 <=> high = 0 /\ low = 0) /\ bb \in Nat
  BY <1>1, Digits
<1>6. sum = k * bb + n
  BY <1>1, <1>3, <1>4
<1> HIDE DEF n, bb
<1>7. sum % bb = n /\ (sum >= bb <=> k = 1)
  <2>1. CASE k = 0 BY <1>5, <1>6, <2>1
  <2>2. CASE k = 1 BY <1>5, <1>6, <2>2
  <2> QED BY <1>1, <2>1, <2>2
<1> QED BY <1>1, <1>5, <1>7 DEF n, bb, t

LEMMA LongDifference ==
  ASSUME NEW b \in Nat, b > 0,
         NEW xh \in 0..b - 1, NEW xl \in 0..b - 1,
         NEW yh \in 0..b - 1, NEW yl \in 0..b - 1,
         NEW c, c = IF xl - yl < 0 THEN 1 ELSE 0,
         NEW low, low = (xl - yl) % b,
         NEW high, high = (xh - yh - c) % b,
         NEW difference, difference = (xh * b + xl) - (yh * b + yl)
  PROVE  /\ difference % (b * b) = high * b + low
         /\ difference < 0 <=> xh - yh - c < 0
<1> DEFINE t == xh - yh - c
           k == IF t < 0 THEN 1 ELSE 0
<1>1. /\ xl - yl = low - c * b /\ low \in 0..b - 1 /\ c \in {0, 1}
      /\ t = high - k * b /\ high \in 0..b - 1 /\ k \in {0, 1}
      /\ t < 0 <=> k = 1
  BY Digits
<1>2. t = xh - yh - c
  OBVIOUS
<1> HIDE DEF t, k
<1>3. difference = t * b + low
  BY <1>1, <1>2
<1>4. t * b = high * b - k * (b * b)
  BY <1>1
<1> DEFINE n == high * b + low
           bb == b * b
<1>5. n \in 0..bb - 1 /\ bb \in Nat
  BY <1>1, Digits
<1>6. difference = n - k * bb
  BY <1>1, <1>3, <1>4
<1> HIDE DEF n, bb
<1>7. difference % bb = n /\ (difference < 0 <=> k = 1)
  <2>1. CASE k = 0 BY <1>5, <1>6, <2>1
  <2>2. CASE k = 1 BY <1>5, <1>6, <2>2
  <2> QED BY <1>1, <2>1, <2>2
<1> QED BY <1>1, <1>7 DEF n, bb, t

(* A number of two words or bytes is added in two instructions, with the    *)
(* carry between them: the result, its carry, its zero and its sign are     *)
(* those of the whole (ADD, then ADDX, which keeps a cleared Z).            *)
THEOREM LongAddition ==
  ASSUME NEW w \in Widths,
         NEW xh \in 0..2^w - 1, NEW xl \in 0..2^w - 1,
         NEW yh \in 0..2^w - 1, NEW yl \in 0..2^w - 1
  PROVE  LET b == 2^w
             low == ADD_Common(xl, yl, 0, w)
             high == ADDX(xh, yh, low.flags, w)
             sum == (xh * b + xl) + (yh * b + yl)
         IN /\ high.val * b + low.val = sum % (b * b)
            /\ "C" \in high.flags <=> sum >= b * b
            /\ "Z" \in high.flags <=> sum % (b * b) = 0
            /\ Taken("BLT", high.flags)
                 <=> (Signed(xh, w) * b + xl) + (Signed(yh, w) * b + yl) < 0
<1> DEFINE b == 2^w
           low == ADD_Common(xl, yl, 0, w)
           c == IF xl + yl >= b THEN 1 ELSE 0
           common == ADD_Common(xh, yh, c, w)
           high == ADDX(xh, yh, low.flags, w)
           sum == (xh * b + xl) + (yh * b + yl)
           sxh == Signed(xh, w)
           syh == Signed(yh, w)
<1>1. /\ b \in Nat /\ b > 0
      /\ xh \in 0..b - 1 /\ xl \in 0..b - 1
      /\ yh \in 0..b - 1 /\ yl \in 0..b - 1
      /\ c \in {0, 1} /\ sxh \in Int /\ syh \in Int
  <2>1. b \in Nat /\ b > 0 /\ Msb(w) \in Nat
    BY Ranges
  <2>2. sxh \in -Msb(w)..Msb(w) - 1 /\ syh \in -Msb(w)..Msb(w) - 1
    BY SignedIs
  <2> HIDE DEF b, sxh, syh
  <2> QED BY <2>1, <2>2 DEF b
<1>2. /\ low.val = (xl + yl + 0) % b
      /\ "Z" \in low.flags <=> low.val = 0
      /\ "C" \in low.flags <=> xl + yl + 0 >= b
  BY AddFlags
<1>3. /\ common.val = (xh + yh + c) % b
      /\ "Z" \in common.flags <=> common.val = 0
      /\ "C" \in common.flags <=> xh + yh + c >= b
      /\ Taken("BLT", common.flags) <=> sxh + syh + c < 0
  BY <1>1, AddFlags
<1>4. (IF "C" \in low.flags THEN 1 ELSE 0) = c
  <2>1. xl + yl + 0 = xl + yl
    BY <1>1
  <2> QED BY <1>2, <2>1
<1>5. /\ high.val = common.val
      /\ "Z" \in high.flags <=> "Z" \in common.flags /\ "Z" \in low.flags
      /\ \A f \in {"C", "N", "V"} : f \in high.flags <=> f \in common.flags
  <2>1. high = [common EXCEPT !.flags =
                  IF "Z" \in low.flags THEN @ ELSE @ \ {"Z"}]
    BY <1>4, Zenon DEF ADDX
  <2>2. common = [val |-> common.val, flags |-> common.flags]
    BY DEF ADD_Common
  <2> HIDE DEF common, high, low
  <2>3. /\ high.val = common.val
        /\ high.flags = IF "Z" \in low.flags THEN common.flags
                        ELSE common.flags \ {"Z"}
    BY <2>1, <2>2
  <2> QED BY <2>3
<1>6. Taken("BLT", high.flags) <=> Taken("BLT", common.flags)
  BY <1>5 DEF Taken
<1> HIDE DEF b, c, common, high, low, sum, sxh, syh
<1>7. low.val = (xl + yl) % b
  BY <1>1, <1>2
<1>8. /\ sum % (b * b) = high.val * b + low.val
      /\ sum >= b * b <=> xh + yh + c >= b
      /\ sum % (b * b) = 0 <=> high.val = 0 /\ low.val = 0
  <2>1. /\ c = IF xl + yl >= b THEN 1 ELSE 0
        /\ sum = (xh * b + xl) + (yh * b + yl)
    BY DEF c, sum
  <2>2. high.val = (xh + yh + c) % b
    BY <1>3, <1>5
  <2> QED BY <1>1, <1>7, <2>1, <2>2, LongSum
<1>9. (sxh * b + xl) + (syh * b + yl) < 0 <=> sxh + syh + c < 0
  <2>1. xl + yl = c * b + low.val /\ low.val \in 0..b - 1
    BY <1>1, <1>7, Digits DEF c
  <2>2. (sxh * b + xl) + (syh * b + yl) = (sxh + syh + c) * b + low.val
    BY <1>1, <2>1
  <2> QED BY <1>1, <2>1, <2>2
<1> QED BY <1>2, <1>3, <1>5, <1>6, <1>8, <1>9 DEF b, low, high, sum, sxh, syh

(* It is subtracted in two as well, with the borrow between them; carry and *)
(* sign are those of the whole, so that a comparison of long numbers is     *)
(* right, signed or not (SUB, then SUBX, after which Z is that of the upper *)
(* half alone: MCU_Opcode_SUBX does not keep a cleared Z).                  *)
THEOREM LongSubtraction ==
  ASSUME NEW w \in Widths,
         NEW xh \in 0..2^w - 1, NEW xl \in 0..2^w - 1,
         NEW yh \in 0..2^w - 1, NEW yl \in 0..2^w - 1
  PROVE  LET b == 2^w
             low == SUB_Common(xl, yl, 0, w)
             high == SUBX(xh, yh, low.flags, w)
             x == xh * b + xl
             y == yh * b + yl
             sx == Signed(xh, w) * b + xl
             sy == Signed(yh, w) * b + yl
         IN /\ high.val * b + low.val = (x - y) % (b * b)
            /\ "C" \in high.flags <=> x < y
            /\ "Z" \in high.flags <=> high.val = 0
            /\ Taken("BLT", high.flags) <=> sx < sy
<1> DEFINE b == 2^w
           low == SUB_Common(xl, yl, 0, w)
           c == IF xl - yl < 0 THEN 1 ELSE 0
           common == SUB_Common(xh, yh, c, w)
           high == SUBX(xh, yh, low.flags, w)
           x == xh * b + xl
           y == yh * b + yl
           sxh == Signed(xh, w)
           syh == Signed(yh, w)
<1>1. /\ b \in Nat /\ b > 0
      /\ xh \in 0..b - 1 /\ xl \in 0..b - 1
      /\ yh \in 0..b - 1 /\ yl \in 0..b - 1
      /\ c \in {0, 1} /\ sxh \in Int /\ syh \in Int
  <2>1. b \in Nat /\ b > 0 /\ Msb(w) \in Nat
    BY Ranges
  <2>2. sxh \in -Msb(w)..Msb(w) - 1 /\ syh \in -Msb(w)..Msb(w) - 1
    BY SignedIs
  <2> HIDE DEF b, sxh, syh
  <2> QED BY <2>1, <2>2 DEF b
<1>2. /\ low.val = (xl - yl - 0) % b
      /\ "C" \in low.flags <=> xl - yl - 0 < 0
  BY SubFlags
<1>3. high = common
  <2>1. xl - yl - 0 = xl - yl
    BY <1>1
  <2>2. (IF "C" \in low.flags THEN 1 ELSE 0) = c
    BY <1>2, <2>1
  <2> QED BY <2>2, Zenon DEF SUBX
<1>4. /\ common.val = (xh - yh - c) % b
      /\ "Z" \in common.flags <=> common.val = 0
      /\ "C" \in common.flags <=> xh - yh - c < 0
      /\ Taken("BLT", common.flags) <=> sxh - syh - c < 0
  BY <1>1, SubFlags
<1> HIDE DEF b, c, high, low, common, sxh, syh
<1>5. low.val = (xl - yl) % b
  BY <1>1, <1>2
<1>6. /\ (x - y) % (b * b) = high.val * b + low.val
      /\ x - y < 0 <=> xh - yh - c < 0
  <2> DEFINE d == x - y
  <2>1. c = IF xl - yl < 0 THEN 1 ELSE 0
    BY DEF c
  <2>2. d = (xh * b + xl) - (yh * b + yl)
    BY DEF d
  <2>3. high.val = (xh - yh - c) % b
    BY <1>3, <1>4
  <2> HIDE DEF d
  <2>4. /\ d % (b * b) = high.val * b + low.val
        /\ d < 0 <=> xh - yh - c < 0
    BY <1>1, <1>5, <2>1, <2>2, <2>3, LongDifference
  <2> QED BY <2>4 DEF d
<1>7. x - y < 0 <=> x < y
  BY <1>1
<1> HIDE DEF x, y
<1> DEFINE sx == sxh * b + xl
           sy == syh * b + yl
<1>8. sx < sy <=> sxh - syh - c < 0
  <2>1. xl - yl = low.val - c * b /\ low.val \in 0..b - 1
    BY <1>1, <1>5, Digits DEF c
  <2>2. sx - sy = (sxh - syh - c) * b + low.val
    BY <1>1, <2>1
  <2> QED BY <1>1, <2>1, <2>2
<1> HIDE DEF sx, sy
<1> QED BY <1>3, <1>4, <1>6, <1>7, <1>8
        DEF b, low, high, x, y, sx, sy, sxh, syh

LEMMA TopBit ==
  ASSUME NEW w \in Widths, NEW x \in 0..2^w - 1
  PROVE  Bit(x, w - 1) = IF x >= Msb(w) THEN 1 ELSE 0
<1> DEFINE M == Msb(w)
<1>1. M \in Nat /\ M > 0 /\ x \in 0..2 * M - 1
  BY Ranges
<1>2. Bit(x, w - 1) = (x \div M) % 2
  BY DEF Bit, Msb
<1> HIDE DEF M
<1>3. x \div M = IF x >= M THEN 1 ELSE 0
  BY <1>1
<1> QED BY <1>2, <1>3 DEF M

(* What one place does to a number, and which bit falls out into the carry. *)
LEMMA IntoIs ==
  ASSUME NEW w \in Widths, NEW x \in 0..2^w - 1, NEW flags,
         NEW kind \in ShiftKinds
  PROVE  Into(kind, x, flags, w) \in {0, 1}
<1>1. Bit(x, w - 1) \in {0, 1}
  BY TopBit
<1>2. x % 2 \in {0, 1}
  BY Ranges
<1> QED BY <1>1, <1>2 DEF Into, ShiftKinds

LEMMA LeftIs ==
  ASSUME NEW w \in Widths, NEW x \in 0..2^w - 1, NEW flags,
         NEW kind \in {"SHAL", "SHLL", "ROTXL", "ROTL"}
  PROVE  /\ Shift(kind, x, flags, w).val
              = 2 * x + Into(kind, x, flags, w)
                  - (IF x >= Msb(w) THEN 1 ELSE 0) * 2^w
         /\ Shift(kind, x, flags, w).val \in 0..2^w - 1
         /\ "C" \in Shift(kind, x, flags, w).flags <=> x >= Msb(w)
<1> DEFINE B == 2^w
           M == Msb(w)
           val == Shift(kind, x, flags, w).val
           after == Shift(kind, x, flags, w).flags
           into == Into(kind, x, flags, w)
           top == IF x >= M THEN 1 ELSE 0
<1>1. /\ M \in Nat /\ M > 0 /\ B = 2 * M /\ x \in 0..B - 1
      /\ Bit(x, w - 1) = top
  BY Ranges, TopBit
<1>2. into \in {0, 1}
  <2>1. kind \in ShiftKinds
    BY DEF ShiftKinds
  <2> QED BY <2>1, IntoIs
<1>3. /\ val = Cut(2 * x + into, w)
      /\ "C" \in after <=> Bit(x, w - 1) = 1
  BY DEF Shift, Sign, Raise
<1>4. Cut(2 * x + into, w) = (2 * x + into) % B
  BY DEF Cut
<1>5. top = IF x >= M THEN 1 ELSE 0
  OBVIOUS
<1> HIDE DEF B, M, val, after, into, top
<1>6. (2 * x + into) % B = 2 * x + into - top * B
  BY <1>1, <1>2, <1>5
<1>7. 2 * x + into - top * B \in 0..B - 1
  BY <1>1, <1>2, <1>5
<1>8. /\ val = 2 * x + into - top * B /\ val \in 0..B - 1
      /\ "C" \in after <=> x >= M
  BY <1>1, <1>3, <1>4, <1>5, <1>6, <1>7
<1> QED BY <1>8, Zenon DEF B, M, val, after, into, top

LEMMA RightIs ==
  ASSUME NEW w \in Widths, NEW x \in 0..2^w - 1, NEW flags,
         NEW kind \in {"SHAR", "SHLR", "ROTXR", "ROTR"}
  PROVE  /\ Shift(kind, x, flags, w).val
              = x \div 2 + Into(kind, x, flags, w) * Msb(w)
         /\ Shift(kind, x, flags, w).val \in 0..2^w - 1
         /\ "C" \in Shift(kind, x, flags, w).flags <=> x % 2 = 1
<1> DEFINE B == 2^w
           M == Msb(w)
           val == Shift(kind, x, flags, w).val
           after == Shift(kind, x, flags, w).flags
           into == Into(kind, x, flags, w)
<1>1. M \in Nat /\ M > 0 /\ B = 2 * M /\ x \in 0..B - 1
  BY Ranges
<1>2. into \in {0, 1}
  <2>1. kind \in ShiftKinds
    BY DEF ShiftKinds
  <2> QED BY <2>1, IntoIs
<1>3. /\ val = x \div 2 + into * M
      /\ "C" \in after <=> x % 2 = 1
  BY DEF Shift, Sign, Raise
<1> HIDE DEF B, M, val, after, into
<1>4. x \div 2 + into * M \in 0..B - 1
  BY <1>1, <1>2
<1>5. /\ val = x \div 2 + into * M /\ val \in 0..B - 1
      /\ "C" \in after <=> x % 2 = 1
  BY <1>3, <1>4
<1> QED BY <1>5, Zenon DEF B, M, val, after, into

(* The shifts double and halve: what falls out is the carry or the          *)
(* remainder, and SHAR halves a signed number downwards.                    *)
THEOREM ShiftsAreArithmetic ==
  ASSUME NEW w \in Widths, NEW x \in 0..2^w - 1, NEW flags
  PROVE  /\ \A kind \in {"SHAL", "SHLL"} :
              LET s == Shift(kind, x, flags, w)
              IN /\ s.val = (2 * x) % 2^w
                 /\ "C" \in s.flags <=> 2 * x >= 2^w
         /\ LET s == Shift("SHLR", x, flags, w)
            IN /\ s.val = x \div 2
               /\ "C" \in s.flags <=> x % 2 = 1
         /\ LET s == Shift("SHAR", x, flags, w)
            IN /\ Signed(s.val, w) = Signed(x, w) \div 2
               /\ "C" \in s.flags <=> Signed(x, w) % 2 = 1
<1> DEFINE B == 2^w
           M == Msb(w)
           top == IF x >= M THEN 1 ELSE 0
<1>1. M \in Nat /\ M > 0 /\ B = 2 * M /\ x \in 0..B - 1
  BY Ranges
<1>2. top \in {0, 1} /\ top = IF x >= M THEN 1 ELSE 0
  OBVIOUS
<1>3. ASSUME NEW kind \in {"SHAL", "SHLL"}
      PROVE  LET s == Shift(kind, x, flags, w)
             IN /\ s.val = (2 * x) % B
                /\ "C" \in s.flags <=> 2 * x >= B
  <2> DEFINE val == Shift(kind, x, flags, w).val
             after == Shift(kind, x, flags, w).flags
  <2>1. kind \in {"SHAL", "SHLL", "ROTXL", "ROTL"}
        /\ Into(kind, x, flags, w) = 0
    BY DEF Into
  <2>2. val = 2 * x + 0 - top * B /\ ("C" \in after <=> x >= M)
    BY <2>1, LeftIs
  <2> HIDE DEF B, M, val, after, top
  <2>3. val = (2 * x) % B /\ ("C" \in after <=> 2 * x >= B)
    BY <1>1, <1>2, <2>2
  <2> QED BY <2>3 DEF val, after
<1>4. LET s == Shift("SHLR", x, flags, w)
      IN s.val = x \div 2 /\ ("C" \in s.flags <=> x % 2 = 1)
  <2> DEFINE val == Shift("SHLR", x, flags, w).val
             after == Shift("SHLR", x, flags, w).flags
  <2>1. Into("SHLR", x, flags, w) = 0
    BY DEF Into
  <2>2. val = x \div 2 + 0 * M /\ ("C" \in after <=> x % 2 = 1)
    BY <2>1, RightIs
  <2> HIDE DEF M, val, after
  <2>3. val = x \div 2
    BY <1>1, <2>2
  <2> QED BY <2>2, <2>3 DEF val, after
<1>5. LET s == Shift("SHAR", x, flags, w)
      IN /\ Signed(s.val, w) = Signed(x, w) \div 2
         /\ "C" \in s.flags <=> Signed(x, w) % 2 = 1
  <2> DEFINE val == Shift("SHAR", x, flags, w).val
             after == Shift("SHAR", x, flags, w).flags
             sx == Signed(x, w)
             sv == Signed(val, w)
  <2>1. Into("SHAR", x, flags, w) = top
    BY TopBit DEF Into
  <2>2. /\ val = x \div 2 + top * M /\ ("C" \in after <=> x % 2 = 1)
        /\ val \in 0..B - 1
    BY <2>1, RightIs
  <2>3. /\ sx = x \/ sx = x - B
        /\ sx \in -M..M - 1
    BY SignedIs
  <2>4. /\ sv = val \/ sv = val - B
        /\ sv \in -M..M - 1
    BY <2>2, SignedIs
  <2> HIDE DEF B, M, val, after, sx, sv, top
  <2>5. sv = sx \div 2 /\ (x % 2 = 1 <=> sx % 2 = 1)
    <3>1. CASE x < M
      <4>1. top = 0 /\ sx = x /\ val = x \div 2 /\ sv = val
        BY <1>1, <1>2, <2>2, <2>3, <2>4, <3>1
      <4> QED BY <1>1, <4>1
    <3>2. CASE x >= M
      <4>1. top = 1 /\ sx = x - 2 * M /\ val = x \div 2 + M
        BY <1>1, <1>2, <2>2, <2>3, <3>2
      <4>2. sv = x \div 2 - M
        BY <1>1, <2>4, <3>2, <4>1
      <4>3. (x - 2 * M) \div 2 = x \div 2 - M /\ (x - 2 * M) % 2 = x % 2
        BY <1>1
      <4> QED BY <4>1, <4>2, <4>3
    <3> QED BY <1>1, <3>1, <3>2
  <2> QED BY <2>2, <2>5 DEF val, after, sx, sv
<1> QED BY <1>3, <1>4, <1>5 DEF B

(* A rotation one way undoes the one the other way, whatever the flags are  *)
(* in between; through the carry it takes the carry that the first one left *)
(* and brings back the one there was.                                       *)
THEOREM RotationsUndo ==
  ASSUME NEW w \in Widths, NEW x \in 0..2^w - 1, NEW flags, NEW other
  PROVE  LET Then(first, second) ==
               Shift(second, Shift(first, x, flags, w).val, other, w)
             ThenX(first, second) ==
               LET s == Shift(first, x, flags, w)
               IN Shift(second, s.val, s.flags, w)
         IN /\ Then("ROTL", "ROTR").val = x
            /\ Then("ROTR", "ROTL").val = x
            /\ ThenX("ROTXL", "ROTXR").val = x
            /\ "C" \in ThenX("ROTXL", "ROTXR").flags <=> "C" \in flags
            /\ ThenX("ROTXR", "ROTXL").val = x
            /\ "C" \in ThenX("ROTXR", "ROTXL").flags <=> "C" \in flags
<1> DEFINE B == 2^w
           M == Msb(w)
           top(y) == IF y >= M THEN 1 ELSE 0
<1>1. M \in Nat /\ M > 0 /\ B = 2 * M /\ x \in 0..B - 1
  BY Ranges
<1>2. \A y \in 0..B - 1 : \A f :
        /\ Shift("ROTL", y, f, w).val = 2 * y + top(y) - top(y) * B
        /\ Shift("ROTL", y, f, w).val \in 0..B - 1
        /\ Shift("ROTR", y, f, w).val = y \div 2 + (y % 2) * M
        /\ Shift("ROTR", y, f, w).val \in 0..B - 1
  <2> SUFFICES ASSUME NEW y \in 0..B - 1, NEW f
               PROVE  /\ Shift("ROTL", y, f, w).val
                           = 2 * y + top(y) - top(y) * B
                      /\ Shift("ROTL", y, f, w).val \in 0..B - 1
                      /\ Shift("ROTR", y, f, w).val = y \div 2 + (y % 2) * M
                      /\ Shift("ROTR", y, f, w).val \in 0..B - 1
    OBVIOUS
  <2>1. /\ Into("ROTL", y, f, w) = top(y)
        /\ Into("ROTR", y, f, w) = y % 2
    BY TopBit DEF Into
  <2> QED BY <2>1, LeftIs, RightIs
<1> DEFINE carry(f) == IF "C" \in f THEN 1 ELSE 0
<1>3. \A y \in 0..B - 1 : \A f :
        /\ Shift("ROTXL", y, f, w).val = 2 * y + carry(f) - top(y) * B
        /\ Shift("ROTXL", y, f, w).val \in 0..B - 1
        /\ carry(Shift("ROTXL", y, f, w).flags) = top(y)
        /\ Shift("ROTXR", y, f, w).val = y \div 2 + carry(f) * M
        /\ Shift("ROTXR", y, f, w).val \in 0..B - 1
        /\ carry(Shift("ROTXR", y, f, w).flags) = y % 2
  <2> SUFFICES ASSUME NEW y \in 0..B - 1, NEW f
               PROVE  /\ Shift("ROTXL", y, f, w).val
                           = 2 * y + carry(f) - top(y) * B
                      /\ Shift("ROTXL", y, f, w).val \in 0..B - 1
                      /\ carry(Shift("ROTXL", y, f, w).flags) = top(y)
                      /\ Shift("ROTXR", y, f, w).val = y \div 2 + carry(f) * M
                      /\ Shift("ROTXR", y, f, w).val \in 0..B - 1
                      /\ carry(Shift("ROTXR", y, f, w).flags) = y % 2
    OBVIOUS
  <2>1. /\ Into("ROTXL", y, f, w) = carry(f)
        /\ Into("ROTXR", y, f, w) = carry(f)
    BY DEF Into
  <2>2. y % 2 \in {0, 1}
    BY <1>1
  <2>3. /\ Shift("ROTXL", y, f, w).val = 2 * y + carry(f) - top(y) * B
        /\ Shift("ROTXL", y, f, w).val \in 0..B - 1
        /\ "C" \in Shift("ROTXL", y, f, w).flags <=> y >= M
    BY <2>1, LeftIs
  <2>4. /\ Shift("ROTXR", y, f, w).val = y \div 2 + carry(f) * M
        /\ Shift("ROTXR", y, f, w).val \in 0..B - 1
        /\ "C" \in Shift("ROTXR", y, f, w).flags <=> y % 2 = 1
    BY <2>1, RightIs
  <2>5. /\ carry(Shift("ROTXL", y, f, w).flags) = top(y)
        /\ carry(Shift("ROTXR", y, f, w).flags) = y % 2
    BY <2>2, <2>3, <2>4
  <2> QED BY <2>3, <2>4, <2>5, Zenon
<1>4. \A y \in 0..B - 1 : top(y) = (IF y >= M THEN 1 ELSE 0)
  OBVIOUS
<1> DEFINE l == Shift("ROTL", x, flags, w).val
           r == Shift("ROTR", x, flags, w).val
           xl == Shift("ROTXL", x, flags, w)
           xr == Shift("ROTXR", x, flags, w)
           c == carry(flags)
<1>5. c \in {0, 1} /\ (c = 1 <=> "C" \in flags)
  OBVIOUS
<1> HIDE DEF B, M, carry
<1>6. Shift("ROTR", l, other, w).val = x
  <2>1. /\ l \in 0..B - 1 /\ l = 2 * x + top(x) - top(x) * B
        /\ Shift("ROTR", l, other, w).val = l \div 2 + (l % 2) * M
    BY <1>1, <1>2
  <2> HIDE DEF l
  <2>2. l \div 2 + (l % 2) * M = x
    BY <1>1, <2>1
  <2> QED BY <2>1, <2>2
<1>7. Shift("ROTL", r, other, w).val = x
  <2>1. /\ r \in 0..B - 1 /\ r = x \div 2 + (x % 2) * M
        /\ Shift("ROTL", r, other, w).val = 2 * r + top(r) - top(r) * B
    BY <1>1, <1>2
  <2> HIDE DEF r
  <2>2. 2 * r + top(r) - top(r) * B = x
    BY <1>1, <2>1
  <2> QED BY <2>1, <2>2
<1>8. /\ Shift("ROTXR", xl.val, xl.flags, w).val = x
      /\ carry(Shift("ROTXR", xl.val, xl.flags, w).flags) = c
  <2> DEFINE v == xl.val
  <2>1. /\ v \in 0..B - 1 /\ v = 2 * x + c - top(x) * B
        /\ carry(xl.flags) = top(x)
    BY <1>1, <1>3, Zenon
  <2> HIDE DEF v, xl, c
  <2>2. /\ Shift("ROTXR", v, xl.flags, w).val = v \div 2 + carry(xl.flags) * M
        /\ carry(Shift("ROTXR", v, xl.flags, w).flags) = v % 2
    BY <1>3, <2>1, Zenon
  <2>3. v \div 2 + top(x) * M = x /\ v % 2 = c
    BY <1>1, <1>5, <2>1
  <2> QED BY <2>1, <2>2, <2>3 DEF v
<1>9. /\ Shift("ROTXL", xr.val, xr.flags, w).val = x
      /\ carry(Shift("ROTXL", xr.val, xr.flags, w).flags) = c
  <2> DEFINE v == xr.val
  <2>1. /\ v \in 0..B - 1 /\ v = x \div 2 + c * M
        /\ carry(xr.flags) = x % 2
    BY <1>1, <1>3, Zenon
  <2> HIDE DEF v, xr, c
  <2>2. /\ Shift("ROTXL", v, xr.flags, w).val
             = 2 * v + carry(xr.flags) - top(v) * B
        /\ carry(Shift("ROTXL", v, xr.flags, w).flags) = top(v)
    BY <1>3, <2>1, Zenon
  <2>3. 2 * v + (x % 2) - top(v) * B = x /\ top(v) = c
    BY <1>1, <1>5, <2>1
  <2> QED BY <2>1, <2>2, <2>3 DEF v
<1>10. \A f : carry(f) = c => ("C" \in f <=> "C" \in flags)
  BY DEF carry
<1> HIDE DEF c
<1> QED BY <1>6, <1>7, <1>8, <1>9, <1>10

(* A long number is divided digit by digit: the remainder of one is the     *)
(* upper half of what is divided next, whose quotient then always fits      *)
(* (DIVXU).                                                                 *)
THEOREM LongDivision ==
  ASSUME NEW w \in Widths, NEW d \in 1..2^w - 1,
         NEW x \in 0..2^w - 1, NEW r \in 0..d - 1
  PROVE  LET s == DIVXU(r * 2^w + x, d, w)
         IN /\ s.done
            /\ s.quotient \in 0..2^w - 1 /\ s.remainder \in 0..d - 1
            /\ r * 2^w + x = s.quotient * d + s.remainder
            /\ "Z" \in s.flags <=> s.quotient = 0
<1> DEFINE b == 2^w
           n == r * b + x
           s == DIVXU(n, d, w)
<1>1. /\ b \in Nat /\ b > 0 /\ x \in 0..b - 1 /\ d \in 1..b - 1
  BY Ranges
<1>2. n = r * b + x
  OBVIOUS
<1> HIDE DEF n
<1> DEFINE q == n \div d
<1>3. /\ n \in Nat /\ q \in 0..b - 1 /\ n % d \in 0..d - 1
      /\ n = q * d + (n % d)
  <2> HIDE DEF b
  <2>1. r * b \in Nat /\ n \in Nat
    BY <1>1, <1>2
  <2>2. n % d \in 0..d - 1 /\ q \in Nat /\ n = d * q + (n % d)
    BY <1>1, <2>1
  <2>3. n < d * b
    <3>1. r * b <= (d - 1) * b
      BY <1>1
    <3>2. (d - 1) * b = d * b - b /\ d * b \in Nat
      BY <1>1
    <3> QED BY <1>1, <1>2, <2>1, <3>1, <3>2
  <2> HIDE DEF q
  <2>4. q < b
    <3>1. d * q < d * b
      BY <1>1, <2>1, <2>2, <2>3
    <3> QED BY <1>1, <2>2, <3>1
  <2>5. d * q = q * d
    BY <1>1, <2>2
  <2> QED BY <1>1, <2>1, <2>2, <2>4, <2>5
<1>4. ~(d = 0) /\ ~(q >= 2^w)
  <2> HIDE DEF q
  <2> QED BY <1>1, <1>3
<1>5. s = [done |-> TRUE, quotient |-> q, remainder |-> n % d,
           flags |-> Sign(q, w)]
  BY <1>4, Zenon DEF DIVXU
<1> HIDE DEF q, s
<1>6. /\ s.done /\ s.quotient = q /\ s.remainder = n % d
      /\ s.flags = Sign(q, w)
  BY <1>5
<1>7. Cut(q, w) = q
  BY <1>3, SignedIs
<1>8. "Z" \in Sign(q, w) <=> q = 0
  BY <1>7 DEF Sign, Raise
<1> HIDE DEF b
<1> QED BY <1>2, <1>3, <1>6, <1>8 DEF s, n, b

----------------------------------------------------------------------------
(* The parts together. Each is a specification of its own that only takes   *)
(* its own steps, so that all a part keeps it keeps in the instrument.      *)

LEMMA PartsStart ==
  Init => /\ PanelInit /\ ControlsInit /\ LcdInit /\ CpuInit
          /\ SciInit /\ TimersInit /\ GateInit
  BY DEF Init

LEMMA PartsMove ==
  [Next]_vars =>
    /\ [PanelNext]_allPanel /\ [ControlsNext]_controls /\ [LcdNext]_lcd
    /\ [CpuNext]_machine /\ [SciNext]_sciVars /\ [TimersNext]_timerVars
    /\ [GateNext]_gateVars
  BY Zenon DEF Next, vars

(* A behaviour of the instrument is one of every part: no part sees another *)
(* move, and none takes a step that is not its own.                         *)
THEOREM PartsAreTheirOwn ==
  Spec => /\ PanelSpec /\ ControlsSpec /\ LcdSpec /\ CpuSpec
          /\ SciSpec /\ TimersSpec /\ GateSpec
<1>. QED BY PartsStart, PartsMove, PTL
         DEF Spec, PanelSpec, ControlsSpec, LcdSpec, CpuSpec, SciSpec,
             TimersSpec, GateSpec

(* Every part keeps its types, whichever moves: the theorems of the parts   *)
(* and the invariants behind them.                                          *)
THEOREM TypeCorrect == Spec => []TypeOK
<1> DEFINE AllInv == /\ PanelInv /\ ControlsInv /\ LcdInv /\ Watched
                     /\ CpuInv /\ SciInv /\ TimersInv /\ GateInv
                     /\ part \in Parts
<1>1. Init => AllInv
  BY PanelInvInit, ControlsInvInit, LcdInvInit, WatchedInit, CpuInvInit,
     SciInvInit, TimersInvInit, GateInvInit, PartsStart, Zenon DEF Init
<1>2. AllInv /\ [Next]_vars => AllInv'
  <2>1. part \in Parts /\ [Next]_vars => part' \in Parts
    BY Zenon DEF Next, vars
  <2>. QED BY <2>1, PartsMove, PanelInvStep, ControlsInvStep, LcdInvStep,
              WatchedStep, CpuInvStep, SciInvStep, TimersInvStep, GateInvStep,
              Zenon
<1>3. AllInv => TypeOK
  <2>1. AllInv => /\ PanelTypeOK /\ ControlsTypeOK /\ LcdTypeOK /\ CpuTypeOK
                  /\ SciTypeOK /\ TimersTypeOK /\ GateTypeOK
    BY ControlsInvTypeOK, LcdInvTypeOK, InvTypeOK, Zenon
       DEF PanelInv, SciInv, TimersInv, GateInv
  <2>2. AllInv => part \in {"panel", "contacts", "lcd", "cpu", "midi",
                            "timers", "gate"}
    BY PartsAssumption, Zenon DEF PartsAssumption
  <2>. QED BY <2>1, <2>2, Zenon DEF TypeOK
<1>. QED BY <1>1, <1>2, <1>3, PTL DEF Spec

(* No device asks without a reason and none has a reason the firmware is    *)
(* not told of, in the serial interface, the timers and the gate array.     *)
THEOREM RequestsHaveReasons == Spec => []RequestsAreFlags
<1>1. SciRequests /\ TimerRequests /\ GateRequests => RequestsAreFlags
  BY DEF RequestsAreFlags
<1>. QED BY PartsAreTheirOwn, RequestsHeard, TimersAskWithFlag, TriggersAsk,
            <1>1, PTL

(* So what holds of the parts alone holds of the instrument: the panel's    *)
(* frames and the remote keys, the button and the dial, the text read off   *)
(* the LCD and MIDI input, and the handlers of the processor if the         *)
(* firmware keeps their frames.                                             *)
THEOREM PartsKeepTheirPromises ==
  Spec => /\ []OneStepPerHold /\ []DataHidden /\ []RestoreScheduled
          /\ []NoTapSticks /\ []HoldLostOnlyByTap
          /\ []OneEventPerPress /\ PanelSeesTheKey /\ []NoFalseDetent
          /\ []ReadbackCatchesUp /\ []ReceivedInOrder
          /\ HandlersKeepFrames => []NestingByLevel
<1>. QED BY PartsAreTheirOwn, HoldsCountOnce, PendingDataHidden,
            RestoresHappen, PanelUsesRemote, EventsAreOwed, StageIsEnough,
            NoDetentInvented, ReadbackNeverLost, BytesInOrder, HandlersNest,
            PTL
=============================================================================
