-------------------------------- MODULE Alu ----------------------------------
(* The arithmetic of the JV-880's processor, src/emulator/mcu_opcodes.cpp:  *)
(* what each operation makes of its operands and of the flags. A byte has   *)
(* Byte bits (8 in the code) and a word twice as many; w is that number.    *)
EXTENDS Integers

CONSTANT Byte

\* The low byte of SR holds the four flags, the high one the mask, and no
\* word is longer than the code's.
ASSUME ByteSize == Byte \in 4..8

Flags == {"N", "Z", "V", "C"}

Wide == 2 * Byte
Cut(x, w) == x % 2^w
Msb(w) == 2^(w - 1)
Signed(x, w) == ((x + Msb(w)) % 2^w) - Msb(w)
Bit(x, k) == (x \div 2^k) % 2

\* Op of each bit of two words.
Bitwise(Op(_, _), x, y) ==
  LET b(k) == Op(Bit(x, k), Bit(y, k)) * 2^k
  IN b(0) + b(1) + b(2) + b(3) + b(4) + b(5) + b(6) + b(7)
       + b(8) + b(9) + b(10) + b(11) + b(12) + b(13) + b(14) + b(15)
And(x, y) == Bitwise(LAMBDA p, q : p * q, x, y)
Or(x, y) == Bitwise(LAMBDA p, q : p + q - p * q, x, y)
Xor(x, y) == Bitwise(LAMBDA p, q : (p + q) % 2, x, y)

Raise(flag, cond) == IF cond THEN {flag} ELSE {}
Sign(x, w) == Raise("N", Signed(x, w) < 0) \cup Raise("Z", Cut(x, w) = 0)

\* N and Z of the value, V cleared, C as it was.
SetStatusCommon(x, w, flags) == Sign(x, w) \cup (flags \cap {"C"})

SUB_Common(a, b, c, w) ==
  LET u == Cut(a, w) - Cut(b, w) - c
      s == Signed(a, w) - Signed(b, w) - c
  IN [val |-> Cut(u, w),
      flags |-> Sign(u, w) \cup Raise("C", u < 0)
                           \cup Raise("V", s # Signed(s, w))]

ADD_Common(a, b, c, w) ==
  LET u == Cut(a, w) + Cut(b, w) + c
      s == Signed(a, w) + Signed(b, w) + c
  IN [val |-> Cut(u, w),
      flags |-> Sign(u, w) \cup Raise("C", u >= 2^w)
                           \cup Raise("V", s # Signed(s, w))]

\* ADDX keeps a cleared Z: a number of several words is zero if all are.
ADDX(a, b, flags, w) ==
  LET s == ADD_Common(a, b, IF "C" \in flags THEN 1 ELSE 0, w)
  IN [s EXCEPT !.flags = IF "Z" \in flags THEN @ ELSE @ \ {"Z"}]

SUBX(a, b, flags, w) == SUB_Common(a, b, IF "C" \in flags THEN 1 ELSE 0, w)

\* One place to the left or right. What comes in at the end, by the kind.
Into(kind, x, flags, w) ==
  CASE kind \in {"SHAL", "SHLL", "SHLR"} -> 0
    [] kind \in {"ROTXL", "ROTXR"} -> IF "C" \in flags THEN 1 ELSE 0
    [] kind \in {"ROTL", "SHAR"} -> Bit(x, w - 1)
    [] kind = "ROTR" -> x % 2

ShiftKinds ==
  {"SHAL", "SHLL", "ROTXL", "ROTL", "SHAR", "SHLR", "ROTXR", "ROTR"}

Shift(kind, x, flags, w) ==
  LET toLeft == kind \in {"SHAL", "SHLL", "ROTXL", "ROTL"}
      into == Into(kind, x, flags, w)
      y == IF toLeft THEN Cut(2 * x + into, w) ELSE x \div 2 + into * Msb(w)
      out == IF toLeft THEN Bit(x, w - 1) ELSE x % 2
  IN [val |-> y, flags |-> Sign(y, w) \cup Raise("C", out = 1)]

\* The product has twice the width of the factors.
MULXU(a, b, w) ==
  LET p == Cut(a, w) * Cut(b, w)
  IN [val |-> p, flags |-> Raise("N", p >= 2^(2 * w - 1))
                           \cup Raise("Z", p = 0)]

\* Dividing by nought or into a quotient that is too large writes nothing.
DIVXU(n, d, w) ==
  IF d = 0 THEN [done |-> FALSE, flags |-> {"Z"}]
  ELSE IF n \div d >= 2^w THEN [done |-> FALSE, flags |-> {"V"}]
  ELSE [done |-> TRUE, quotient |-> n \div d, remainder |-> n % d,
        flags |-> Sign(n \div d, w)]

\* Whether a conditional branch is taken.
Taken(cond, flags) ==
  LET less == ("N" \in flags) # ("V" \in flags)
  IN CASE cond = "BRA" -> TRUE
       [] cond = "BRN" -> FALSE
       [] cond = "BHI" -> flags \cap {"C", "Z"} = {}
       [] cond = "BLS" -> flags \cap {"C", "Z"} # {}
       [] cond = "BCC" -> "C" \notin flags
       [] cond = "BCS" -> "C" \in flags
       [] cond = "BNE" -> "Z" \notin flags
       [] cond = "BEQ" -> "Z" \in flags
       [] cond = "BVC" -> "V" \notin flags
       [] cond = "BVS" -> "V" \in flags
       [] cond = "BPL" -> "N" \notin flags
       [] cond = "BMI" -> "N" \in flags
       [] cond = "BGE" -> ~less
       [] cond = "BLT" -> less
       [] cond = "BGT" -> ~less /\ "Z" \notin flags
       [] cond = "BLE" -> less \/ "Z" \in flags
=============================================================================
