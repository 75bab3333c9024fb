---------------------------- MODULE RobustEncoder ----------------------------
(* The quadrature decoder of the DATA dial (src/drivers/robustencoder.cpp): *)
(* one call per edge interrupt, with the levels of the two pins as a code.  *)
(* Pure operators on [code, acc].                                           *)
EXTENDS Integers

Codes == 0..3

(* The pins in the order a clockwise turn takes them: 11, 01, 00, 10.       *)
Wiring == <<3, 1, 0, 2>>

PlaceOf(code) == CHOOSE i \in 1..4 : Wiring[i] = code

(* Mutant: a transition that skipped one code counts as one step too.       *)
JumpDelta(last, code) ==
  LET step == (PlaceOf(code) - PlaceOf(last)) % 4 IN
  IF step = 3 THEN -1 ELSE IF step = 0 THEN 0 ELSE 1

(* The Delta table: one step either way; 0 for the same code, and for the   *)
(* opposite one, where the direction is not known.                          *)
Delta(last, code) ==
  LET step == (PlaceOf(code) - PlaceOf(last)) % 4 IN
  IF step = 1 THEN 1 ELSE IF step = 3 THEN -1 ELSE 0

NewEncoder(code) == [code |-> code, acc |-> 0]

(* EncoderInterruptHandler: events only at the rest position 11, where the  *)
(* accumulator starts again.                                                *)
Sample(e, code) ==
  LET acc == e.acc + Delta(e.code, code) IN
  IF code # 3
  THEN [encoder |-> [code |-> code, acc |-> acc], event |-> "none"]
  ELSE [encoder |-> NewEncoder(code),
        event |-> IF acc >= 3 THEN "cw"
                  ELSE IF acc <= -3 THEN "ccw" ELSE "none"]
=============================================================================
