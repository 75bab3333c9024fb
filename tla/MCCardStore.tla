---------------------------- MODULE MCCardStore ----------------------------
(* CardStore for TLC: the legacy card, two cards of the collection, and one  *)
(* file of each other kind that TFTP may send or fetch.                      *)
EXTENDS CardStore, TLC

CONSTANTS a, b, ini

MCNames == {a, b, ini, Legacy}
MCKinds ==
  (a :> "card") @@ (b :> "card") @@ (ini :> "ini") @@ (Legacy :> "legacy")
MCImgs == MCNames \cup Edit \cup {Sent, Garbled, Blank}
Symmetric == Permutations({a, b}) \cup Permutations(Edit)
=============================================================================
