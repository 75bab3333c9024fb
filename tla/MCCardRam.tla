----------------------------- MODULE MCCardRam ------------------------------
(* CardRam for TLC.                                                         *)
EXTENDS CardRam

\* The first boot finds no file, or one with a single byte that is not blank.
\* A blank file loads as no file does, and the flushes make all others.
Used == CHOOSE c \in Cell : TRUE
MCInit ==
  Init /\ (final \in Image => \A c \in Cell : final[c] = Blank <=> c # Used)

MCSpec == MCInit /\ [][Next]_vars /\ Fairness
=============================================================================
