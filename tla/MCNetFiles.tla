----------------------------- MODULE MCNetFiles -----------------------------
(* NetFiles for TLC: the three maintained files, and two SYX names in two     *)
(* ordinary folders.                                                         *)
EXTENDS NetFiles, TLC

CONSTANTS f, g

MCFolder == {f, g}
MCNames == Staged \cup PN
MCKinds ==
  [n \in MCNames |->
     IF n \in Kernels THEN "kernel" ELSE IF n = Ini THEN "ini"
     ELSE IF n[1] = RolandPN THEN "protected" ELSE "syx"]
MCImgs == MCNames \cup Tab \cup {Sent, Garbled, None}
Symmetric ==
  Permutations(Child) \cup Permutations(Folder \ {RolandPN}) \cup Permutations(Tab)
=============================================================================
