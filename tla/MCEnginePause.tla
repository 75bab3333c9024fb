--------------------------- MODULE MCEnginePause ---------------------------
(* Instances of EnginePause for TLC.                                       *)
EXTENDS EnginePause

AllKinds == {"sr", "swap", "patch", "refused"}
=============================================================================
