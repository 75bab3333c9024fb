---------------------------- MODULE SampleQueue ----------------------------
(***************************************************************************)
(* What the sample ring promises: a bounded queue of numbered frames from  *)
(* the tone generator to the audio output, emptied only by a reset.        *)
(***************************************************************************)
EXTENDS Naturals, Sequences

CONSTANTS
  Size,     \* frames the queue holds
  Modulus   \* frames are numbered modulo Modulus

VARIABLES
  queue,   \* the frames generated and not yet taken
  next     \* the number of the next frame

Init == queue = <<>> /\ next = 0

Put ==
  /\ Len(queue) < Size
  /\ queue' = Append(queue, next)
  /\ next' = (next + 1) % Modulus

Take ==
  \E n \in 1..Len(queue) :
    /\ queue' = SubSeq(queue, n + 1, Len(queue))
    /\ UNCHANGED next

Clear == queue' = <<>> /\ UNCHANGED next

Next == Put \/ Take \/ Clear

Spec == Init /\ [][Next]_<<queue, next>>
=============================================================================
