----------------------------- MODULE SavedCard -----------------------------
(***************************************************************************)
(* What the memory card promises about its file.  A save copies the card,  *)
(* up to Tries times, and takes the last copy: the card had each of its    *)
(* bytes since that copy began, though perhaps not all at once.  Only when *)
(* it is whole the old file goes, the copy takes its place, and the card   *)
(* is clean.  A save may fail before that and leaves the card dirty.       *)
(***************************************************************************)
EXTENDS Naturals

CONSTANTS Cell, Val, Blank, Missing,  \* as in CardRam
          Tries                       \* copies that a save may take

VARIABLES
  card,    \* the image, as it is seen by the core that saves it
  dirty,   \* there is something to save
  saved,   \* the file
  step,    \* of a save: it copies, has a copy ready, or has replaced the file
  copies,  \* that this save has begun
  since,   \* images the card held since the last of them began
  ready    \* the copy that will be the file

Image == [Cell -> Val]
Boot(file) == IF file \in Image THEN file ELSE [c \in Cell |-> Blank]

\* The images that have each byte from one of S.
Mixed(S) == {f \in Image : \A c \in Cell : \E h \in S : f[c] = h[c]}

NoSave == step = "idle" /\ copies = 0 /\ since = {} /\ ready = Missing

Init ==
  /\ saved \in Image \cup {Missing} /\ card = Boot(saved)
  /\ dirty = FALSE /\ NoSave

Write ==
  /\ \E c \in Cell, v \in Val : card' = [card EXCEPT ![c] = v]
  /\ \/ step = "copying" /\ since' = since \cup {card'}
     \/ UNCHANGED since
  /\ UNCHANGED <<dirty, saved, step, copies, ready>>

Mark == dirty' = TRUE /\ UNCHANGED <<card, saved, step, copies, since, ready>>

Begin ==
  /\ step = "idle" /\ dirty
  /\ step' = "copying"
  /\ UNCHANGED <<card, dirty, saved, copies, since, ready>>

Copy ==
  /\ step = "copying" /\ copies < Tries
  /\ copies' = copies + 1 /\ since' = {card}
  /\ UNCHANGED <<card, dirty, saved, step, ready>>

Prepare ==
  /\ step = "copying" /\ copies > 0
  /\ step' = "ready" /\ ready' \in Mixed(since)
  /\ UNCHANGED <<card, dirty, saved, copies, since>>

Remove ==
  /\ step = "ready"
  /\ saved' = Missing
  /\ UNCHANGED <<card, dirty, step, copies, since, ready>>

Replace ==
  /\ step = "ready" /\ saved = Missing
  /\ saved' = ready /\ ready' = Missing /\ step' = "done"
  /\ UNCHANGED <<card, dirty, copies, since>>

Clean ==
  /\ step = "done"
  /\ dirty' = FALSE /\ NoSave'
  /\ UNCHANGED <<card, saved>>

Fail ==
  /\ step \in {"copying", "ready"}
  /\ NoSave'
  /\ UNCHANGED <<card, dirty, saved>>

\* Power is lost; the boot loads the file, if it can.
Restart ==
  /\ card' \in {Boot(saved), Boot(Missing)}
  /\ dirty' = FALSE /\ NoSave'
  /\ UNCHANGED saved

Next == Write \/ Mark \/ Begin \/ Copy \/ Prepare \/ Remove \/ Replace
        \/ Clean \/ Fail \/ Restart

Spec == Init /\ [][Next]_<<card, dirty, saved, step, copies, since, ready>>
=============================================================================
