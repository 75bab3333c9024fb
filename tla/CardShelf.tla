----------------------------- MODULE CardShelf ------------------------------
(***************************************************************************)
(* What the CARD-RAM collection promises: a shelf of card files, one of    *)
(* which is chosen for the next boot and one of which is running.  A card  *)
(* file changes only when the running card is saved, when it is renamed to *)
(* a free name or deleted, and when one of the right length arrives under  *)
(* a free name.  While nothing fails, a rename takes the choice along and  *)
(* nothing is lost.  Each failing call or power cut costs one thing at     *)
(* most: the file of the card that is being saved, or the choice that is   *)
(* being made, or that the choice follows the card that is being renamed.  *)
(***************************************************************************)
EXTENDS Naturals

CONSTANTS Cards, Legacy, Content, Missing, None, Full, Edit, Blank, Garbled
                                                       \* as in CardStore

VARIABLES
  shelf,     \* the card files by name
  chosen,    \* the card of the next boot
  running,   \* the name the card in memory is saved under
  card,      \* the card in memory
  dirty,     \* there is something to save
  copy,      \* of the card in memory, made by a save in progress
  arriving,  \* the name of the card that is being sent
  shared,    \* it is the name of a card saved meanwhile: the two files are one
  task,      \* the request in progress
  accidents  \* counter of failing calls and power cuts

Loadable(f) == f # Missing /\ f.size = Full
Whole(i) == [size |-> Full, img |-> i]
With(n, f) == [shelf EXCEPT ![n] = f]

NoTask == [op |-> "none", old |-> None, new |-> None]
Begun(op, o, n) == task = [op |-> op, old |-> o, new |-> n]

memory  == <<running, card, dirty>>
saving  == copy
upload  == <<arriving, shared>>
choice  == <<shelf, chosen>>
vars    == <<choice, memory, saving, upload, task, accidents>>

\* What the boot makes of the choice and the shelf.
Booted(c, s) ==
  LET n == IF c # None /\ Loadable(s[c]) THEN c ELSE Legacy
  IN [running |-> n, card |-> IF Loadable(s[n]) THEN s[n].img ELSE Blank]

Init ==
  /\ shelf \in [Cards \cup {Legacy} -> Content]
  /\ chosen \in Cards \cup {None}
  /\ chosen # None => Loadable(shelf[chosen])
  /\ [running |-> running, card |-> card] = Booted(chosen, shelf)
  /\ dirty = FALSE /\ copy = {} /\ arriving = None /\ shared = FALSE
  /\ task = NoTask /\ accidents = 0

----------------------------------------------------------------------------
(* The running card.                                                       *)

Write ==
  /\ card' \in Edit /\ dirty' = TRUE
  /\ UNCHANGED <<choice, running, saving, upload, task>>

\* A save makes a copy; if that fails the card stays dirty.  In both cases it
\* may take the file of a card that is being sent under the same name.
Prepare ==
  /\ dirty /\ copy = {}
  /\ \/ copy' = {card} /\ shared' = (arriving = running)
     \/ copy' = {} /\ shared' \in {shared, arriving = running}
  /\ UNCHANGED <<choice, memory, arriving, task>>

Save ==
  /\ \E i \in copy : shelf' = With(running, Whole(i))
  /\ UNCHANGED <<chosen, memory, saving, upload, task>>

Clean ==
  /\ \E i \in copy : shelf[running] = Whole(i)
  /\ dirty' = FALSE /\ copy' = {}
  /\ UNCHANGED <<choice, running, card, upload, task>>

Fail ==
  /\ copy' = {}
  /\ UNCHANGED <<choice, memory, upload, task>>

----------------------------------------------------------------------------
(* Requests.                                                               *)

AskSelect(n) ==
  /\ task = NoTask /\ Loadable(shelf[n])
  /\ task' = [op |-> "select", old |-> None, new |-> n]
  /\ UNCHANGED <<choice, memory, saving, upload>>

AskRename(o, n) ==
  /\ task = NoTask /\ o # n /\ shelf[o] # Missing /\ shelf[n] = Missing
  /\ task' = [op |-> "rename", old |-> o, new |-> n]
  /\ UNCHANGED <<choice, memory, saving, upload>>

\* A card that is selected can be loaded, unless it is the running one, which
\* is saved first.
Select(n) ==
  /\ Begun("select", None, n) /\ (Loadable(shelf[n]) \/ n = running)
  /\ chosen' = n
  /\ UNCHANGED <<shelf, memory, saving, upload, task>>

Renamed(o, n) == [shelf EXCEPT ![n] = shelf[o], ![o] = Missing]

Rename(o, n) ==
  /\ Begun("rename", o, n) /\ shelf[o] # Missing /\ shelf[n] = Missing
  /\ shelf' = Renamed(o, n)
  /\ chosen' = IF chosen = o THEN n ELSE chosen
  /\ task' = NoTask
  /\ UNCHANGED <<memory, saving, upload>>

Answer ==
  /\ task' = NoTask
  /\ UNCHANGED <<choice, memory, saving, upload>>

Delete(n) ==
  /\ shelf[n] # Missing /\ n \notin {chosen, running}
  /\ shelf' = With(n, Missing)
  /\ UNCHANGED <<chosen, memory, saving, upload, task>>

----------------------------------------------------------------------------
(* Uploads.                                                                *)

Announce(n) ==
  /\ arriving = None /\ shelf[n] = Missing
  /\ arriving' = n
  /\ UNCHANGED <<choice, memory, saving, shared, task>>

Arrive ==
  /\ arriving # None /\ ~shared /\ shelf[arriving] = Missing
  /\ \E f \in Content : Loadable(f) /\ shelf' = With(arriving, f)
  /\ arriving' = None
  /\ UNCHANGED <<chosen, memory, saving, shared, task>>

Dismiss ==
  /\ arriving' = None /\ shared' = FALSE
  /\ UNCHANGED <<choice, memory, saving, task>>

Spoil ==
  /\ shared /\ arriving = running /\ shelf[running] # Missing
  /\ shelf' = With(running, [shelf[running] EXCEPT !.img = Garbled])
  /\ UNCHANGED <<chosen, memory, saving, upload, task>>

----------------------------------------------------------------------------
(* Accidents.                                                              *)

LoseFile ==
  /\ \E i \in copy : shelf[running] = Whole(i)
  /\ shelf' = With(running, Missing) /\ chosen' = chosen

LoseChoice ==
  /\ \/ Begun("select", None, chosen)
     \/ \E n \in Cards : Begun("rename", chosen, n)
  /\ chosen' = None /\ shelf' = shelf

LoseTie ==
  \E o, n \in Cards :
    /\ Begun("rename", o, n) /\ shelf[n] = Missing /\ chosen \in {o, None}
    /\ shelf' = Renamed(o, n) /\ chosen' \in {chosen, None}

Accident ==
  /\ LoseFile \/ LoseChoice \/ LoseTie
  /\ copy' = {} /\ task' \in {task, NoTask}
  /\ UNCHANGED <<memory, upload>>

Restart ==
  /\ LoseFile \/ LoseChoice \/ LoseTie \/ UNCHANGED choice
  /\ [running |-> running', card |-> card'] = Booted(chosen', shelf')
  /\ dirty' = FALSE /\ copy' = {} /\ arriving' = None /\ shared' = FALSE
  /\ task' = NoTask

\* A call that fails without a consequence is an accident too.
Step ==
  \/ Write \/ Prepare \/ Save \/ Clean \/ Fail \/ Answer
  \/ \E n \in Cards : AskSelect(n) \/ Select(n) \/ Delete(n) \/ Announce(n)
  \/ \E o, n \in Cards : AskRename(o, n) \/ Rename(o, n)
  \/ Arrive \/ Dismiss \/ Spoil
  \/ UNCHANGED <<choice, memory, saving, upload, task>>

Next ==
  \/ Step /\ accidents' \in {accidents, accidents + 1}
  \/ (Accident \/ Restart) /\ accidents' = accidents + 1

Spec == Init /\ [][Next]_vars
=============================================================================
