----------------------------- MODULE CardStore -----------------------------
(***************************************************************************)
(* The CARD-RAM collection: which file the card in memory belongs to       *)
(* (g_CardRamActivePath, chosen at boot), which one the next boot takes     *)
(* (CARD-RAM/current.txt), and everything that touches these files: the     *)
(* flush, the HTTP pages that select, rename and delete a card, and the     *)
(* TFTP daemon, which is EXTENDed.  All of it runs on core 0 and no handler *)
(* is interrupted by another, but power may go between two storage calls,   *)
(* and the firmware on core 2 edits the card at any time.                   *)
(*                                                                         *)
(* CardRam models the flush in detail; here its snapshot is one step.  The  *)
(* temp file of current.txt is left out: nothing ever reads it.             *)
(***************************************************************************)
EXTENDS TFTP

CONSTANTS
  Legacy,    \* jv880_cardram.bin, the card used when none is selected
  Edit,      \* card images the firmware can produce
  Blank      \* the image of a card that did not load

Cards == {n \in Name : KindOf[n] = "card"}
Owned == Cards \cup {Legacy}   \* the files a flush may write

ASSUME StoreAssumption ==
  /\ Legacy \in Name /\ KindOf[Legacy] = "legacy" /\ IsFiniteSet(Cards)
  /\ Owned \cup Edit \cup {Blank} \subseteq Img

VARIABLES
  cur,      \* the name in current.txt, None if it does not exist
  active,   \* g_CardRamActivePath
  ram,      \* the image in mcu.cardram
  dirty,    \* mcu.cardram_dirty
  pc,       \* the next storage call of the operation in progress
  op,       \* that operation
  old, new, \* the names a request gives
  sel,      \* bSelectedForNextBoot
  home,     \* history: the name that the file the card in memory was loaded from,
            \* or last flushed to, has now; None once it is lost (a failing flush,
            \* a delete of the renamed file) or shares its clusters with an upload
  raced,    \* history: an edit came between a flush's snapshot and its end
  cut       \* history: a replacement or a rename was left half done

web   == <<op, old, new, sel>>
mem   == <<active, ram, dirty>>
ghost == <<home, raced, cut>>
vars  == <<disk, tftp, faults, cur, mem, pc, web, ghost>>

Pcs == {"idle", "temp", "unlink", "swap", "move", "selWrite", "selRemove",
        "selMove", "rollback"}

TypeOK ==
  /\ TFTPTypeOK
  /\ cur \in Cards \cup {None} /\ active \in Owned
  /\ ram \in Img /\ dirty \in BOOLEAN /\ pc \in Pcs
  /\ op \in {"process", "select", "rename"}
  /\ old \in Cards \cup {None} /\ new \in Cards \cup {None} /\ sel \in BOOLEAN
  /\ home \in Owned \cup {None} /\ raced \in BOOLEAN /\ cut \in BOOLEAN

\* ResolveActiveCardRamPath and the load that follows it.
Resolve(c, f) == IF c # None /\ Loadable(f[c]) THEN c ELSE Legacy
Loaded(f) == IF Loadable(f) THEN f.img ELSE Blank

\* The operation in progress goes on, or ends.
Goto(l) == pc' = l /\ UNCHANGED web
Return == /\ pc' = "idle" /\ op' = "process"
          /\ old' = None /\ new' = None /\ sel' = FALSE

Boot ==
  /\ active' = Resolve(cur, final) /\ ram' = Loaded(final[active'])
  /\ dirty' = FALSE /\ Return
  /\ Reset
  /\ home' = active' /\ raced' = FALSE

Init ==
  /\ \E some \in SUBSET Owned, short \in SUBSET Cards :
       final = [n \in Name |->
                  IF n \notin some THEN Missing
                  ELSE [size |-> IF n \in short THEN 0 ELSE Full, img |-> n]]
  /\ temp = [n \in Name |-> Missing]
  /\ cur \in {None} \cup {n \in Cards : Loadable(final[n])}
  /\ active = Resolve(cur, final) /\ ram = Loaded(final[active])
  /\ dirty = FALSE /\ pc = "idle" /\ op = "process"
  /\ old = None /\ new = None /\ sel = FALSE
  /\ Idle
  /\ home = active /\ raced = FALSE /\ cut = FALSE
  /\ uploads = 0 /\ faults = 0

----------------------------------------------------------------------------
(* The firmware on core 2.                                                 *)

EditCard ==
  /\ ram' \in Edit
  /\ dirty' = TRUE
  /\ raced' = (raced \/ pc \in {"unlink", "swap"})
  /\ UNCHANGED <<disk, tftp, faults, cur, active, pc, web, home, cut>>

----------------------------------------------------------------------------
(* FlushCardRAMIfNeeded: called by the main loop, by select and by rename. *)

\* Where the caller goes on.
AfterFlush ==
  CASE op = "process" -> Return
    [] op = "select" -> Goto("selWrite")
    [] op = "rename" -> Goto("move")

StartFlush ==
  /\ pc = "idle" /\ dirty
  /\ pc' = "temp" /\ op' = "process"
  /\ UNCHANGED <<disk, tftp, faults, cur, mem, old, new, sel, ghost>>

\* The snapshot is written under the temp name, which an upload of the same
\* card may have open.
FlushTemp ==
  /\ pc = "temp"
  /\ \/ /\ temp' = [temp EXCEPT ![active] = Whole(ram)] /\ Fine
        /\ Goto("unlink") /\ raced' = FALSE
     \/ /\ temp' \in {temp, [temp EXCEPT ![active] = Missing]} /\ Fault
        /\ AfterFlush /\ raced' = raced
  /\ held' = IF held = active /\ (pc' = "unlink" \/ temp' # temp)
               THEN None ELSE held
  /\ UNCHANGED <<final, file, target, flags, bytes, uploads, cur, mem, home,
                 cut>>

\* The result of f_unlink is ignored.
FlushUnlink ==
  /\ pc = "unlink"
  /\ \/ final' = [final EXCEPT ![active] = Missing] /\ Fine
     \/ final' = final /\ Fault
  /\ pc' = "swap"
  /\ UNCHANGED <<temp, tftp, cur, mem, web, ghost>>

\* f_rename also fails when the old file is still there.
FlushSwap ==
  /\ pc = "swap"
  /\ temp' = [temp EXCEPT ![active] = Missing]
  /\ \/ /\ final[active] = Missing /\ Fine
        /\ final' = [final EXCEPT ![active] = temp[active]]
        /\ dirty' = FALSE /\ cut' = cut
        /\ home' = IF Lost THEN None ELSE active
     \/ /\ IF final[active] = Missing THEN Fault ELSE Fine
        /\ final' = final /\ dirty' = dirty
        /\ home' = IF final[active] = Missing /\ home = active
                     THEN None ELSE home
        /\ cut' = (cut \/ final[active] = Missing)
  /\ AfterFlush
  /\ UNCHANGED <<tftp, cur, active, ram, raced>>

FlushCardRAMIfNeeded == StartFlush \/ FlushTemp \/ FlushUnlink \/ FlushSwap

----------------------------------------------------------------------------
(* The HTTP handlers.  A request that a guard refuses changes nothing.     *)

\* Both compare names, not files: strcmp with current.txt and with the last
\* component of the active path.
Selected(n) == cur = n
Active(n)   == active # Legacy /\ active = n

\* A flush is requested unless the flag is clear.
FlushThen(pc0) == pc' = IF dirty THEN "temp" ELSE pc0

\* /cardram-select-exec: the card must have the size of a card.
SelectExec(n) ==
  /\ pc = "idle" /\ Loadable(final[n])
  /\ op' = "select" /\ new' = n /\ old' = None /\ sel' = FALSE
  /\ FlushThen("selWrite")
  /\ UNCHANGED <<disk, tftp, faults, cur, mem, ghost>>

\* Mutant: the new name may be taken.
RenameExecOver(o, n) ==
  /\ pc = "idle" /\ final[o] # Missing /\ o # n
  /\ op' = "rename" /\ old' = o /\ new' = n /\ sel' = Selected(o)
  /\ IF Active(o) THEN FlushThen("move") ELSE pc' = "move"
  /\ UNCHANGED <<disk, tftp, faults, cur, mem, ghost>>

\* /cardram-rename-exec: the old name must exist and the new one must not.
RenameExec(o, n) ==
  /\ pc = "idle" /\ final[o] # Missing /\ o # n /\ final[n] = Missing
  /\ op' = "rename" /\ old' = o /\ new' = n /\ sel' = Selected(o)
  /\ IF Active(o) THEN FlushThen("move") ELSE pc' = "move"
  /\ UNCHANGED <<disk, tftp, faults, cur, mem, ghost>>

\* Mutant: a rename that never updates current.txt.
MoveOnly ==
  /\ pc = "move"
  /\ final[old] # Missing /\ Fine
  /\ final' = [final EXCEPT ![new] = final[old], ![old] = Missing]
  /\ Return /\ home' = IF home = old THEN new ELSE home
  /\ UNCHANGED <<temp, tftp, cur, mem, raced, cut>>

\* current.txt is rewritten only if it named the old file.  The path the
\* flush writes to stays as it is.
Move ==
  /\ pc = "move"
  /\ \/ /\ final[old] # Missing /\ Fine
        /\ final' = [final EXCEPT ![new] = final[old], ![old] = Missing]
        /\ IF sel THEN Goto("selWrite") ELSE Return
        /\ home' = IF home = old THEN new ELSE home
     \/ /\ IF final[old] = Missing THEN Fine ELSE Fault
        /\ final' = final /\ Return /\ home' = home
  /\ UNCHANGED <<temp, tftp, cur, mem, raced, cut>>

\* WriteCardRamCurrentSelectionFile gives up: a rename is rolled back.
SelFails == IF op = "rename" THEN Goto("rollback") ELSE Return

\* Its temp file is written ...
SelWrite ==
  /\ pc = "selWrite"
  /\ \/ Goto("selRemove") /\ Fine
     \/ SelFails /\ Fault
  /\ UNCHANGED <<disk, tftp, cur, mem, ghost>>

\* ... current.txt removed, whatever remove returns ...
SelRemove ==
  /\ pc = "selRemove"
  /\ Goto("selMove")
  /\ \/ cur' = None /\ Fine
     \/ cur' = cur /\ Fault
  /\ UNCHANGED <<disk, tftp, mem, ghost>>

\* Mutant: the name of the active card is written.
SelMoveActive ==
  /\ pc = "selMove"
  /\ cur = None /\ cur' = active /\ Return /\ Fine
  /\ UNCHANGED <<disk, tftp, mem, ghost>>

\* ... and the temp file renamed, which fails if current.txt is still there.
SelMove ==
  /\ pc = "selMove"
  /\ \/ cur = None /\ cur' = new /\ Return /\ Fine
     \/ /\ IF cur = None THEN Fault ELSE Fine
        /\ cur' = cur /\ SelFails
  /\ UNCHANGED <<disk, tftp, mem, ghost>>

Rollback ==
  /\ pc = "rollback"
  /\ Return
  /\ \/ /\ final' = [final EXCEPT ![old] = final[new], ![new] = Missing]
        /\ Fine /\ cut' = cut /\ home' = IF home = new THEN old ELSE home
     \/ final' = final /\ Fault /\ cut' = TRUE /\ home' = home
  /\ UNCHANGED <<temp, tftp, cur, mem, raced>>

\* Mutant: only the selection protects a card.
DeleteExecActive(n) ==
  /\ pc = "idle" /\ final[n] # Missing /\ ~Selected(n)
  /\ final' = [final EXCEPT ![n] = Missing]
  /\ home' = IF home = n /\ n # active THEN None ELSE home
  /\ UNCHANGED <<temp, tftp, faults, cur, mem, pc, web, raced, cut>>

\* /cardram-delete-exec.
DeleteExec(n) ==
  /\ pc = "idle" /\ final[n] # Missing /\ ~Selected(n) /\ ~Active(n)
  /\ final' = [final EXCEPT ![n] = Missing]
  /\ home' = IF home = n /\ n # active THEN None ELSE home
  /\ UNCHANGED <<temp, tftp, faults, cur, mem, pc, web, raced, cut>>

HTTPRequest ==
  \/ \E n \in Cards : SelectExec(n) \/ DeleteExec(n)
  \/ \E o, n \in Cards : RenameExec(o, n)
  \/ Move \/ SelWrite \/ SelRemove \/ SelMove \/ Rollback

----------------------------------------------------------------------------
(* The TFTP daemon runs between the other handlers; power may go at any    *)
(* time.                                                                   *)

TFTPRequest ==
  /\ pc = "idle" /\ TFTPStep
  /\ UNCHANGED <<cur, mem, pc, web, ghost>>

PowerCycle ==
  /\ Fault
  /\ Boot
  /\ cut' = (cut \/ (pc = "swap" /\ final[active] = Missing)
                \/ /\ op = "rename"
                   /\ pc \in {"selWrite", "selRemove", "selMove", "rollback"})
  /\ UNCHANGED <<disk, uploads, cur>>

Next ==
  EditCard \/ FlushCardRAMIfNeeded \/ HTTPRequest \/ TFTPRequest \/ PowerCycle

Spec == Init /\ [][Next]_vars

----------------------------------------------------------------------------
(* Safety.                                                                 *)

\* current.txt names a card the next boot can load, unless a replacement or a
\* rename of it was left half done by a power cut or a second failing call:
\* no sequence of selections, renames, deletes, uploads and flushes, each of
\* which may fail, leaves the selection dangling.
SelectionLoads == pc = "idle" /\ cur # None /\ ~cut => Loadable(final[cur])

\* A clear dirty flag means that the file of the card in memory holds its
\* image, unless the firmware wrote during the flush (CardRam shows that loss)
\* or the file was renamed since (FlushGoesHome shows what follows), which frees
\* its old name for uploads: otherwise no page and no upload takes the file
\* from under the running card, or puts another in its place.
CleanCardIsOnDisk ==
  pc = "idle" /\ ~dirty /\ ~raced /\ home = active => Loaded(final[active]) = ram

\* No step makes another card file of a wrong length: FileClose publishes only
\* what it counted to the byte, and the flush only what it wrote whole.
ShortCardsNeverGrow ==
  [][Cardinality({n \in Cards : final'[n] # Missing /\ ~Loadable(final'[n])})
     <= Cardinality({n \in Cards : final[n] # Missing /\ ~Loadable(final[n])})
    ]_vars

----------------------------------------------------------------------------
(* What the collection promises.                                           *)

\* A rename has moved the file of the selected card, and current.txt is still
\* to follow.
Following == pc \in {"selWrite", "selRemove", "selMove", "rollback"}
Moving == op = "rename" /\ Following

\* While the flush has no file under the name of the card, its snapshot is the
\* file; while the selection has not followed, the rename is still to come.
FileOnShelf(n) ==
  IF pc = "swap" /\ n = active /\ final[n] = Missing THEN temp[n]
  ELSE IF Moving /\ n = old THEN final[new]
  ELSE IF Moving /\ n = new THEN Missing
  ELSE final[n]

\* While there is no current.txt, a selection is made and a rename is not.
Chosen ==
  IF op = "select" /\ pc = "selMove" /\ cur = None THEN new
  ELSE IF Moving /\ pc # "rollback" THEN old
  ELSE cur

OnShelf == [n \in Owned |-> FileOnShelf(n)]
Copied == IF pc \in {"unlink", "swap"} THEN {temp[active].img} ELSE {}
Arriving ==
  IF file \in {"write", "failed"} /\ target \in Cards THEN target ELSE None
Asked ==
  IF op = "process" THEN [op |-> "none", old |-> None, new |-> None]
  ELSE [op |-> op, old |-> old, new |-> new]

Shelf == INSTANCE CardShelf WITH
  shelf <- OnShelf, chosen <- Chosen, running <- active, card <- ram,
  copy <- Copied, arriving <- Arriving, shared <- Lost, task <- Asked,
  accidents <- faults

\* The collection is the shelf that its users see: each handler, with all its
\* storage calls, failures and power cuts, is one step of the shelf or none,
\* whatever temp files, handles and half-done requests there are.  No upload
\* and no rename lands on a card that exists, nothing is lost unless a call
\* fails, and one failure costs one thing.
RefinesShelf == Shelf!Spec

\* The flush writes the file the card in memory was loaded from, under the name
\* it has now.  The code does not keep this: a rename leaves the active path.
FlushGoesHome ==
  [][pc = "swap" /\ dirty /\ ~dirty' => home \in {active, None}]_vars
=============================================================================
