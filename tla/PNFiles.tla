------------------------------ MODULE PNFiles ------------------------------
(***************************************************************************)
(* The .syx files in the folders under PN-JV80: the HTTP pages that copy,  *)
(* move, rename and delete files, create, rename and delete folders, and   *)
(* the upload page, whose script sends a file in chunks.  A chunked upload *)
(* collects in <final>.tmp, the name a TFTP upload of the same file uses.  *)
(*                                                                         *)
(* Every request runs to its end on core 0, but a copy makes its target     *)
(* visible before it is whole.  A request that a guard refuses changes      *)
(* nothing and is left out, unless the script stops because of it.         *)
(***************************************************************************)
EXTENDS TFTP

CONSTANTS
  Folder, Child,  \* folder and file names
  RolandPN,       \* the protected folder
  Tab,            \* upload pages in a browser, also the image each of them sends
  Parts           \* chunks of a file: the size of every file there is at first

PN == Folder \X Child

ASSUME PNAssumption ==
  /\ PN \subseteq Name
  /\ \A n \in PN : KindOf[n] = IF n[1] = RolandPN THEN "protected" ELSE "syx"
  /\ Tab \subseteq Img /\ Tab \cap {Sent, Garbled} = {}
  /\ Parts \in 1..MaxBlocks

VARIABLES
  dirs,      \* the folders that exist
  at,        \* the file each page is uploading
  next,      \* the chunk it sends next
  copy,      \* the source and target of the copy in progress, or <<>>
  undo,      \* its target is to be removed
  excused    \* history: a page wrote into another upload's temp file, the daemon
             \* into none of its own, a failed write was acknowledged, or a copy
             \* cut short

pn == <<dirs, at, next, copy, undo, excused>>

PNTypeOK ==
  /\ dirs \in SUBSET Folder
  /\ at \in [Tab -> PN \cup {None}] /\ next \in [Tab -> 0..Parts]
  /\ copy \in {<<>>} \cup (PN \X PN) /\ undo \in BOOLEAN
  /\ excused \in BOOLEAN

Quiet == copy = <<>>
Exists(n) == n[1] \in dirs /\ final[n] # Missing
Free(n)   == n[1] \in dirs /\ final[n] = Missing

\* What the parameter of a copy or move, a rename, a new folder must name.
Elsewhere(s, d) == d[2] = s[2] /\ d[1] # s[1]
Renamed(s, d)   == d[1] = s[1] /\ d[2] # s[2]
NewFolder(f)    == f # RolandPN /\ f \notin dirs

PNInit ==
  /\ dirs \in {d \in SUBSET Folder : \A n \in PN : final[n] # Missing => n[1] \in d}
  /\ at = [t \in Tab |-> None] /\ next = [t \in Tab |-> 0]
  /\ copy = <<>> /\ undo = FALSE /\ excused = FALSE

\* The handle of an open TFTP upload loses its file when the name is given to
\* another, or the file is written behind its back.
Snatch(n) == held' = IF held = n THEN None ELSE held

session == <<file, target, flags, bytes>>

----------------------------------------------------------------------------
(* The upload page and its three handlers.                                 *)

Stop(t)    == at' = [at EXCEPT ![t] = None] /\ next' = [next EXCEPT ![t] = 0]
Proceed(t) == at' = at /\ next' = [next EXCEPT ![t] = next[t] + 1]

\* /upload-begin removes the temp file and creates an empty one, which stays.
Begin(t, n) ==
  /\ Quiet /\ at[t] = None /\ uploads < MaxUploads /\ uploads' = uploads + 1
  /\ n[1] # RolandPN /\ Free(n)
  /\ \/ /\ temp' = [temp EXCEPT ![n] = [size |-> 0, img |-> t]]
        /\ at' = [at EXCEPT ![t] = n] /\ next' = next /\ Fine
     \/ /\ temp' \in {temp, [temp EXCEPT ![n] = Missing]} /\ Fault
        /\ UNCHANGED <<at, next>>
  /\ Snatch(n)
  /\ UNCHANGED <<final, session, dirs, copy, undo, excused>>

\* Mutant: the chunk is appended.
PutAppended(f, t, k) ==
  [size |-> f.size + 1, img |-> IF f.img = t /\ k = f.size THEN t ELSE Garbled]

\* A file after chunk k of image t was written at its offset.
Put(f, t, k) ==
  [size |-> IF k < f.size THEN f.size ELSE k + 1,
   img  |-> IF f.img = t /\ k <= f.size THEN t ELSE Garbled]

\* /upload-chunk.  It does not know who sends, nor what was sent before.  A
\* failed fwrite only leaves the loop: the page still says "accepted".
Chunk(t) ==
  /\ Quiet /\ at[t] # None /\ next[t] < Parts
  /\ LET n == at[t]  put == [temp EXCEPT ![n] = Put(temp[n], t, next[t])] IN
     IF n[1] \notin dirs \/ temp[n] = Missing
       THEN Stop(t) /\ Fine /\ UNCHANGED <<temp, held, excused>>
       ELSE /\ \/ temp' = put /\ Proceed(t) /\ Fine
               \/ temp' = temp /\ Proceed(t) /\ Fault
               \/ temp' \in {temp, put} /\ Stop(t) /\ Fault
            /\ excused' = (excused \/ temp[n].img # t \/ temp[n].size < next[t]
                             \/ (temp' = temp /\ next'[t] = next[t] + 1))
            /\ Snatch(n)
  /\ UNCHANGED <<final, session, uploads, dirs, copy, undo>>

\* What the directory says of the size of a temp file: that of an open one is
\* brought up to date when it is closed.
Seen(n) == IF held = n THEN 0..temp[n].size ELSE {temp[n].size}

\* Mutant: whatever has been collected is published.
FinishAnySize(t) ==
  /\ Quiet /\ at[t] # None /\ next[t] = Parts /\ Stop(t)
  /\ LET n == at[t] IN
     IF n[1] \notin dirs \/ temp[n] = Missing \/ final[n] # Missing
       THEN UNCHANGED <<disk, held, faults>>
       ELSE /\ final' = [final EXCEPT ![n] = temp[n]] /\ Fine
            /\ temp' = [temp EXCEPT ![n] = Missing] /\ Snatch(n)
  /\ UNCHANGED <<session, uploads, dirs, copy, undo, excused>>

\* /upload-finish compares the sizes and renames the temp file, or removes it; if
\* a call fails, it may do neither.
Finish(t) ==
  /\ Quiet /\ at[t] # None /\ next[t] = Parts /\ Stop(t)
  /\ LET n == at[t] IN
     IF n[1] \notin dirs \/ temp[n] = Missing
       THEN UNCHANGED <<disk, held, faults>>
       ELSE \/ /\ Parts \in Seen(n) /\ final[n] = Missing
               /\ final' = [final EXCEPT ![n] = [temp[n] EXCEPT !.size = Parts]]
               /\ temp' = [temp EXCEPT ![n] = Missing] /\ Snatch(n) /\ Fine
            \/ /\ Seen(n) # {Parts} \/ final[n] # Missing
               /\ final' = final
               /\ temp' = [temp EXCEPT ![n] = Missing] /\ Snatch(n) /\ Fine
            \/ /\ Fault /\ final' = final
               /\ \/ UNCHANGED <<temp, held>>
                  \/ temp' = [temp EXCEPT ![n] = Missing] /\ Snatch(n)
  /\ UNCHANGED <<session, uploads, dirs, copy, undo, excused>>

\* The request or its answer is lost, or the page closed.
Leave(t) ==
  /\ at[t] # None /\ Stop(t)
  /\ UNCHANGED <<disk, tftp, faults, dirs, copy, undo, excused>>

----------------------------------------------------------------------------
(* File operations.  They look at the target, not at temp files.           *)

\* Mutant: the copy does not look whether the target exists.
CopyOver(s, d) ==
  /\ Quiet /\ uploads < MaxUploads /\ uploads' = uploads + 1
  /\ Exists(s) /\ Elsewhere(s, d) /\ d[1] \in dirs
  /\ final' = [final EXCEPT ![d] = [final[s] EXCEPT !.size = 0]]
  /\ copy' = <<s, d>> /\ Fine
  /\ UNCHANGED <<temp, session, held, dirs, at, next, undo, excused>>

\* /copy-exec, to another folder: CopyFileContents opens the target ...
CopyExec(s, d) ==
  /\ Quiet /\ uploads < MaxUploads /\ uploads' = uploads + 1
  /\ Exists(s) /\ Elsewhere(s, d) /\ Free(d)
  /\ \/ /\ final' = [final EXCEPT ![d] = [final[s] EXCEPT !.size = 0]]
        /\ copy' = <<s, d>> /\ Fine
     \/ UNCHANGED <<final, copy>> /\ Fault
  /\ UNCHANGED <<temp, session, held, dirs, at, next, undo, excused>>

\* ... copies the contents, or stops half way ...
CopyContents ==
  /\ ~Quiet /\ ~undo
  /\ \/ /\ final' = [final EXCEPT ![copy[2]] = final[copy[1]]]
        /\ copy' = <<>> /\ undo' = FALSE /\ Fine
     \/ UNCHANGED <<final, copy>> /\ undo' = TRUE /\ Fault
  /\ UNCHANGED <<temp, tftp, dirs, at, next, excused>>

\* ... and then removes the target.
CopyUndo ==
  /\ undo /\ undo' = FALSE /\ copy' = <<>>
  /\ \/ /\ final' = [final EXCEPT ![copy[2]] = Missing] /\ Fine
        /\ excused' = excused
     \/ final' = final /\ Fault /\ excused' = TRUE
  /\ UNCHANGED <<temp, tftp, dirs, at, next>>

MoveFile(s, d) ==
  /\ \/ final' = [final EXCEPT ![d] = final[s], ![s] = Missing] /\ Fine
     \/ final' = final /\ Fault
  /\ UNCHANGED <<temp, tftp, pn>>

\* /move-exec goes to another folder, /rename-exec to another name.
MoveExec(s, d) ==
  Quiet /\ Exists(s) /\ Elsewhere(s, d) /\ Free(d) /\ MoveFile(s, d)
RenameExec(s, d) ==
  Quiet /\ Exists(s) /\ Renamed(s, d) /\ Free(d) /\ MoveFile(s, d)

\* /delete-exec.
DeleteExec(n) ==
  /\ Quiet /\ Exists(n)
  /\ \/ final' = [final EXCEPT ![n] = Missing] /\ Fine
     \/ final' = final /\ Fault
  /\ UNCHANGED <<temp, tftp, pn>>

----------------------------------------------------------------------------
(* Folder operations.                                                      *)

\* /dir-create-exec.
DirCreateExec(f) ==
  /\ Quiet /\ NewFolder(f)
  /\ \/ dirs' = dirs \cup {f} /\ Fine
     \/ dirs' = dirs /\ Fault
  /\ UNCHANGED <<disk, tftp, at, next, copy, undo, excused>>

\* What folder f held is in folder g.
Carried(files, f, g) ==
  [n \in Name |-> IF n \notin PN THEN files[n]
                  ELSE IF n[1] = f THEN Missing
                  ELSE IF n[1] = g THEN files[<<f, n[2]>>] ELSE files[n]]

\* /dir-rename-exec takes everything along, open files too.
DirRenameExec(f, g) ==
  /\ Quiet /\ f # RolandPN /\ f \in dirs /\ NewFolder(g)
  /\ \/ /\ dirs' = (dirs \ {f}) \cup {g} /\ Fine
        /\ final' = Carried(final, f, g) /\ temp' = Carried(temp, f, g)
        /\ held' = IF held \in PN /\ held[1] = f THEN <<g, held[2]>> ELSE held
     \/ UNCHANGED <<dirs, disk, held>> /\ Fault
  /\ UNCHANGED <<session, uploads, at, next, copy, undo, excused>>

\* /dir-delete-exec: the folder must be empty.
DirDeleteExec(f) ==
  /\ Quiet /\ f # RolandPN /\ f \in dirs
  /\ \A n \in PN : n[1] = f => final[n] = Missing /\ temp[n] = Missing
  /\ \/ dirs' = dirs \ {f} /\ Fine
     \/ dirs' = dirs /\ Fault
  /\ UNCHANGED <<disk, tftp, at, next, copy, undo, excused>>

PNRequest ==
  \/ \E t \in Tab : Chunk(t) \/ Finish(t) \/ Leave(t) \/ \E n \in PN : Begin(t, n)
  \/ \E s, d \in PN : CopyExec(s, d) \/ MoveExec(s, d) \/ RenameExec(s, d)
  \/ CopyContents \/ CopyUndo
  \/ \E n \in PN : DeleteExec(n)
  \/ \E f \in Folder : DirCreateExec(f) \/ DirDeleteExec(f)
  \/ \E f, g \in Folder : DirRenameExec(f, g)
=============================================================================
