----------------------------- MODULE SyxFolders -----------------------------
(***************************************************************************)
(* What the pages of PN-JV80 and the TFTP daemon promise together: SYX     *)
(* files in folders.  A file appears whole, under a name that was free when *)
(* its sender announced it and is free now, or as the copy of another that  *)
(* nothing has touched since the copy began; it goes by a move to a free    *)
(* name or by a delete, and a folder takes its files along or is empty.     *)
(* What a failing call or a power cut may leave is the empty target of a    *)
(* copy, nothing else.  A page that works on the upload of the daemon's     *)
(* client may turn the client's further blocks against the file of that one *)
(* name.                                                                   *)
(***************************************************************************)
EXTENDS Naturals

CONSTANTS Folder, Child, RolandPN, Tab, Sent, Content, Missing, None, Garbled
                                                         \* as in PNFiles

VARIABLES
  files,     \* the files by folder and name
  dirs,      \* the folders
  copying,   \* the source and target of the copy in progress, or <<>>
  sending,   \* the name under which each sender uploads
  adrift,    \* the daemon's upload may have lost its temp file to a page
  accidents  \* counter of failing calls and power cuts

vars == <<files, dirs, copying, sending, adrift, accidents>>

PN == Folder \X Child
Sender == Tab \cup {Sent}   \* the upload pages, and the daemon's client

Exists(n) == n[1] \in dirs /\ files[n] # Missing
Free(n)   == n[1] \in dirs /\ files[n] = Missing
With(n, f) == [files EXCEPT ![n] = f]
Elsewhere(s, d) == d[2] = s[2] /\ d[1] # s[1]
Renamed(s, d)   == d[1] = s[1] /\ d[2] # s[2]

Init ==
  /\ files \in [PN -> Content]
  /\ dirs \in {d \in SUBSET Folder : \A n \in PN : files[n] # Missing => n[1] \in d}
  /\ copying = <<>> /\ sending = [u \in Sender |-> None] /\ adrift = FALSE /\ accidents = 0

----------------------------------------------------------------------------
(* Uploads.                                                                *)

\* Whatever page does, the daemon's upload may suffer from it.
Suffers == adrift' \in {adrift, sending[Sent] # None}

Announce(u, n) ==
  /\ sending[u] = None /\ n[1] # RolandPN /\ Free(n)
  /\ \/ sending' = [sending EXCEPT ![u] = n]
     \/ sending' = sending /\ accidents' = accidents + 1
  /\ IF u = Sent THEN adrift' = adrift ELSE Suffers
  /\ UNCHANGED <<files, dirs>>

Collect(t) ==
  /\ sending[t] # None /\ Suffers
  /\ UNCHANGED <<files, dirs, sending>>

Done(u) ==
  /\ sending[u] # None /\ sending' = [sending EXCEPT ![u] = None]
  /\ IF u = Sent THEN adrift' = FALSE ELSE Suffers
  /\ dirs' = dirs

Publish(u) ==
  /\ Done(u) /\ Free(sending[u])
  /\ \E f \in Content \ {Missing} : files' = With(sending[u], f)

GiveUp(u) == Done(u) /\ files' = files

Spoil ==
  /\ adrift /\ \E n \in PN :
       /\ n = sending[Sent] /\ Exists(n)
       /\ files' = With(n, [files[n] EXCEPT !.img = Garbled])
  /\ UNCHANGED <<dirs, sending, adrift>>

----------------------------------------------------------------------------
(* Files and folders.                                                      *)

Move(s, d) ==
  /\ Exists(s) /\ (Elsewhere(s, d) \/ Renamed(s, d)) /\ Free(d)
  /\ files' = [files EXCEPT ![d] = files[s], ![s] = Missing]

Delete(n) == Exists(n) /\ files' = With(n, Missing)

Create(f) == f # RolandPN /\ f \notin dirs /\ dirs' = dirs \cup {f}

RenameDir(f, g) ==
  /\ f \in dirs \ {RolandPN} /\ g \notin dirs \cup {RolandPN}
  /\ dirs' = (dirs \ {f}) \cup {g}
  /\ files' = [n \in PN |-> IF n[1] = f THEN Missing
                            ELSE IF n[1] = g THEN files[<<f, n[2]>>] ELSE files[n]]

DeleteDir(f) ==
  /\ f \in dirs \ {RolandPN} /\ \A n \in PN : n[1] = f => files[n] = Missing
  /\ dirs' = dirs \ {f}

FileRequest ==
  /\ dirs' = dirs
  /\ (\E s, d \in PN : Move(s, d)) \/ \E n \in PN : Delete(n)

DirRequest ==
  \/ \E f \in Folder : (Create(f) \/ DeleteDir(f)) /\ files' = files
  \/ \E f, g \in Folder : RenameDir(f, g)

----------------------------------------------------------------------------
(* Copies.                                                                 *)

Copy(s, d) ==
  /\ copying = <<>> /\ copying' = <<s, d>>
  /\ Exists(s) /\ Elsewhere(s, d) /\ Free(d)
  /\ files' = files

\* It arrives, or nothing of it does.
CopyEnds ==
  /\ copying # <<>> /\ copying' = <<>>
  /\ files' \in {With(copying[2], files[copying[1]]), files}

\* It is cut short.
Stub ==
  /\ copying # <<>>
  /\ files' = With(copying[2], [files[copying[1]] EXCEPT !.size = 0])

Cut == Stub /\ copying' = <<>> /\ UNCHANGED <<dirs, sending, adrift>>

\* The pages are in the browser and go on.
Restart ==
  /\ Stub \/ files' = files
  /\ sending' = [sending EXCEPT ![Sent] = None] /\ adrift' = FALSE
  /\ copying' = <<>> /\ dirs' = dirs

----------------------------------------------------------------------------

\* Only a sender's leaving may come while a file is copied.
Request ==
  /\ copying = <<>>
  /\ \/ \E u \in Sender : Publish(u) \/ \E n \in PN : Announce(u, n)
     \/ \E t \in Tab : Collect(t)
     \/ Spoil
     \/ UNCHANGED <<sending, adrift>> /\ (FileRequest \/ DirRequest)

Step ==
  \/ UNCHANGED <<files, dirs, copying, sending, adrift>>
  \/ copying' = copying /\ (Request \/ \E u \in Sender : GiveUp(u))
  \/ /\ (\E s, d \in PN : Copy(s, d)) \/ CopyEnds
     /\ UNCHANGED <<dirs, sending, adrift>>

Next ==
  \/ Step /\ accidents' \in {accidents, accidents + 1}
  \/ (Cut \/ Restart) /\ accidents' = accidents + 1

Spec == Init /\ [][Next]_vars
=============================================================================
