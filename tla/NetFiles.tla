------------------------------ MODULE NetFiles ------------------------------
(***************************************************************************)
(* Core 0's network services on one SD card: the maintenance requests of   *)
(* Staging, the SYX files of PNFiles, the TFTP uploads and downloads of    *)
(* both, storage calls that fail and power cuts.                           *)
(***************************************************************************)
EXTENDS Staging, PNFiles

\* Contents are told apart by the file they were in at first; None is a backup's.
ASSUME NetFilesAssumption ==
  Name \cup {None} \subseteq Img /\ Garbled \notin Name

VARIABLE area  \* bound: the files the requests of a behaviour are about.  The
               \* areas share nothing but the daemon, whose memory of earlier
               \* transfers CardStore checks

vars == <<disk, tftp, faults, staging, pn, area>>

TypeOK ==
  /\ TFTPTypeOK /\ StagingTypeOK /\ PNTypeOK
  /\ area \in {Kernels, {Ini}, PN}

\* Complete files: the kernels or the ini, with or without staged uploads and
\* backups, or at most one SYX file (a bound: more of them come by uploads).
Init ==
  /\ Idle /\ uploads = 0 /\ faults = 0
  /\ area \in {Kernels, {Ini}, PN}
  /\ \E some \in SUBSET area, staged \in {{}, area \cap Staged} :
       /\ Cardinality(some \cap PN) <= 1
       /\ final = [n \in Name |->
                     IF n \in some \/ (n = Root /\ area # Kernels)
                       THEN [size |-> IF n \in PN THEN Parts ELSE MaxBlocks,
                             img |-> n]
                       ELSE Missing]
       /\ temp = [n \in Name |->
                    IF n \in staged THEN [size |-> MaxBlocks, img |-> Sent]
                    ELSE Missing]
  /\ StagingInit /\ (area # Kernels => ~second)
  /\ \A n \in Staged : backup[n] # Missing => n \in area
  /\ PNInit /\ (area # PN => dirs = {})

----------------------------------------------------------------------------

\* The names the daemon accepts: of the kernels, the one it takes for its own.
Served ==
  IF area = PN THEN {n \in PN \cap Remote : n[1] \in dirs}
  ELSE area \cap {Managed, Ini}

TFTPRequest ==
  /\ step = "idle" /\ Quiet
  /\ (\E n \in Served : FileOpen(n) \/ FileCreate(n)) \/ FileWrite \/ FileClose
  /\ excused' = (excused \/ (file \in {"write", "failed"} /\ held # target))
  /\ UNCHANGED <<staging, dirs, at, next, copy, undo, area>>

MaintenanceRequest ==
  /\ StagingRequest(area \cap {Managed, Ini})
  /\ UNCHANGED <<pn, area>>

SYXRequest ==
  /\ area = PN /\ step = "idle" /\ PNRequest
  /\ UNCHANGED <<staging, area>>

\* The directory may know less of an open upload than was written.  Without the
\* kernel config.txt selects the unit stays off.
PowerCycle ==
  /\ step # "off" /\ Fault
  /\ temp' \in IF file \in {"write", "failed"} /\ ~Lost
                 THEN {[temp EXCEPT ![held].size = s] : s \in 0..temp[held].size}
                 ELSE {temp}
  /\ Reset /\ Boot
  /\ step' = IF final[booted] = Missing THEN "off" ELSE "idle"
  /\ copy' = <<>> /\ undo' = FALSE /\ excused' = (excused \/ ~Quiet)
  /\ UNCHANGED <<final, uploads, backup, second, booted, dirs, at, next, area>>

Next == TFTPRequest \/ MaintenanceRequest \/ SYXRequest \/ PowerCycle

Spec == Init /\ [][Next]_vars

----------------------------------------------------------------------------
(* Safety.                                                                 *)

\* Every SYX file that did not come by TFTP is whole and has one origin, also
\* when uploads of the page break off, overlap with renames of their folder, or
\* are begun again over what was left: unless two uploads shared a temp file, a
\* write failed or a copy was cut short.
PublishedWhole ==
  Quiet /\ ~excused =>
    \A n \in PN : final[n] # Missing =>
      final[n].img = Sent \/ (final[n].size = Parts /\ final[n].img # Garbled)

\* What upload-chunk acknowledges is in the file that upload-finish publishes:
\* "The chunk has been written to the temporary upload file".  With one upload
\* in the behaviour nothing else touches the temp file.  The code does not keep
\* this: a failing fwrite is acknowledged too, and finish compares only sizes.
AcknowledgedChunksArrive ==
  \A n \in PN : final[n] # Missing => final[n].img # Garbled

----------------------------------------------------------------------------
(* What the SYX files promise.                                             *)

\* The target of a copy is there when the copy is done.
OnCard == [n \in PN |-> IF ~Quiet /\ n = copy[2] THEN Missing ELSE final[n]]

\* Who is sending which file.
Sending ==
  [u \in Tab \cup {Sent} |->
     IF u # Sent THEN at[u]
     ELSE IF file \in {"write", "failed"} /\ target \in PN THEN target ELSE None]
Adrift == Lost /\ target \in PN

Folders == INSTANCE SyxFolders WITH
  files <- OnCard, copying <- copy, sending <- Sending, adrift <- Adrift,
  accidents <- faults

\* All the requests about SYX files, with their temp files, chunks and handles,
\* are those of SyxFolders: a file that is there is never replaced and goes only
\* by its own move or delete, one appears only under a name that is free and was
\* announced or is a copy's target, a folder is deleted empty and renamed with
\* all it holds, and a failing call or a power cut leaves at most the empty
\* target of a copy.
RefinesFolders == Folders!Spec
=============================================================================
