-------------------------------- MODULE TFTP --------------------------------
(***************************************************************************)
(* CMiniJV880TFTPDaemon: one transfer at a time between a client and the   *)
(* SD card.  Card and SYX uploads go to <final>.tmp and are renamed when    *)
(* they end; kernel and ini uploads stay in their stage file, which HTTP    *)
(* handlers activate later.  The flags that tell the four kinds apart are   *)
(* members of the daemon and outlive a transfer.                            *)
(*                                                                         *)
(* The Circle class that calls these handlers is external: it may end a    *)
(* transfer at any time (last packet, timeout, error), and it does so by   *)
(* calling FileClose.  Every handler runs to its end on core 0.            *)
(***************************************************************************)
EXTENDS Naturals, FiniteSets

CONSTANTS
  Name,       \* what a file is called, without its ".tmp" or stage variant
  KindOf,     \* the kind of each name
  Missing,    \* no file
  None,       \* no name
  Sent,       \* the contents a client sends
  Garbled,    \* the contents of a file whose clusters were written by another
  Img,        \* all contents
  Full,       \* blocks of a card (32768 bytes)
  KernelMin,  \* least blocks of a kernel (65536 bytes)
  MaxBlocks,  \* bound: blocks of a transfer
  MaxUploads, \* bound: write requests
  MaxFaults   \* bound: storage calls that fail, and power cuts

\* Nobody transfers the legacy card or a file of the protected SYX folder.
Kinds == {"kernel", "ini", "syx", "card", "legacy", "protected"}

ASSUME TFTPAssumption ==
  /\ KindOf \in [Name -> Kinds]
  /\ None \notin Name /\ Missing \notin [size : 0..MaxBlocks, img : Img]
  /\ {Sent, Garbled} \subseteq Img
  /\ Full \in 1..MaxBlocks /\ KernelMin \in Nat
  /\ MaxBlocks \in Nat /\ MaxUploads \in Nat /\ MaxFaults \in Nat

VARIABLES
  final,    \* the files by name: the active file of a kernel or an ini
  temp,     \* their .tmp, or the stage file of a kernel or an ini
  file,     \* m_pFile with m_bWriteMode; "failed" after a short write
  target,   \* the upload's name: m_CardRAMPath, m_SYXPath or m_StagingPath
  kernelT, syxT, cardT,   \* m_bKernelTransfer, m_bSYXTransfer, ...
  bytes,    \* m_nBytesWritten
  held,     \* the temp file behind m_pFile, by the name it has now; None when it
            \* was removed or replaced under the handle
  uploads,  \* counter of write requests
  faults    \* counter of failed storage calls and power cuts

flags == <<kernelT, syxT, cardT>>
tftp  == <<file, target, flags, bytes, held, uploads>>
disk  == <<final, temp>>

Blocks  == 0..MaxBlocks
File    == [size : Blocks, img : Img]
Content == File \cup {Missing}
Remote  == {n \in Name : KindOf[n] \notin {"legacy", "protected"}}

TFTPTypeOK ==
  /\ final \in [Name -> Content] /\ temp \in [Name -> Content]
  /\ file \in {"none", "read", "write", "failed"}
  /\ target \in Name \cup {None}
  /\ kernelT \in BOOLEAN /\ syxT \in BOOLEAN /\ cardT \in BOOLEAN
  /\ bytes \in Blocks /\ held \in Name \cup {None} /\ faults \in 0..MaxFaults
  /\ uploads \in 0..MaxUploads

Whole(i) == [size |-> Full, img |-> i]
Loadable(f) == f # Missing /\ f.size = Full

\* A storage call fails.
Fault == faults < MaxFaults /\ faults' = faults + 1
Fine  == faults' = faults

\* The daemon between transfers.
Idle == /\ file = "none" /\ target = None /\ held = None /\ bytes = 0
        /\ kernelT = FALSE /\ syxT = FALSE /\ cardT = FALSE

Reset == /\ file' = "none" /\ target' = None /\ bytes' = 0 /\ held' = None
         /\ kernelT' = FALSE /\ syxT' = FALSE /\ cardT' = FALSE

\* The call itself works, or it fails and changes nothing.
Remove(n) == \/ temp' = [temp EXCEPT ![n] = Missing] /\ Fine
             \/ temp' = temp /\ Fault

----------------------------------------------------------------------------
(* Read requests.                                                          *)

\* What FileOpen leaves in the flags before it opens the file.
OpenFlags(n) ==
  /\ kernelT' = (KindOf[n] = "kernel")
  /\ syxT' = (syxT /\ KindOf[n] # "card")

\* fopen fails: the flags keep what they were just given.
FileOpenFails(n) ==
  /\ file = "none" /\ KindOf[n] # "syx"
  /\ \/ final[n] = Missing /\ Fine
     \/ Fault
  /\ OpenFlags(n)
  /\ cardT' = (cardT \/ KindOf[n] = "card")
  /\ bytes' = 0
  /\ UNCHANGED <<disk, file, target, held, uploads>>

\* The size test follows the flag, whatever the file is.
FileOpens(n) ==
  /\ file = "none" /\ KindOf[n] # "syx" /\ final[n] # Missing
  /\ OpenFlags(n)
  /\ bytes' = 0
  /\ LET card == cardT \/ KindOf[n] = "card" IN
     \/ /\ card => final[n].size = Full
        /\ file' = "read" /\ target' = None /\ cardT' = card /\ Fine
     \/ /\ card /\ file' = "none" /\ target' = None /\ cardT' = FALSE
        /\ IF final[n].size # Full THEN Fine ELSE Fault
  /\ UNCHANGED <<disk, held, uploads>>

FileOpen(n) == FileOpenFails(n) \/ FileOpens(n)

----------------------------------------------------------------------------
(* Write requests.                                                         *)

\* FileCreate of a card or SYX name that exists, or whose folder is missing.
Refuse(n) ==
  /\ KindOf[n] \in {"card", "syx"}
  /\ \/ final[n] # Missing /\ Fine
     \/ Fault
  /\ Reset
  /\ UNCHANGED disk

\* A temp file left behind is removed and a new one opened.
CreateTemp(n) ==
  /\ KindOf[n] \in {"card", "syx"} /\ final[n] = Missing
  /\ \/ /\ temp' = [temp EXCEPT ![n] = [size |-> 0, img |-> Sent]]
        /\ file' = "write" /\ target' = n /\ held' = n /\ Fine
        /\ syxT' = (KindOf[n] = "syx") /\ cardT' = (KindOf[n] = "card")
        /\ kernelT' = FALSE
     \/ /\ temp' = [temp EXCEPT ![n] = Missing] /\ Fault
        /\ file' = "none" /\ target' = None /\ held' = None
        /\ syxT' = FALSE /\ cardT' = FALSE /\ kernelT' = FALSE
  /\ bytes' = 0
  /\ UNCHANGED final

\* Mutant: the flags of an earlier request are not cleared.
CreateStageKeeping(n) ==
  /\ KindOf[n] \in {"kernel", "ini"}
  /\ temp' = [temp EXCEPT ![n] = [size |-> 0, img |-> Sent]]
  /\ file' = "write" /\ target' = n /\ held' = n /\ Fine
  /\ kernelT' = (KindOf[n] = "kernel") /\ syxT' = syxT /\ cardT' = cardT
  /\ bytes' = 0
  /\ UNCHANGED final

\* A kernel or ini upload replaces the staged file at once.
CreateStage(n) ==
  /\ KindOf[n] \in {"kernel", "ini"}
  /\ \/ /\ temp' = [temp EXCEPT ![n] = [size |-> 0, img |-> Sent]]
        /\ file' = "write" /\ target' = n /\ held' = n /\ Fine
     \/ /\ temp' = [temp EXCEPT ![n] = Missing] /\ Fault
        /\ file' = "none" /\ target' = None /\ held' = None
  /\ kernelT' = (KindOf[n] = "kernel") /\ syxT' = FALSE /\ cardT' = FALSE
  /\ bytes' = 0
  /\ UNCHANGED final

FileCreate(n) ==
  /\ file = "none" /\ uploads < MaxUploads /\ uploads' = uploads + 1
  /\ (Refuse(n) \/ CreateTemp(n) \/ CreateStage(n))

\* The daemon writes through a handle that has lost its file.
Lost == file \in {"write", "failed"} /\ held = None

\* A block is written.  What a write through such a handle does is up to
\* FatFs: it may land in clusters of the file that took the name.
WriteBlock ==
  /\ file = "write" /\ bytes < MaxBlocks
  /\ bytes' = bytes + 1
  /\ IF Lost
       THEN \/ UNCHANGED disk
            \/ /\ final[target] # Missing /\ temp' = temp
               /\ final' = [final EXCEPT ![target].img = Garbled]
            \/ /\ temp[target] # Missing /\ final' = final
               /\ temp' = [temp EXCEPT ![target].img = Garbled]
       ELSE /\ temp' = [temp EXCEPT ![held].size = bytes + 1]
            /\ final' = final
  /\ UNCHANGED <<file, target, flags, held, uploads, faults>>

\* fwrite writes less than a block, which is not counted.
WriteShort ==
  /\ file = "write" /\ Fault
  /\ file' = "failed"
  /\ UNCHANGED <<disk, target, flags, bytes, held, uploads>>

FileWrite == WriteBlock \/ WriteShort

----------------------------------------------------------------------------
(* The end of a transfer.                                                  *)

CloseRead ==
  /\ file = "read"
  /\ Reset
  /\ UNCHANGED <<disk, faults>>

\* fclose fails, or ferror remembers a failed write.
CloseError ==
  /\ file \in {"write", "failed"}
  /\ temp' = [temp EXCEPT ![target] = Missing]
  /\ IF file = "failed" THEN Fine ELSE Fault
  /\ Reset
  /\ UNCHANGED final

\* Mutant: a card of any length is published.
PublishAnyLength ==
  /\ file \in {"write", "failed"} /\ (syxT \/ cardT)
  /\ IF final[target] # Missing
       THEN Remove(target) /\ final' = final
       ELSE IF temp[target] # Missing
       THEN /\ final' = [final EXCEPT ![target] = temp[target]]
            /\ temp' = [temp EXCEPT ![target] = Missing] /\ Fine
       ELSE UNCHANGED <<disk, faults>>
  /\ Reset

\* A card or SYX upload is renamed to its final name, or removed.
Publish ==
  /\ file \in {"write", "failed"} /\ (syxT \/ cardT)
  /\ \/ /\ (~syxT /\ bytes # Full) \/ final[target] # Missing
        /\ Remove(target) /\ final' = final
     \/ /\ syxT \/ bytes = Full
        /\ final[target] = Missing /\ temp[target] # Missing
        /\ final' = [final EXCEPT ![target] = temp[target]]
        /\ temp' = [temp EXCEPT ![target] = Missing] /\ Fine
     \/ /\ syxT \/ bytes = Full
        /\ final[target] = Missing
        /\ final' = final
        /\ temp' = [temp EXCEPT ![target] = Missing]
        /\ IF temp[target] = Missing THEN Fine ELSE Fault
  /\ Reset

\* A kernel or ini upload stays staged, unless the kernel is too small.
CloseStage ==
  /\ file \in {"write", "failed"} /\ ~syxT /\ ~cardT
  /\ IF kernelT /\ bytes < KernelMin
       THEN Remove(target)
       ELSE UNCHANGED <<temp, faults>>
  /\ Reset
  /\ UNCHANGED final

FileClose ==
  /\ CloseRead \/ CloseError \/ Publish \/ CloseStage
  /\ UNCHANGED uploads

TFTPStep ==
  \/ \E n \in Remote : FileOpen(n) \/ FileCreate(n)
  \/ FileWrite \/ FileClose

\* The flags of an open upload are those of its own kind, and its counter is
\* the size of its temp file, whatever earlier requests, failed opens or
\* refused uploads left behind: FileClose decides by them alone.
UploadSession ==
  file = "write" =>
    /\ kernelT <=> KindOf[target] = "kernel"
    /\ syxT <=> KindOf[target] = "syx"
    /\ cardT <=> KindOf[target] = "card"
    /\ ~Lost => temp[held] # Missing /\ temp[held].size = bytes
=============================================================================
