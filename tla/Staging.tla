------------------------------ MODULE Staging ------------------------------
(***************************************************************************)
(* Kernel and ini maintenance.  TFTP leaves an upload in a stage file;     *)
(* /kernel-activate-exec and /ini-apply-exec move the active file to a      *)
(* backup and the stage file to the active name, one storage call after     *)
(* the other, and roll back if the second move fails.                      *)
(*                                                                         *)
(* Which kernel is maintained is decided afresh by every request, from the  *)
(* kernels that are on the card (DetectBootLayout).  Which one boots is     *)
(* decided by config.txt, which the program never writes.  A kernel is     *)
(* loaded once, at boot; the unit then runs on without its file.           *)
(***************************************************************************)
EXTENDS TFTP

CONSTANTS
  Root, Folder880,  \* kernel8-rpi4.img in the root and in minijv880/
  Ini               \* minijv880.ini

Kernels == {Root, Folder880}
Staged  == Kernels \cup {Ini}

ASSUME StagingAssumption ==
  /\ Staged \subseteq Name /\ Cardinality(Staged) = 3
  /\ \A n \in Kernels : KindOf[n] = "kernel"
  /\ KindOf[Ini] = "ini"

VARIABLES
  backup,    \* the .bak files, as final and temp hold the others
  second,    \* the second system's kernel is on the card
  booted,    \* the kernel config.txt selects
  step,      \* the next storage call of the activation in progress
  item,      \* what it activates
  inUse,     \* history: the files this boot loaded
  activated, \* history: what was activated since
  dropped    \* history: whose backup was deleted, or activated over again

staging == <<backup, second, booted, step, item, inUse, activated, dropped>>

StagingTypeOK ==
  /\ backup \in [Staged -> Content] /\ second \in BOOLEAN
  /\ booted \in Kernels
  /\ step \in {"idle", "remove", "save", "promote", "rollback", "off"}
  /\ item \in Staged \cup {None}
  /\ inUse \in [Staged -> Content]
  /\ activated \in SUBSET Staged /\ dropped \in SUBSET Staged

\* DetectBootLayout.
Managed ==
  IF final[Folder880] # Missing /\ (second \/ final[Root] = Missing)
    THEN Folder880 ELSE Root

Boot ==
  /\ inUse' = [n \in Staged |-> final[n]]
  /\ activated' = {} /\ dropped' = {} /\ item' = None

\* The kernel that runs is there.
StagingInit ==
  /\ \E some \in SUBSET Staged :
       backup = [n \in Staged |->
                   IF n \in some THEN [size |-> MaxBlocks, img |-> None]
                   ELSE Missing]
  /\ second \in BOOLEAN
  /\ booted \in {k \in Kernels : final[k] # Missing}
  /\ step = "idle" /\ item = None
  /\ inUse = [n \in Staged |-> final[n]] /\ activated = {} /\ dropped = {}

----------------------------------------------------------------------------
(* /kernel-activate-exec and /ini-apply-exec.                              *)

\* Mutant: only the stage file must exist.
ActivateAnything(n) ==
  /\ step = "idle" /\ temp[n] # Missing
  /\ step' = IF backup[n] # Missing THEN "remove" ELSE "save"
  /\ item' = n
  /\ UNCHANGED <<disk, tftp, faults, backup, second, booted, inUse, activated,
                 dropped>>

\* Both files must exist.
ActivateExec(n) ==
  /\ step = "idle" /\ final[n] # Missing /\ temp[n] # Missing
  /\ step' = IF backup[n] # Missing THEN "remove" ELSE "save"
  /\ item' = n
  /\ UNCHANGED <<disk, tftp, faults, backup, second, booted, inUse, activated,
                 dropped>>

Done == step' = "idle" /\ item' = None
Call(l) == step' = l /\ item' = item

RemoveBackup ==
  /\ step = "remove"
  /\ \/ /\ backup' = [backup EXCEPT ![item] = Missing] /\ Call("save") /\ Fine
        /\ dropped' = IF item \in activated THEN dropped \cup {item} ELSE dropped
     \/ UNCHANGED <<backup, dropped>> /\ Done /\ Fault
  /\ UNCHANGED <<disk, tftp, second, booted, inUse, activated>>

SaveActive ==
  /\ step = "save"
  /\ \/ /\ backup' = [backup EXCEPT ![item] = final[item]]
        /\ final' = [final EXCEPT ![item] = Missing]
        /\ Call("promote") /\ Fine
     \/ UNCHANGED <<backup, final>> /\ Done /\ Fault
  /\ UNCHANGED <<temp, tftp, second, booted, inUse, activated, dropped>>

\* Mutant: nothing is put back.
PromoteOrStop ==
  /\ step = "promote"
  /\ \/ /\ final' = [final EXCEPT ![item] = temp[item]]
        /\ temp' = [temp EXCEPT ![item] = Missing]
        /\ held' = IF held = item THEN None ELSE held
        /\ activated' = activated \cup {item} /\ Fine
     \/ UNCHANGED <<disk, held, activated>> /\ Fault
  /\ Done
  /\ UNCHANGED <<file, target, flags, bytes, uploads, backup, second, booted,
                 inUse, dropped>>

\* While the upload is still open, the directory may show less of it than was
\* written, and its handle loses the file.
PromoteStage ==
  /\ step = "promote"
  /\ \/ /\ \E s \in IF held = item THEN 0..temp[item].size ELSE {temp[item].size} :
             final' = [final EXCEPT ![item] = [temp[item] EXCEPT !.size = s]]
        /\ temp' = [temp EXCEPT ![item] = Missing]
        /\ held' = IF held = item THEN None ELSE held
        /\ activated' = activated \cup {item}
        /\ Done /\ Fine
     \/ UNCHANGED <<disk, held, activated>> /\ Call("rollback") /\ Fault
  /\ UNCHANGED <<file, target, flags, bytes, uploads, backup, second, booted,
                 inUse, dropped>>

RollBack ==
  /\ step = "rollback"
  /\ \/ /\ final' = [final EXCEPT ![item] = backup[item]]
        /\ backup' = [backup EXCEPT ![item] = Missing] /\ Fine
     \/ UNCHANGED <<backup, final>> /\ Fault
  /\ Done
  /\ UNCHANGED <<temp, tftp, second, booted, inUse, activated, dropped>>

\* /kernel-backup-delete-exec and /ini-backup-delete.
BackupDeleteExec(n) ==
  /\ step = "idle" /\ backup[n] # Missing
  /\ \/ /\ backup' = [backup EXCEPT ![n] = Missing]
        /\ dropped' = dropped \cup {n} /\ Fine
     \/ UNCHANGED <<backup, dropped>> /\ Fault
  /\ UNCHANGED <<disk, tftp, second, booted, step, item, inUse, activated>>

StagingRequest(some) ==
  \/ \E n \in some : ActivateExec(n) \/ BackupDeleteExec(n)
  \/ RemoveBackup \/ SaveActive \/ PromoteStage \/ RollBack

----------------------------------------------------------------------------
(* Safety.                                                                 *)

\* What this boot loaded is still on the card, under its own name or as the
\* backup, whatever fails and however often an activation is tried, until its
\* backup is deleted or a second activation completes a second generation.
InUseKept ==
  \A n \in Staged \ dropped :
    inUse[n] # Missing => inUse[n] \in {final[n], backup[n]}

\* One failing storage call never takes the kernel that boots: an activation
\* that cannot finish puts it back.  (A power cut between two calls can.)
OneFailureTolerated ==
  step = "idle" /\ faults <= 1 => final[booted] # Missing
=============================================================================
