--------------------------- MODULE NetFiles_proofs ---------------------------
(* What the maintenance requests and the SYX files of NetFiles keep, for    *)
(* any names, any number of upload pages, failing calls and power cuts.     *)
EXTENDS NetFiles, TLAPS

Held == held # None => file \in {"write", "failed"} /\ temp[held] # Missing

(* An open upload: its flags say card or SYX file only when it is one, and  *)
(* a stage file leaves its handle only by being activated.                  *)
Session ==
  file \in {"write", "failed"} =>
    /\ target \in Remote
    /\ syxT \/ cardT => KindOf[target] \in {"syx", "card"}
    /\ target \in Staged =>
         held = target \/ (held = None /\ target \in activated)

(* A SYX file, and the temp file of one, is in a folder that exists.        *)
Housed == \A n \in PN : final[n] # Missing \/ temp[n] # Missing => n[1] \in dirs

(* A copy in progress goes to a folder that exists.                         *)
Copying == /\ undo => ~Quiet
           /\ ~Quiet => copy[2][1] \in dirs

(* What an activation in progress has found and done so far.                *)
Active ==
  /\ step \notin {"idle", "off"} => item \in Staged
  /\ step \in {"remove", "save"} => final[item] # Missing
  /\ step \in {"remove", "save", "promote"} => temp[item] # Missing
  /\ step \in {"promote", "rollback"} =>
       final[item] = Missing /\ backup[item] # Missing
  /\ step \in {"save", "promote", "rollback"} =>
       item \in dropped \/ item \notin activated \/ inUse[item] = Missing

(* Where the file this boot loaded is: the backup of what was activated     *)
(* since, or else its own name, from which only an activation that could    *)
(* not be undone keeps it away.                                             *)
Generations ==
  \A n \in Staged \ dropped : inUse[n] # Missing =>
    IF n \in activated THEN backup[n] = inUse[n]
    ELSE final[n] = inUse[n] \/ (final[n] = Missing /\ backup[n] = inUse[n])

(* The kernel that boots is there, unless two calls failed or an activation *)
(* has moved it away just now.                                              *)
Boots ==
  /\ step # "off" /\ faults <= 1 /\ final[booted] = Missing =>
       step \in {"promote", "rollback"} /\ item = booted
  /\ step = "rollback" => faults >= 1

Inv ==
  /\ TypeOK /\ Held /\ Session /\ Housed /\ Copying
  /\ Active /\ Generations /\ Boots

----------------------------------------------------------------------------
(* Names and files.                                                         *)

LEMMA Names ==
  /\ Staged \subseteq Name /\ PN \subseteq Name /\ None \notin Name
  /\ Kernels \subseteq Staged /\ Ini \in Staged
  /\ \A n \in Staged : KindOf[n] \in {"kernel", "ini"}
  /\ \A n \in PN : KindOf[n] \notin {"kernel", "ini"}
  /\ \A n \in Staged : n \notin PN
<1>1. \A n \in Staged : KindOf[n] \in {"kernel", "ini"}
  BY StagingAssumption DEF Staged, Kernels
<1>2. \A n \in PN : KindOf[n] \notin {"kernel", "ini"}
  BY PNAssumption
<1>. QED BY <1>1, <1>2, StagingAssumption, PNAssumption, TFTPAssumption
         DEF Staged, Kernels

LEMMA Files ==
  /\ Missing \notin File /\ Missing \in Content /\ File \subseteq Content
  /\ \A c \in Content : c # Missing => c \in File
  /\ \A c \in File : c.size \in Blocks /\ c.img \in Img
  /\ \A s \in Blocks, i \in Img : [size |-> s, img |-> i] \in File
  /\ \A c \in File, s \in Blocks : [c EXCEPT !.size = s] \in File
  /\ \A c \in File : [c EXCEPT !.img = Garbled] \in File
  /\ Sent \in Img /\ 0 \in Blocks /\ Tab \subseteq Img
  BY TFTPAssumption, PNAssumption DEF File, Content, Blocks

LEMMA Faults ==
  ASSUME TypeOK, Fine \/ Fault
  PROVE  faults' \in 0..MaxFaults /\ faults' >= faults
                                 /\ (Fault => faults' = faults + 1)
  BY TFTPAssumption DEF TypeOK, TFTPTypeOK, Fine, Fault

----------------------------------------------------------------------------
(* What requests that are no activation do to the maintained files: nothing, *)
(* but for a write through a handle that an activation took the file from.  *)
LeftAlone ==
  \A n \in Staged : \/ final'[n] = final[n]
                    \/ n \in activated /\ final[n] # Missing /\ final'[n] # Missing

Outcome ==
  /\ TFTPTypeOK' /\ Held' /\ Session' /\ Housed'
  /\ LeftAlone /\ faults' >= faults

(* The steps of the daemon.                                                 *)

LEMMA ServedNames ==
  ASSUME Inv, NEW n \in Served
  PROVE  n \in Remote /\ n \in Name /\ (n \in PN => n[1] \in dirs)
<1>1. CASE area = PN
  BY <1>1 DEF Served, Remote
<1>2. CASE area # PN
  <2>1. n \in {Managed, Ini} /\ Managed \in Kernels
    BY <1>2 DEF Served, Managed, Kernels
  <2>. QED BY <2>1, Names DEF Remote
<1>. QED BY <1>1, <1>2

LEMMA OpenKeeps ==
  ASSUME Inv, UNCHANGED <<dirs, activated>>, NEW n \in Served, FileOpen(n)
  PROVE  Outcome
<1>1. UNCHANGED <<final, temp, held, uploads>> /\ file = "none" /\ held = None
  BY DEF Inv, Held, FileOpen, FileOpenFails, FileOpens, disk
<1>2. /\ file' \in {"none", "read"} /\ target' \in Name \cup {None}
      /\ kernelT' \in BOOLEAN /\ syxT' \in BOOLEAN /\ cardT' \in BOOLEAN
      /\ bytes' = 0 /\ (Fine \/ Fault)
  BY DEF Inv, TypeOK, TFTPTypeOK, FileOpen, FileOpenFails, FileOpens, OpenFlags
<1>3. TFTPTypeOK'
  BY <1>1, <1>2, Faults, Files DEF Inv, TypeOK, TFTPTypeOK
<1>4. Held' /\ Session'
  BY <1>1, <1>2 DEF Held, Session
<1>5. Housed' /\ LeftAlone
  BY <1>1 DEF Inv, Housed, LeftAlone
<1>. QED BY <1>2, <1>3, <1>4, <1>5, Faults DEF Outcome, Inv

LEMMA CreateKeeps ==
  ASSUME Inv, UNCHANGED <<dirs, activated>>, NEW n \in Served, FileCreate(n)
  PROVE  Outcome
<1>1. n \in Remote /\ n \in Name /\ (n \in PN => n[1] \in dirs)
  BY ServedNames
<1>2. /\ final' = final /\ uploads' \in 0..MaxUploads /\ bytes' = 0
      /\ Fine \/ Fault
      /\ kernelT' \in BOOLEAN /\ syxT' \in BOOLEAN /\ cardT' \in BOOLEAN
  <2>1. uploads' \in 0..MaxUploads
    BY TFTPAssumption DEF Inv, TypeOK, TFTPTypeOK, FileCreate
  <2>2. CASE Refuse(n)
    BY <2>1, <2>2 DEF Refuse, Reset, disk
  <2>3. CASE CreateTemp(n)
    BY <2>1, <2>3 DEF CreateTemp
  <2>4. CASE CreateStage(n)
    BY <2>1, <2>4 DEF CreateStage
  <2>. QED BY <2>2, <2>3, <2>4 DEF FileCreate
<1>3. \/ /\ temp' = [temp EXCEPT ![n] = [size |-> 0, img |-> Sent]]
         /\ file' = "write" /\ target' = n /\ held' = n
         /\ syxT' \/ cardT' => KindOf[n] \in {"syx", "card"}
      \/ /\ temp' = temp \/ temp' = [temp EXCEPT ![n] = Missing]
         /\ file' = "none" /\ target' = None /\ held' = None
  BY DEF FileCreate, Refuse, CreateTemp, CreateStage, Reset, disk
<1>4. temp \in [Name -> Content]
  BY DEF Inv, TypeOK, TFTPTypeOK
<1>5. /\ temp' \in [Name -> Content]
      /\ \A m \in Name : m # n => temp'[m] = temp[m]
      /\ file' = "write" => temp'[n] # Missing
  BY <1>1, <1>3, <1>4, Files
<1>6. TFTPTypeOK'
  BY <1>1, <1>2, <1>3, <1>5, Faults, Files DEF Inv, TypeOK, TFTPTypeOK
<1>7. Held' /\ Session'
  BY <1>1, <1>3, <1>5 DEF Held, Session
<1>8. Housed'
  BY <1>1, <1>2, <1>5, Names DEF Inv, Housed
<1>. QED BY <1>2, <1>6, <1>7, <1>8, Faults DEF Outcome, LeftAlone, Inv

LEMMA WriteKeeps ==
  ASSUME Inv, UNCHANGED <<dirs, activated>>, FileWrite
  PROVE  Outcome
<1>1. /\ final \in [Name -> Content] /\ temp \in [Name -> Content]
      /\ target \in Name /\ bytes \in Blocks /\ bytes' \in Blocks
      /\ file = "write" /\ file' \in {"write", "failed"}
      /\ Fine \/ Fault
      /\ UNCHANGED <<target, kernelT, syxT, cardT, held, uploads>>
  <2>1. /\ final \in [Name -> Content] /\ temp \in [Name -> Content]
        /\ bytes \in Blocks
    BY DEF Inv, TypeOK, TFTPTypeOK
  <2>2. file = "write" /\ target \in Remote
    BY DEF Inv, Session, FileWrite, WriteBlock, WriteShort
  <2>3. bytes' \in Blocks
    BY <2>1, TFTPAssumption DEF FileWrite, WriteBlock, WriteShort, Blocks
  <2>4. /\ file' \in {"write", "failed"} /\ (Fine \/ Fault)
        /\ UNCHANGED <<target, kernelT, syxT, cardT, held, uploads>>
    BY DEF FileWrite, WriteBlock, WriteShort, flags, Fine
  <2>. QED BY <2>1, <2>2, <2>3, <2>4 DEF Remote
<1>2. \/ UNCHANGED <<final, temp>>
      \/ /\ held = None /\ final[target] # Missing /\ temp' = temp
         /\ final' = [final EXCEPT ![target].img = Garbled]
      \/ /\ held = None /\ temp[target] # Missing /\ final' = final
         /\ temp' = [temp EXCEPT ![target].img = Garbled]
      \/ /\ held # None /\ final' = final
         /\ temp' = [temp EXCEPT ![held].size = bytes + 1]
         /\ bytes + 1 \in Blocks
  BY <1>1 DEF FileWrite, WriteBlock, WriteShort, disk, Lost
<1>3. /\ final' \in [Name -> Content] /\ temp' \in [Name -> Content]
      /\ \A n \in Name : /\ final'[n] = Missing <=> final[n] = Missing
                         /\ temp'[n] = Missing <=> temp[n] = Missing
      /\ \A n \in Name : final'[n] # final[n] => held = None /\ n = target
  <2>1. CASE UNCHANGED <<final, temp>>
    BY <1>1, <2>1
  <2>2. CASE /\ held = None /\ final[target] # Missing /\ temp' = temp
             /\ final' = [final EXCEPT ![target].img = Garbled]
    <3>1. [final[target] EXCEPT !.img = Garbled] \in File
      BY <1>1, <2>2, Files
    <3>. QED BY <1>1, <2>2, <3>1, Files
  <2>3. CASE /\ held = None /\ temp[target] # Missing /\ final' = final
             /\ temp' = [temp EXCEPT ![target].img = Garbled]
    <3>1. [temp[target] EXCEPT !.img = Garbled] \in File
      BY <1>1, <2>3, Files
    <3>. QED BY <1>1, <2>3, <3>1, Files
  <2>4. CASE /\ held # None /\ final' = final
             /\ temp' = [temp EXCEPT ![held].size = bytes + 1]
             /\ bytes + 1 \in Blocks
    <3>1. held \in Name /\ temp[held] # Missing
      BY <2>4 DEF Inv, TypeOK, TFTPTypeOK, Held
    <3>2. [temp[held] EXCEPT !.size = bytes + 1] \in File
      BY <1>1, <2>4, <3>1, Files
    <3>. QED BY <1>1, <2>4, <3>1, <3>2, Files
  <2>. QED BY <1>2, <2>1, <2>2, <2>3, <2>4
<1>4. TFTPTypeOK'
  BY <1>1, <1>3, Faults DEF Inv, TypeOK, TFTPTypeOK
<1>5. held \in Name \cup {None}
  BY DEF Inv, TypeOK, TFTPTypeOK
<1>6. Held' /\ Session'
  BY <1>1, <1>3, <1>5 DEF Inv, Held, Session
<1>7. Housed'
  BY <1>3, Names DEF Inv, Housed
<1>8. LeftAlone
  <2> SUFFICES ASSUME NEW n \in Staged, final'[n] # final[n]
               PROVE  n \in activated /\ final[n] # Missing /\ final'[n] # Missing
    BY DEF LeftAlone
  <2>1. n = target /\ held = None /\ (final'[n] = Missing <=> final[n] = Missing)
    BY <1>3, Names
  <2>2. n \in activated
    BY <1>1, <2>1, Names DEF Inv, Session
  <2>. QED BY <1>2, <2>1, <2>2
<1>. QED BY <1>1, <1>4, <1>6, <1>7, <1>8, Faults DEF Outcome, Inv

LEMMA CloseKeeps ==
  ASSUME Inv, UNCHANGED <<dirs, activated>>, FileClose
  PROVE  Outcome
<1>1. /\ final \in [Name -> Content] /\ temp \in [Name -> Content]
      /\ Reset /\ uploads' = uploads /\ (Fine \/ Fault)
  <2>1. final \in [Name -> Content] /\ temp \in [Name -> Content]
    BY DEF Inv, TypeOK, TFTPTypeOK
  <2>2. CASE CloseRead
    BY <2>1, <2>2 DEF FileClose, CloseRead, Fine
  <2>3. CASE CloseError
    BY <2>1, <2>3 DEF FileClose, CloseError
  <2>4. CASE Publish
    BY <2>1, <2>4 DEF FileClose, Publish, Remove
  <2>5. CASE CloseStage
    BY <2>1, <2>5 DEF FileClose, CloseStage, Remove, Fine
  <2>. QED BY <2>2, <2>3, <2>4, <2>5 DEF FileClose
<1>2. \/ UNCHANGED <<final, temp>>
      \/ /\ target \in Name /\ final' = final
         /\ temp' = [temp EXCEPT ![target] = Missing]
      \/ /\ target \in Name /\ target \notin Staged
         /\ temp[target] # Missing /\ final[target] = Missing
         /\ final' = [final EXCEPT ![target] = temp[target]]
         /\ temp' = [temp EXCEPT ![target] = Missing]
  <2>1. CASE CloseRead
    BY <2>1 DEF CloseRead, disk
  <2>2. CASE CloseError
    BY <2>2 DEF CloseError, Inv, Session, Remote
  <2>3. CASE Publish
    <3>1. target \in Name /\ target \notin Staged
      BY <2>3, Names DEF Publish, Inv, Session, Remote
    <3>. QED BY <2>3, <3>1 DEF Publish, Remove
  <2>4. CASE CloseStage
    <3>1. target \in Name
      BY <2>4 DEF CloseStage, Inv, Session, Remote
    <3>. QED BY <2>4, <3>1 DEF CloseStage, Remove
  <2>. QED BY <2>1, <2>2, <2>3, <2>4 DEF FileClose
<1>3. /\ final' \in [Name -> Content] /\ temp' \in [Name -> Content]
      /\ \A n \in Staged : final'[n] = final[n]
      /\ \A n \in Name : final'[n] # Missing \/ temp'[n] # Missing =>
                           final[n] # Missing \/ temp[n] # Missing
  BY <1>1, <1>2, Files, Names
<1>4. TFTPTypeOK'
  <2>1. faults' \in 0..MaxFaults /\ uploads' \in 0..MaxUploads
    BY <1>1, Faults DEF Inv, TypeOK, TFTPTypeOK
  <2>. QED BY <1>1, <1>3, <2>1, Files DEF TFTPTypeOK, Reset
<1>5. Held' /\ Session'
  BY <1>1 DEF Reset, Held, Session
<1>6. Housed'
  BY <1>3, Names DEF Inv, Housed
<1>. QED BY <1>1, <1>3, <1>4, <1>5, <1>6, Faults DEF Outcome, LeftAlone, Inv

LEMMA TFTPKeeps ==
  ASSUME Inv, TFTPRequest
  PROVE  /\ Outcome /\ step = "idle" /\ TypeOK' /\ Copying'
         /\ UNCHANGED staging
<1>1. /\ step = "idle" /\ UNCHANGED <<staging, dirs, at, next, copy, undo, area>>
      /\ excused' \in BOOLEAN
  BY DEF TFTPRequest, Inv, TypeOK, PNTypeOK
<1>2. UNCHANGED <<dirs, activated>>
  BY <1>1 DEF staging
<1>3. Outcome
  BY <1>2, OpenKeeps, CreateKeeps, WriteKeeps, CloseKeeps DEF TFTPRequest
<1>4. TypeOK' /\ Copying'
  BY <1>1, <1>3
     DEF Inv, TypeOK, StagingTypeOK, PNTypeOK, Copying, Quiet, staging, Outcome
<1>. QED BY <1>1, <1>3, <1>4

----------------------------------------------------------------------------
(* The requests about SYX files.                                            *)

SYXOutcome ==
  /\ TFTPTypeOK' /\ PNTypeOK' /\ Held' /\ Housed' /\ Copying'
  /\ \A n \in Staged : final'[n] = final[n]
  /\ UNCHANGED <<file, target, flags>>
  /\ held \in Staged => held' = held
  /\ held = None => held' = None
  /\ faults' >= faults

(* A request that changes one temp file, which an open upload loses.        *)
LEMMA OneTemp ==
  ASSUME Inv, NEW n \in PN, NEW c \in Content,
         temp' = [temp EXCEPT ![n] = c], Snatch(n), file' = file
  PROVE  /\ temp' \in [Name -> Content] /\ held' \in Name \cup {None}
         /\ Held'
         /\ \A m \in Name : m # n => temp'[m] = temp[m]
         /\ held \in Staged => held' = held
         /\ held = None => held' = None
  BY Names DEF Inv, TypeOK, TFTPTypeOK, Held, Snatch

LEMMA BeginKeeps ==
  ASSUME Inv, NEW t \in Tab, NEW n \in PN, Begin(t, n)
  PROVE  SYXOutcome
<1>1. PICK c \in Content : temp' = [temp EXCEPT ![n] = c]
  <2>1. temp \in [Name -> Content] /\ n \in Name
    BY Names DEF Inv, TypeOK, TFTPTypeOK
  <2>2. temp = [temp EXCEPT ![n] = temp[n]] /\ temp[n] \in Content
    BY <2>1
  <2>3. [size |-> 0, img |-> t] \in Content /\ Missing \in Content
    BY Files
  <2>. QED BY <2>2, <2>3 DEF Begin
<1>2. /\ UNCHANGED <<final, file, target, kernelT, syxT, cardT, bytes>>
      /\ UNCHANGED <<dirs, copy, undo, excused>>
      /\ Fine \/ Fault
      /\ n[1] \in dirs /\ uploads' = uploads + 1 /\ uploads < MaxUploads
  BY DEF Begin, session, flags, Free
<1>3. /\ temp' \in [Name -> Content] /\ held' \in Name \cup {None} /\ Held'
      /\ \A m \in Name : m # n => temp'[m] = temp[m]
      /\ held \in Staged => held' = held
      /\ held = None => held' = None
  BY <1>1, <1>2, OneTemp DEF Begin
<1>4. TFTPTypeOK'
  BY <1>2, <1>3, Faults, TFTPAssumption DEF Inv, TypeOK, TFTPTypeOK
<1>5. PNTypeOK'
  BY <1>2 DEF Inv, TypeOK, PNTypeOK, Begin
<1>6. Housed' /\ Copying'
  BY <1>2, <1>3, Names DEF Inv, Housed, Copying, Quiet
<1>. QED BY <1>2, <1>3, <1>4, <1>5, <1>6, Faults DEF SYXOutcome, flags, Inv

LEMMA ChunkKeeps ==
  ASSUME Inv, NEW t \in Tab, Chunk(t)
  PROVE  SYXOutcome
<1> DEFINE n == at[t]
           c == Put(temp[n], t, next[t])
<1>1. /\ UNCHANGED <<final, file, target, kernelT, syxT, cardT, bytes, uploads>>
      /\ UNCHANGED <<dirs, copy, undo>>
      /\ n \in PN /\ next[t] \in 0..Parts /\ next[t] < Parts
  BY DEF Chunk, session, flags, Inv, TypeOK, PNTypeOK
<1>2. PNTypeOK' /\ (Fine \/ Fault)
  <2>1. /\ at \in [Tab -> PN \cup {None}] /\ next \in [Tab -> 0..Parts]
        /\ excused \in BOOLEAN /\ Parts \in Nat
    BY PNAssumption, TFTPAssumption DEF Inv, TypeOK, PNTypeOK
  <2>2. (Stop(t) \/ Proceed(t)) /\ excused' \in BOOLEAN /\ (Fine \/ Fault)
    BY <2>1 DEF Chunk
  <2>3. /\ at' \in [Tab -> PN \cup {None}] /\ next' \in [Tab -> 0..Parts]
    BY <1>1, <2>1, <2>2 DEF Stop, Proceed
  <2>. QED BY <1>1, <2>2, <2>3 DEF Inv, TypeOK, PNTypeOK
<1>3. CASE n[1] \notin dirs \/ temp[n] = Missing
  <2>1. UNCHANGED <<temp, held>>
    BY <1>3 DEF Chunk
  <2>2. TFTPTypeOK' /\ Held'
    BY <1>1, <1>2, <2>1, Faults DEF Inv, TypeOK, TFTPTypeOK, Held
  <2>3. Housed' /\ Copying'
    BY <1>1, <2>1 DEF Inv, Housed, Copying, Quiet
  <2>. QED BY <1>1, <1>2, <2>1, <2>2, <2>3, Faults DEF SYXOutcome, flags, Inv
<1>4. CASE n[1] \in dirs /\ temp[n] # Missing
  <2>1. temp \in [Name -> Content] /\ n \in Name
    BY <1>1, Names DEF Inv, TypeOK, TFTPTypeOK
  <2>2. temp[n] \in File /\ c \in File
    <3>1. temp[n] \in File
      BY <1>4, <2>1, Files
    <3>2. /\ temp[n].size \in Blocks /\ next[t] + 1 \in Blocks
          /\ t \in Img /\ Garbled \in Img
      BY <1>1, <3>1, Files, PNAssumption, TFTPAssumption DEF Blocks
    <3>. QED BY <3>1, <3>2, Files DEF Put
  <2>3. PICK d \in Content : temp' = [temp EXCEPT ![n] = d]
    <3>1. temp = [temp EXCEPT ![n] = temp[n]]
      BY <2>1
    <3>. QED BY <1>4, <2>2, <3>1, Files DEF Chunk
  <2>4. Snatch(n)
    BY <1>4 DEF Chunk
  <2>5. /\ temp' \in [Name -> Content] /\ held' \in Name \cup {None} /\ Held'
        /\ \A m \in Name : m # n => temp'[m] = temp[m]
        /\ held \in Staged => held' = held
        /\ held = None => held' = None
    BY <1>1, <2>3, <2>4, OneTemp
  <2>6. TFTPTypeOK'
    BY <1>1, <1>2, <2>5, Faults DEF Inv, TypeOK, TFTPTypeOK
  <2>7. Housed' /\ Copying'
    BY <1>1, <1>4, <2>5, Names DEF Inv, Housed, Copying, Quiet
  <2>. QED BY <1>1, <1>2, <2>5, <2>6, <2>7, Faults DEF SYXOutcome, flags, Inv
<1>. QED BY <1>3, <1>4

LEMMA FinishKeeps ==
  ASSUME Inv, NEW t \in Tab, Finish(t)
  PROVE  SYXOutcome
<1> DEFINE n == at[t]
<1>1. /\ UNCHANGED <<file, target, kernelT, syxT, cardT, bytes, uploads>>
      /\ UNCHANGED <<dirs, copy, undo, excused>>
      /\ n \in PN /\ n \in Name /\ Stop(t) /\ (Fine \/ Fault)
      /\ final \in [Name -> Content] /\ temp \in [Name -> Content]
  BY Names
     DEF Finish, session, flags, Inv, TypeOK, PNTypeOK, TFTPTypeOK, Fine
<1>2. PNTypeOK'
  <2>1. 0 \in 0..Parts
    BY PNAssumption, TFTPAssumption
  <2>. QED BY <1>1, <2>1 DEF Stop, Inv, TypeOK, PNTypeOK
<1>3. CASE UNCHANGED <<disk, held>>
  <2>1. UNCHANGED <<final, temp, held>>
    BY <1>3 DEF disk
  <2>2. TFTPTypeOK' /\ Held'
    BY <1>1, <2>1, Faults DEF Inv, TypeOK, TFTPTypeOK, Held
  <2>3. Housed' /\ Copying'
    BY <1>1, <2>1 DEF Inv, Housed, Copying, Quiet
  <2>. QED BY <1>1, <1>2, <2>1, <2>2, <2>3, Faults DEF SYXOutcome, flags, Inv
<1>4. CASE /\ temp' = [temp EXCEPT ![n] = Missing] /\ Snatch(n)
           /\ n[1] \in dirs /\ temp[n] # Missing
           /\ \/ final' = final
              \/ final' = [final EXCEPT ![n] = [temp[n] EXCEPT !.size = Parts]]
  <2>1. /\ temp' \in [Name -> Content] /\ held' \in Name \cup {None} /\ Held'
        /\ \A m \in Name : m # n => temp'[m] = temp[m]
        /\ held \in Staged => held' = held
        /\ held = None => held' = None
    BY <1>1, <1>4, OneTemp, Files
  <2>2. [temp[n] EXCEPT !.size = Parts] \in Content
    <3>1. temp[n] \in File /\ Parts \in Blocks
      BY <1>1, <1>4, Files, PNAssumption, TFTPAssumption DEF Blocks
    <3>. QED BY <3>1, Files
  <2>3. /\ final' \in [Name -> Content]
        /\ \A m \in Name : m # n => final'[m] = final[m]
    BY <1>1, <1>4, <2>2
  <2>4. TFTPTypeOK'
    BY <1>1, <2>1, <2>3, Faults DEF Inv, TypeOK, TFTPTypeOK
  <2>5. Housed' /\ Copying'
    BY <1>1, <1>4, <2>1, <2>3, Names DEF Inv, Housed, Copying, Quiet
  <2>6. \A m \in Staged : final'[m] = final[m]
    BY <1>1, <2>3, Names
  <2>. QED BY <1>1, <1>2, <2>1, <2>4, <2>5, <2>6, Faults
       DEF SYXOutcome, flags, Inv
<1>. QED BY <1>3, <1>4 DEF Finish, disk

(* Requests that change no temp file.                                       *)
LEMMA FinalOnly ==
  ASSUME Inv, UNCHANGED <<temp, session, held, dirs>>, Fine \/ Fault,
         uploads' \in 0..MaxUploads, PNTypeOK', Copying',
         final' \in [Name -> Content],
         \A n \in Staged : final'[n] = final[n],
         \A n \in PN : final'[n] # Missing => n[1] \in dirs
  PROVE  SYXOutcome
<1>1. UNCHANGED <<file, target, kernelT, syxT, cardT, bytes>>
  BY DEF session, flags
<1>2. TFTPTypeOK' /\ Held'
  BY <1>1, Faults DEF Inv, TypeOK, TFTPTypeOK, Held
<1>3. Housed'
  BY <1>1 DEF Inv, Housed
<1>. QED BY <1>1, <1>2, <1>3, Faults DEF SYXOutcome, flags, Inv

LEMMA LeaveKeeps ==
  ASSUME Inv, NEW t \in Tab, Leave(t)
  PROVE  SYXOutcome
<1>1. /\ UNCHANGED <<final, temp, session, held, dirs, uploads, faults>>
      /\ UNCHANGED <<copy, undo, excused>> /\ Stop(t)
  BY DEF Leave, disk, tftp, session
<1>2. 0 \in 0..Parts
  BY PNAssumption, TFTPAssumption
<1>3. PNTypeOK' /\ Copying'
  BY <1>1, <1>2 DEF Stop, Inv, TypeOK, PNTypeOK, Copying, Quiet
<1>. QED BY <1>1, <1>3, FinalOnly DEF Inv, TypeOK, TFTPTypeOK, Housed, Fine

LEMMA CopyExecKeeps ==
  ASSUME Inv, NEW s \in PN, NEW d \in PN, CopyExec(s, d)
  PROVE  SYXOutcome
<1>1. /\ UNCHANGED <<temp, session, held, dirs, at, next, undo, excused>>
      /\ uploads < MaxUploads /\ uploads' = uploads + 1 /\ (Fine \/ Fault)
      /\ d[1] \in dirs /\ final[s] # Missing /\ d \in Name /\ s \in Name
      /\ final \in [Name -> Content] /\ uploads \in 0..MaxUploads
  BY Names DEF CopyExec, Exists, Free, Inv, TypeOK, TFTPTypeOK
<1>2. uploads' \in 0..MaxUploads
  BY <1>1, TFTPAssumption
<1>3. [final[s] EXCEPT !.size = 0] \in Content
  <2>1. final[s] \in File
    BY <1>1, Files
  <2>. QED BY <2>1, Files
<1>4. \/ UNCHANGED <<final, copy>>
      \/ /\ final' = [final EXCEPT ![d] = [final[s] EXCEPT !.size = 0]]
         /\ copy' = <<s, d>>
  BY DEF CopyExec
<1>5. PNTypeOK' /\ Copying'
  BY <1>1, <1>4 DEF Inv, TypeOK, PNTypeOK, Copying, Quiet
<1>6. /\ final' \in [Name -> Content]
      /\ \A n \in Name : n # d => final'[n] = final[n]
  BY <1>1, <1>3, <1>4
<1>7. \A n \in Staged : final'[n] = final[n]
  BY <1>6, Names
<1>8. \A n \in PN : final'[n] # Missing => n[1] \in dirs
  BY <1>1, <1>6, Names DEF Inv, Housed
<1>. QED BY <1>1, <1>2, <1>5, <1>6, <1>7, <1>8, FinalOnly

LEMMA CopyStepKeeps ==
  ASSUME Inv, CopyContents \/ CopyUndo
  PROVE  SYXOutcome
<1>1. /\ copy \in PN \X PN /\ copy[1] \in PN /\ copy[2] \in PN
      /\ copy[2][1] \in dirs
  <2>1. copy # <<>>
    BY DEF CopyContents, CopyUndo, Quiet, Inv, Copying
  <2>. QED BY <2>1 DEF Inv, TypeOK, PNTypeOK, Copying, Quiet
<1>2. /\ UNCHANGED <<temp, session, held, dirs, uploads, at, next>>
      /\ Fine \/ Fault
      /\ final \in [Name -> Content] /\ uploads \in 0..MaxUploads
  BY DEF CopyContents, CopyUndo, tftp, session, Inv, TypeOK, TFTPTypeOK
<1>3. \/ final' = final
      \/ final' = [final EXCEPT ![copy[2]] = final[copy[1]]]
      \/ final' = [final EXCEPT ![copy[2]] = Missing]
  BY DEF CopyContents, CopyUndo
<1>4. PNTypeOK' /\ Copying'
  BY <1>1, <1>2
     DEF CopyContents, CopyUndo, Inv, TypeOK, PNTypeOK, Copying, Quiet
<1>5. /\ final' \in [Name -> Content]
      /\ \A n \in Name : n # copy[2] => final'[n] = final[n]
  BY <1>1, <1>2, <1>3, Names, Files
<1>6. \A n \in Staged : final'[n] = final[n]
  BY <1>1, <1>5, Names
<1>7. \A n \in PN : final'[n] # Missing => n[1] \in dirs
  BY <1>1, <1>2, <1>3, Names DEF Inv, Housed
<1>. QED BY <1>2, <1>4, <1>5, <1>6, <1>7, FinalOnly

LEMMA MoveKeeps ==
  ASSUME Inv, NEW s \in PN, NEW d \in PN, MoveExec(s, d) \/ RenameExec(s, d)
  PROVE  SYXOutcome
<1>1. /\ UNCHANGED <<temp, session, held, uploads>>
      /\ UNCHANGED <<dirs, at, next, copy, undo, excused>>
      /\ Fine \/ Fault
      /\ d[1] \in dirs /\ s \in Name /\ d \in Name
      /\ final \in [Name -> Content] /\ uploads \in 0..MaxUploads
      /\ \/ final' = final
         \/ final' = [final EXCEPT ![d] = final[s], ![s] = Missing]
  BY Names DEF MoveExec, RenameExec, MoveFile, Free, tftp, session, pn, Inv,
               TypeOK, TFTPTypeOK
<1>2. PNTypeOK' /\ Copying'
  BY <1>1 DEF Inv, TypeOK, PNTypeOK, Copying, Quiet
<1>3. /\ final' \in [Name -> Content]
      /\ \A n \in Name : n \notin {s, d} => final'[n] = final[n]
      /\ final'[s] # Missing => final[s] # Missing \/ s = d
  BY <1>1, Files
<1>4. \A n \in Staged : final'[n] = final[n]
  BY <1>3, Names
<1>5. \A n \in PN : final'[n] # Missing => n[1] \in dirs
  BY <1>1, <1>3, Names DEF Inv, Housed
<1>. QED BY <1>1, <1>2, <1>3, <1>4, <1>5, FinalOnly

LEMMA DeleteKeeps ==
  ASSUME Inv, NEW n \in PN, DeleteExec(n)
  PROVE  SYXOutcome
<1>1. /\ UNCHANGED <<temp, session, held, uploads>>
      /\ UNCHANGED <<dirs, at, next, copy, undo, excused>>
      /\ Fine \/ Fault
      /\ final \in [Name -> Content] /\ uploads \in 0..MaxUploads
      /\ final' = final \/ final' = [final EXCEPT ![n] = Missing]
  BY DEF DeleteExec, tftp, session, pn, Inv, TypeOK, TFTPTypeOK
<1>2. PNTypeOK' /\ Copying'
  BY <1>1 DEF Inv, TypeOK, PNTypeOK, Copying, Quiet
<1>3. /\ final' \in [Name -> Content]
      /\ \A m \in Name : m # n => final'[m] = final[m]
      /\ final'[n] # Missing => final[n] # Missing
  BY <1>1, Files, Names
<1>4. \A m \in Staged : final'[m] = final[m]
  BY <1>3, Names
<1>5. \A m \in PN : final'[m] # Missing => m[1] \in dirs
  BY <1>1, <1>3, Names DEF Inv, Housed
<1>. QED BY <1>1, <1>2, <1>3, <1>4, <1>5, FinalOnly

LEMMA DirKeeps ==
  ASSUME Inv, NEW f \in Folder, DirCreateExec(f) \/ DirDeleteExec(f)
  PROVE  SYXOutcome
<1>1. /\ UNCHANGED <<final, temp, file, target, kernelT, syxT, cardT, bytes>>
      /\ UNCHANGED <<held, uploads, at, next, copy, undo, excused>>
      /\ Fine \/ Fault
      /\ dirs' \in {dirs, dirs \cup {f}, dirs \ {f}}
      /\ Quiet
  BY DEF DirCreateExec, DirDeleteExec, disk, tftp, flags
<1>2. \A n \in PN : final[n] # Missing \/ temp[n] # Missing => n[1] \in dirs'
  <2>1. CASE DirCreateExec(f)
    BY <2>1 DEF DirCreateExec, Inv, Housed
  <2>2. CASE DirDeleteExec(f)
    BY <2>2 DEF DirDeleteExec, Inv, Housed
  <2>. QED BY <2>1, <2>2
<1>3. PNTypeOK' /\ Copying'
  BY <1>1 DEF Inv, TypeOK, PNTypeOK, Copying, Quiet
<1>4. TFTPTypeOK' /\ Held' /\ Housed'
  BY <1>1, <1>2, Faults DEF Inv, TypeOK, TFTPTypeOK, Held, Housed
<1>. QED BY <1>1, <1>3, <1>4, Faults DEF SYXOutcome, flags, Inv

(* A folder takes its files and the open upload along.                      *)
LEMMA CarriedFiles ==
  ASSUME NEW files \in [Name -> Content], NEW f \in Folder, NEW g \in Folder,
         f # g, NEW c, c = Carried(files, f, g)
  PROVE  /\ c \in [Name -> Content]
         /\ \A n \in Name : n \notin PN => c[n] = files[n]
         /\ \A n \in PN : n[1] = f => c[n] = Missing
         /\ \A n \in PN : n[1] = g => c[n] = files[<<f, n[2]>>]
         /\ \A n \in PN : n[1] \notin {f, g} => c[n] = files[n]
<1>1. \A n \in PN : n \in Name /\ n[2] \in Child /\ <<f, n[2]>> \in Name
  BY Names DEF PN
<1>. QED BY <1>1, Files DEF Carried

LEMMA DirRenameKeeps ==
  ASSUME Inv, NEW f \in Folder, NEW g \in Folder, DirRenameExec(f, g)
  PROVE  SYXOutcome
<1>1. /\ UNCHANGED <<file, target, kernelT, syxT, cardT, bytes>>
      /\ UNCHANGED <<uploads, at, next, copy, undo, excused>>
      /\ Fine \/ Fault
      /\ f \in dirs /\ g \notin dirs /\ f # g /\ Quiet
      /\ final \in [Name -> Content] /\ temp \in [Name -> Content]
  BY DEF DirRenameExec, NewFolder, session, flags, Inv, TypeOK, TFTPTypeOK
<1>2. CASE UNCHANGED <<dirs, disk, held>>
  <2>1. UNCHANGED <<dirs, final, temp, held>>
    BY <1>2 DEF disk
  <2>2. PNTypeOK' /\ Copying'
    BY <1>1, <2>1 DEF Inv, TypeOK, PNTypeOK, Copying, Quiet
  <2>3. TFTPTypeOK' /\ Held' /\ Housed'
    BY <1>1, <2>1, Faults DEF Inv, TypeOK, TFTPTypeOK, Held, Housed
  <2>. QED BY <1>1, <2>1, <2>2, <2>3, Faults DEF SYXOutcome, flags, Inv
<1>3. CASE /\ dirs' = (dirs \ {f}) \cup {g}
           /\ final' = Carried(final, f, g) /\ temp' = Carried(temp, f, g)
           /\ held' = IF held \in PN /\ held[1] = f THEN <<g, held[2]>> ELSE held
  <2>1. /\ final' \in [Name -> Content]
        /\ \A n \in Name : n \notin PN => final'[n] = final[n]
        /\ \A n \in PN : n[1] = f => final'[n] = Missing
        /\ \A n \in PN : n[1] \notin {f, g} => final'[n] = final[n]
    BY <1>1, <1>3, CarriedFiles
  <2>2. /\ temp' \in [Name -> Content]
        /\ \A n \in Name : n \notin PN => temp'[n] = temp[n]
        /\ \A n \in PN : n[1] = f => temp'[n] = Missing
        /\ \A n \in PN : n[1] = g => temp'[n] = temp[<<f, n[2]>>]
        /\ \A n \in PN : n[1] \notin {f, g} => temp'[n] = temp[n]
    BY <1>1, <1>3, CarriedFiles
  <2>3. held' \in Name \cup {None} /\ Held'
    <3>1. held \in Name \cup {None}
      BY DEF Inv, TypeOK, TFTPTypeOK
    <3>2. CASE held \in PN /\ held[1] = f
      <4>1. /\ held' \in PN /\ held'[1] = g /\ held'[2] = held[2]
            /\ held = <<f, held[2]>>
        BY <1>3, <3>2 DEF PN
      <4>2. temp'[held'] = temp[held]
        BY <2>2, <4>1
      <4>. QED BY <1>1, <3>2, <4>1, <4>2, Names DEF Inv, Held
    <3>3. CASE ~(held \in PN /\ held[1] = f) /\ held # None
      <4>1. held' = held /\ temp[held] # Missing /\ file \in {"write", "failed"}
        BY <1>3, <3>3 DEF Inv, Held
      <4>2. held \in PN => held[1] # g
        BY <1>1, <4>1 DEF Inv, Housed
      <4>3. temp'[held] = temp[held]
        BY <2>2, <3>1, <3>3, <4>2
      <4>. QED BY <1>1, <3>1, <4>1, <4>3 DEF Held
    <3>4. CASE held = None
      BY <1>3, <3>4, Names DEF Held
    <3>. QED BY <3>2, <3>3, <3>4
  <2>4. Housed'
    <3> SUFFICES ASSUME NEW n \in PN, final'[n] # Missing \/ temp'[n] # Missing
                 PROVE  n[1] \in dirs'
      BY DEF Housed
    <3>1. n[1] # f
      BY <2>1, <2>2
    <3>2. CASE n[1] # g
      BY <1>3, <2>1, <2>2, <3>1, <3>2 DEF Inv, Housed
    <3>. QED BY <1>3, <3>2
  <2>5. PNTypeOK' /\ Copying'
    BY <1>1, <1>3 DEF Inv, TypeOK, PNTypeOK, Copying, Quiet
  <2>6. TFTPTypeOK'
    BY <1>1, <2>1, <2>2, <2>3, Faults DEF Inv, TypeOK, TFTPTypeOK
  <2>7. /\ \A n \in Staged : final'[n] = final[n]
        /\ held \in Staged => held' = held
        /\ held = None => held' = None
    BY <1>3, <2>1, Names
  <2>. QED BY <1>1, <2>3, <2>4, <2>5, <2>6, <2>7, Faults DEF SYXOutcome, flags, Inv
<1>. QED BY <1>2, <1>3 DEF DirRenameExec

LEMMA SYXKeeps ==
  ASSUME Inv, SYXRequest
  PROVE  /\ Outcome /\ step = "idle" /\ TypeOK' /\ Copying'
         /\ UNCHANGED staging
<1>1. step = "idle" /\ UNCHANGED <<staging, area>> /\ PNRequest
  BY DEF SYXRequest
<1>2. SYXOutcome
  BY <1>1, ChunkKeeps, FinishKeeps, LeaveKeeps, BeginKeeps, CopyExecKeeps,
     MoveKeeps, CopyStepKeeps, DeleteKeeps, DirKeeps, DirRenameKeeps
     DEF PNRequest
<1>3. Session'
  <2>1. UNCHANGED <<file, target, kernelT, syxT, cardT, activated>>
    BY <1>1, <1>2 DEF SYXOutcome, flags, staging
  <2>. QED BY <1>2, <2>1 DEF Inv, Session, SYXOutcome
<1>4. TypeOK'
  BY <1>1, <1>2 DEF Inv, TypeOK, StagingTypeOK, staging, SYXOutcome
<1>. QED BY <1>1, <1>2, <1>3, <1>4 DEF Outcome, SYXOutcome, LeftAlone

(* Between activations such requests leave each generation where it is.     *)
LEMMA AtRest ==
  ASSUME Inv, Outcome, step = "idle", UNCHANGED staging
  PROVE  Active' /\ Generations' /\ Boots'
<1>1. /\ step' = "idle"
      /\ UNCHANGED <<backup, booted, item, inUse, activated, dropped>>
  BY DEF staging
<1>2. Active'
  BY <1>1 DEF Active
<1>3. Generations'
  BY <1>1 DEF Inv, Generations, Outcome, LeftAlone
<1>4. Boots'
  <2>1. booted \in Staged /\ faults \in Nat /\ faults' \in Nat
    BY Names, TFTPAssumption
       DEF Inv, TypeOK, TFTPTypeOK, StagingTypeOK, Outcome
  <2>. QED BY <1>1, <2>1 DEF Inv, Boots, Outcome, LeftAlone
<1>. QED BY <1>2, <1>3, <1>4

----------------------------------------------------------------------------
(* An activation, call by call.                                             *)

\* Nothing but a maintenance request: no upload and no SYX file is concerned.
LEMMA Maintenance ==
  ASSUME Inv, MaintenanceRequest
  PROVE  \/ \E n \in Staged : ActivateExec(n) \/ BackupDeleteExec(n)
         \/ RemoveBackup \/ SaveActive \/ PromoteStage \/ RollBack
  BY Names DEF MaintenanceRequest, StagingRequest, Managed, Kernels

LEMMA SameUploads ==
  ASSUME Inv, UNCHANGED <<temp, tftp, pn, area>>, Fine \/ Fault, StagingTypeOK',
         final' \in [Name -> Content],
         \A n \in PN : final'[n] = final[n],
         activated' = activated
  PROVE  TypeOK' /\ Held' /\ Session' /\ Housed' /\ Copying'
<1>1. /\ UNCHANGED <<file, target, kernelT, syxT, cardT, bytes, held, uploads>>
      /\ UNCHANGED <<dirs, at, next, copy, undo, excused>>
  BY DEF tftp, flags, pn
<1>2. TypeOK'
  BY <1>1, Faults DEF Inv, TypeOK, TFTPTypeOK, PNTypeOK
<1>3. Held' /\ Session' /\ Copying'
  BY <1>1 DEF Inv, Held, Session, Copying, Quiet
<1>4. Housed'
  BY <1>1 DEF Inv, Housed
<1>. QED BY <1>2, <1>3, <1>4

LEMMA ActivateKeeps ==
  ASSUME Inv, NEW n \in Staged, ActivateExec(n), UNCHANGED <<pn, area>>
  PROVE  Inv'
<1>1. /\ step = "idle" /\ final[n] # Missing /\ temp[n] # Missing
      /\ step' = IF backup[n] # Missing THEN "remove" ELSE "save"
      /\ item' = n /\ Fine
      /\ UNCHANGED <<final, temp, tftp, backup, second, booted, inUse,
                     activated, dropped>>
  BY DEF ActivateExec, disk, Fine
<1>2. StagingTypeOK'
  BY <1>1 DEF Inv, TypeOK, StagingTypeOK
<1>3. TypeOK' /\ Held' /\ Session' /\ Housed' /\ Copying'
  BY <1>1, <1>2, SameUploads DEF Inv, TypeOK, TFTPTypeOK
<1>4. Active'
  BY <1>1 DEF Inv, Active, Generations
<1>5. Generations' /\ Boots'
  BY <1>1 DEF Inv, Generations, Boots, Fine
<1>. QED BY <1>3, <1>4, <1>5 DEF Inv

LEMMA BackupDeleteKeeps ==
  ASSUME Inv, NEW n \in Staged, BackupDeleteExec(n), UNCHANGED <<pn, area>>
  PROVE  Inv'
<1>1. /\ step = "idle" /\ (Fine \/ Fault)
      /\ UNCHANGED <<final, temp, tftp, second, booted, step, item, inUse,
                     activated>>
      /\ \/ UNCHANGED <<backup, dropped>>
         \/ /\ backup' = [backup EXCEPT ![n] = Missing]
            /\ dropped' = dropped \cup {n}
  BY DEF BackupDeleteExec, disk
<1>2. StagingTypeOK'
  BY <1>1, Files DEF Inv, TypeOK, StagingTypeOK
<1>3. TypeOK' /\ Held' /\ Session' /\ Housed' /\ Copying'
  BY <1>1, <1>2, SameUploads DEF Inv, TypeOK, TFTPTypeOK
<1>4. Active'
  BY <1>1 DEF Active
<1>5. Generations'
  BY <1>1 DEF Inv, Generations, TypeOK, StagingTypeOK
<1>6. Boots'
  BY <1>1, Faults DEF Inv, Boots, TypeOK, TFTPTypeOK
<1>. QED BY <1>3, <1>4, <1>5, <1>6 DEF Inv

LEMMA RemoveBackupKeeps ==
  ASSUME Inv, RemoveBackup, UNCHANGED <<pn, area>>
  PROVE  Inv'
<1>1. /\ step = "remove" /\ (Fine \/ Fault)
      /\ UNCHANGED <<final, temp, tftp, second, booted, inUse, activated>>
      /\ \/ UNCHANGED <<backup, dropped>> /\ step' = "idle" /\ item' = None
         \/ /\ backup' = [backup EXCEPT ![item] = Missing]
            /\ step' = "save" /\ item' = item
            /\ dropped' = IF item \in activated THEN dropped \cup {item}
                          ELSE dropped
  BY DEF RemoveBackup, disk, Done, Call
<1>2. item \in Staged /\ final[item] # Missing /\ temp[item] # Missing
  BY <1>1 DEF Inv, Active
<1>3. StagingTypeOK'
  BY <1>1, <1>2, Files DEF Inv, TypeOK, StagingTypeOK
<1>4. TypeOK' /\ Held' /\ Session' /\ Housed' /\ Copying'
  BY <1>1, <1>3, SameUploads DEF Inv, TypeOK, TFTPTypeOK
<1>5. Active'
  BY <1>1, <1>2 DEF Active
<1>6. Generations'
  BY <1>1, <1>2 DEF Inv, Generations, TypeOK, StagingTypeOK
<1>7. Boots'
  BY <1>1, Faults DEF Inv, Boots, TypeOK, TFTPTypeOK
<1>. QED BY <1>4, <1>5, <1>6, <1>7 DEF Inv

LEMMA SaveKeeps ==
  ASSUME Inv, SaveActive, UNCHANGED <<pn, area>>
  PROVE  Inv'
<1>1. /\ step = "save" /\ (Fine \/ Fault)
      /\ UNCHANGED <<temp, tftp, second, booted, inUse, activated, dropped>>
      /\ \/ UNCHANGED <<backup, final>> /\ step' = "idle" /\ item' = None
         \/ /\ backup' = [backup EXCEPT ![item] = final[item]]
            /\ final' = [final EXCEPT ![item] = Missing]
            /\ step' = "promote" /\ item' = item
  BY DEF SaveActive, Done, Call
<1>2. /\ item \in Staged /\ item \in Name /\ item \notin PN
      /\ final[item] # Missing /\ temp[item] # Missing
      /\ item \in dropped \/ item \notin activated \/ inUse[item] = Missing
      /\ final \in [Name -> Content] /\ backup \in [Staged -> Content]
  BY <1>1, Names DEF Inv, Active, TypeOK, TFTPTypeOK, StagingTypeOK
<1>3. StagingTypeOK'
  BY <1>1, <1>2 DEF Inv, TypeOK, StagingTypeOK
<1>4. /\ final' \in [Name -> Content]
      /\ \A n \in Name : n # item => final'[n] = final[n]
  BY <1>1, <1>2, Files
<1>5. \A n \in PN : final'[n] = final[n]
  BY <1>2, <1>4, Names
<1>6. TypeOK' /\ Held' /\ Session' /\ Housed' /\ Copying'
  BY <1>1, <1>3, <1>4, <1>5, SameUploads
<1>7. Active'
  BY <1>1, <1>2 DEF Active
<1>8. Generations'
  BY <1>1, <1>2, <1>4, Names DEF Inv, Generations
<1>9. Boots'
  <2>1. booted \in Name /\ faults' >= faults /\ faults \in Nat /\ faults' \in Nat
    BY <1>1, Faults, Names, TFTPAssumption
       DEF Inv, TypeOK, TFTPTypeOK, StagingTypeOK
  <2>. QED BY <1>1, <1>2, <1>4, <2>1 DEF Inv, Boots
<1>. QED BY <1>6, <1>7, <1>8, <1>9 DEF Inv

LEMMA PromoteKeeps ==
  ASSUME Inv, PromoteStage, UNCHANGED <<pn, area>>
  PROVE  Inv'
<1>1. /\ step = "promote"
      /\ item \in Staged /\ item \in Name /\ item \notin PN
      /\ final[item] = Missing /\ backup[item] # Missing
      /\ temp[item] \in File
      /\ item \in dropped \/ item \notin activated \/ inUse[item] = Missing
      /\ final \in [Name -> Content] /\ temp \in [Name -> Content]
  BY Names, Files DEF PromoteStage, Inv, Active, TypeOK, TFTPTypeOK
<1>2. CASE /\ UNCHANGED <<disk, held, activated>>
           /\ step' = "rollback" /\ item' = item /\ Fault
  <2>1. UNCHANGED <<final, temp, tftp, backup, second, booted, inUse,
                    activated, dropped>>
    BY <1>2 DEF PromoteStage, disk, tftp
  <2>2. StagingTypeOK'
    BY <1>2, <2>1 DEF Inv, TypeOK, StagingTypeOK
  <2>3. TypeOK' /\ Held' /\ Session' /\ Housed' /\ Copying'
    BY <1>1, <1>2, <2>1, <2>2, SameUploads
  <2>4. Active' /\ Generations'
    BY <1>1, <1>2, <2>1 DEF Inv, Active, Generations
  <2>5. Boots'
    BY <1>1, <1>2, <2>1, Faults DEF Inv, Boots, TypeOK, TFTPTypeOK
  <2>. QED BY <2>3, <2>4, <2>5 DEF Inv
<1>3. ASSUME NEW s \in Blocks,
             final' = [final EXCEPT ![item] = [temp[item] EXCEPT !.size = s]],
             temp' = [temp EXCEPT ![item] = Missing],
             held' = IF held = item THEN None ELSE held,
             activated' = activated \cup {item},
             step' = "idle", item' = None, Fine
      PROVE  Inv'
  <2>1. /\ UNCHANGED <<file, target, kernelT, syxT, cardT, bytes, uploads>>
        /\ UNCHANGED <<faults, backup, second, booted, inUse, dropped>>
        /\ UNCHANGED <<dirs, at, next, copy, undo, excused, area>>
    BY <1>3 DEF PromoteStage, flags, pn, Fine
  <2>2. [temp[item] EXCEPT !.size = s] \in File
    BY <1>1, <1>3, Files
  <2>3. /\ final' \in [Name -> Content] /\ temp' \in [Name -> Content]
        /\ final'[item] # Missing /\ temp'[item] = Missing
        /\ \A n \in Name : n # item =>
             final'[n] = final[n] /\ temp'[n] = temp[n]
    BY <1>1, <1>3, <2>2, Files
  <2>4. held \in Name \cup {None}
    BY DEF Inv, TypeOK, TFTPTypeOK
  <2>5. TFTPTypeOK' /\ StagingTypeOK' /\ PNTypeOK'
    BY <1>1, <1>3, <2>1, <2>3, <2>4
       DEF Inv, TypeOK, TFTPTypeOK, StagingTypeOK, PNTypeOK
  <2>6. Held'
    BY <1>3, <2>1, <2>3, <2>4 DEF Inv, Held
  <2>7. Session'
    BY <1>3, <2>1 DEF Inv, Session
  <2>8. Housed' /\ Copying'
    BY <1>1, <2>1, <2>3, Names DEF Inv, Housed, Copying, Quiet
  <2>9. Active'
    BY <1>3 DEF Active
  <2>10. Generations'
    BY <1>1, <1>3, <2>1, <2>3, Names DEF Inv, Generations
  <2>11. Boots'
    BY <1>1, <1>3, <2>1, <2>3, Names
       DEF Inv, Boots, TypeOK, StagingTypeOK
  <2>. QED BY <2>1, <2>5, <2>6, <2>7, <2>8, <2>9, <2>10, <2>11 DEF Inv, TypeOK
<1>4. \A s \in 0..temp[item].size : s \in Blocks
  <2>1. temp[item].size \in Blocks
    BY <1>1, Files
  <2>. QED BY <2>1, TFTPAssumption DEF Blocks
<1>5. temp[item].size \in Blocks
  BY <1>1, Files
<1>. QED BY <1>2, <1>3, <1>4, <1>5 DEF PromoteStage, Call, Done

LEMMA RollBackKeeps ==
  ASSUME Inv, RollBack, UNCHANGED <<pn, area>>
  PROVE  Inv'
<1>1. /\ step = "rollback" /\ step' = "idle" /\ item' = None
      /\ UNCHANGED <<temp, tftp, second, booted, inUse, activated, dropped>>
      /\ \/ UNCHANGED <<backup, final>> /\ Fault
         \/ /\ final' = [final EXCEPT ![item] = backup[item]]
            /\ backup' = [backup EXCEPT ![item] = Missing] /\ Fine
  BY DEF RollBack, Done
<1>2. /\ item \in Staged /\ item \in Name /\ item \notin PN
      /\ final[item] = Missing /\ backup[item] # Missing
      /\ item \in dropped \/ item \notin activated \/ inUse[item] = Missing
      /\ final \in [Name -> Content] /\ backup \in [Staged -> Content]
  BY <1>1, Names DEF Inv, Active, TypeOK, TFTPTypeOK, StagingTypeOK
<1>3. /\ final' \in [Name -> Content] /\ backup' \in [Staged -> Content]
      /\ \A n \in Name : n # item => final'[n] = final[n]
  BY <1>1, <1>2, Files
<1>4. StagingTypeOK' /\ (\A n \in PN : final'[n] = final[n])
  BY <1>1, <1>2, <1>3, Names DEF Inv, TypeOK, StagingTypeOK
<1>5. TypeOK' /\ Held' /\ Session' /\ Housed' /\ Copying'
  BY <1>1, <1>3, <1>4, SameUploads
<1>6. Active'
  BY <1>1 DEF Active
<1>7. Generations'
  BY <1>1, <1>2, <1>3, Names DEF Inv, Generations
<1>8. Boots'
  <2>1. /\ booted \in Name /\ faults >= 1 /\ faults \in Nat
        /\ Fault => faults' = faults + 1
    BY <1>1, Faults, Names, TFTPAssumption
       DEF Inv, Boots, TypeOK, TFTPTypeOK, StagingTypeOK
  <2>. QED BY <1>1, <1>2, <1>3, <2>1 DEF Inv, Boots, Fine
<1>. QED BY <1>5, <1>6, <1>7, <1>8 DEF Inv

LEMMA PowerCycleKeeps ==
  ASSUME Inv, PowerCycle
  PROVE  Inv'
<1>1. /\ step # "off" /\ Fault /\ Reset
      /\ inUse' = [n \in Staged |-> final[n]]
      /\ activated' = {} /\ dropped' = {} /\ item' = None
      /\ step' = IF final[booted] = Missing THEN "off" ELSE "idle"
      /\ copy' = <<>> /\ undo' = FALSE /\ excused' \in BOOLEAN
      /\ UNCHANGED <<final, uploads, backup, second, booted, dirs, at, next,
                     area>>
  BY DEF PowerCycle, Boot, Inv, TypeOK, PNTypeOK
<1>2. /\ final \in [Name -> Content] /\ temp \in [Name -> Content]
      /\ held \in Name \cup {None}
  BY DEF Inv, TypeOK, TFTPTypeOK
<1>3. /\ temp' \in [Name -> Content]
      /\ \A n \in Name : temp'[n] # Missing => temp[n] # Missing
  <2>1. CASE temp' = temp
    BY <1>2, <2>1
  <2>2. CASE temp' # temp
    <3>1. held # None
      BY <2>2 DEF PowerCycle, Lost
    <3>2. held \in Name /\ temp[held] \in File
      BY <1>2, <3>1, Files DEF Inv, Held
    <3>3. PICK s \in 0..temp[held].size : temp' = [temp EXCEPT ![held].size = s]
      BY <2>2 DEF PowerCycle
    <3>4. s \in Blocks
      <4>1. temp[held].size \in Blocks
        BY <3>2, Files
      <4>. QED BY <3>3, <4>1, TFTPAssumption DEF Blocks
    <3>5. [temp[held] EXCEPT !.size = s] \in File
      BY <3>2, <3>4, Files
    <3>. QED BY <1>2, <3>2, <3>3, <3>5, Files
  <2>. QED BY <2>1, <2>2
<1>4. TFTPTypeOK'
  <2>1. faults' \in 0..MaxFaults
    BY <1>1, Faults DEF Inv
  <2>. QED BY <1>1, <1>2, <1>3, <2>1, Files
       DEF Inv, TypeOK, TFTPTypeOK, Reset
<1>5. StagingTypeOK' /\ PNTypeOK' /\ TypeOK'
  BY <1>1, <1>2, <1>4, Names DEF Inv, TypeOK, StagingTypeOK, PNTypeOK
<1>6. Held' /\ Session' /\ Copying'
  BY <1>1 DEF Reset, Held, Session, Copying, Quiet
<1>7. Housed'
  BY <1>1, <1>3, Names DEF Inv, Housed
<1>8. Active' /\ Generations' /\ Boots'
  BY <1>1 DEF Active, Generations, Boots
<1>. QED BY <1>5, <1>6, <1>7, <1>8 DEF Inv

----------------------------------------------------------------------------

LEMMA InvInit == Init => Inv
<1> SUFFICES ASSUME Init PROVE Inv
  OBVIOUS
<1>1. /\ Idle /\ uploads = 0 /\ faults = 0 /\ area \in {Kernels, {Ini}, PN}
      /\ StagingInit /\ PNInit
  BY DEF Init
<1>2. PICK some \in SUBSET area, staged \in {{}, area \cap Staged} :
        /\ final = [n \in Name |->
                      IF n \in some \/ (n = Root /\ area # Kernels)
                        THEN [size |-> IF n \in PN THEN Parts ELSE MaxBlocks,
                              img |-> n]
                        ELSE Missing]
        /\ temp = [n \in Name |->
                     IF n \in staged THEN [size |-> MaxBlocks, img |-> Sent]
                     ELSE Missing]
  BY DEF Init
<1>3. /\ Parts \in Blocks /\ MaxBlocks \in Blocks /\ 0 \in Blocks
      /\ 0 \in 0..MaxFaults /\ 0 \in 0..MaxUploads /\ 0 \in 0..Parts
  BY PNAssumption, TFTPAssumption DEF Blocks
<1>4. \A n \in Name : [size |-> MaxBlocks, img |-> n] \in File
                   /\ [size |-> Parts, img |-> n] \in File
  BY <1>3, Files, NetFilesAssumption
<1>5. /\ [size |-> MaxBlocks, img |-> Sent] \in File
      /\ [size |-> MaxBlocks, img |-> None] \in File
  BY <1>3, Files, NetFilesAssumption
<1>6. final \in [Name -> Content] /\ temp \in [Name -> Content]
  BY <1>2, <1>4, <1>5, Files
<1>7. /\ backup \in [Staged -> Content]
      /\ inUse = [n \in Staged |-> final[n]] /\ inUse \in [Staged -> Content]
      /\ booted \in Kernels /\ final[booted] # Missing
      /\ step = "idle" /\ item = None /\ activated = {} /\ dropped = {}
      /\ second \in BOOLEAN
  BY <1>1, <1>5, <1>6, Files, Names DEF StagingInit
<1>8. TFTPTypeOK
  BY <1>1, <1>3, <1>6 DEF Idle, TFTPTypeOK
<1>9. StagingTypeOK
  BY <1>7 DEF StagingTypeOK
<1>10. PNTypeOK
  BY <1>1, <1>3 DEF PNInit, PNTypeOK
<1>11. Held /\ Session /\ Copying
  BY <1>1 DEF Idle, PNInit, Held, Session, Copying, Quiet
<1>12. Housed
  <2>1. \A n \in PN : temp[n] = Missing
    BY <1>2, Names
  <2>. QED BY <1>1, <2>1 DEF PNInit, Housed
<1>13. Active /\ Generations /\ Boots
  BY <1>7, Names DEF Active, Generations, Boots
<1>. QED BY <1>1, <1>8, <1>9, <1>10, <1>11, <1>12, <1>13 DEF Inv, TypeOK

LEMMA InvStep == Inv /\ [Next]_vars => Inv'
<1> SUFFICES ASSUME Inv, [Next]_vars PROVE Inv'
  OBVIOUS
<1>1. CASE TFTPRequest
  BY <1>1, TFTPKeeps, AtRest DEF Inv, Outcome
<1>2. CASE SYXRequest
  BY <1>2, SYXKeeps, AtRest DEF Inv, Outcome
<1>3. CASE MaintenanceRequest
  <2>1. UNCHANGED <<pn, area>>
    BY <1>3 DEF MaintenanceRequest
  <2>. QED BY <1>3, <2>1, Maintenance, ActivateKeeps, BackupDeleteKeeps,
           RemoveBackupKeeps, SaveKeeps, PromoteKeeps, RollBackKeeps
<1>4. CASE PowerCycle
  BY <1>4, PowerCycleKeeps
<1>5. CASE UNCHANGED vars
  <2>1. /\ UNCHANGED <<final, temp, file, target, kernelT, syxT, cardT, bytes>>
        /\ UNCHANGED <<held, uploads, faults, backup, second, booted, step>>
        /\ UNCHANGED <<item, inUse, activated, dropped, dirs, at, next, copy>>
        /\ UNCHANGED <<undo, excused, area>>
    BY <1>5 DEF vars, disk, tftp, flags, staging, pn
  <2>2. TypeOK' /\ Held' /\ Session' /\ Housed' /\ Copying'
    BY <2>1 DEF Inv, TypeOK, TFTPTypeOK, StagingTypeOK, PNTypeOK, Held, Session,
                Housed, Copying, Quiet
  <2>3. Active' /\ Generations' /\ Boots'
    BY <2>1 DEF Inv, Active, Generations, Boots
  <2>. QED BY <2>2, <2>3 DEF Inv
<1>. QED BY <1>1, <1>2, <1>3, <1>4, <1>5 DEF Next

----------------------------------------------------------------------------

(* Every variable keeps its type: no request and no accident leaves a file  *)
(* that is no file, or a name that is none.                                 *)
THEOREM NetFilesTypeCorrect == Spec => []TypeOK
<1>1. Inv => TypeOK
  BY DEF Inv
<1>. QED BY InvInit, InvStep, <1>1, PTL DEF Spec

(* What this boot loaded is on the card, under its own name or as the       *)
(* backup, until its backup is deleted or activated over again, whatever    *)
(* calls fail and whenever power is lost.                                   *)
THEOREM GenerationsKept == Spec => []InUseKept
<1>1. Inv => InUseKept
  BY DEF Inv, Generations, InUseKept
<1>. QED BY InvInit, InvStep, <1>1, PTL DEF Spec

(* One failing storage call does not take the kernel that boots.            *)
THEOREM OneFailure == Spec => []OneFailureTolerated
<1>1. Inv => OneFailureTolerated
  BY DEF Inv, Boots, OneFailureTolerated
<1>. QED BY InvInit, InvStep, <1>1, PTL DEF Spec

LEMMA MaintenanceSpares ==
  ASSUME Inv, MaintenanceRequest, NEW n \in PN
  PROVE  final'[n] = final[n]
<1>1. /\ final \in [Name -> Content] /\ n \in Name /\ n \notin Staged
      /\ step # "idle" /\ step # "off" => item \in Staged
  BY Names DEF Inv, TypeOK, TFTPTypeOK, Active
<1>2. final' = final \/ (item \in Staged /\ \E c : final' = [final EXCEPT ![item] = c])
  <2>1. CASE \E m \in Staged : ActivateExec(m) \/ BackupDeleteExec(m)
    BY <2>1 DEF ActivateExec, BackupDeleteExec, disk
  <2>2. CASE RemoveBackup
    BY <2>2 DEF RemoveBackup, disk
  <2>3. CASE SaveActive
    BY <1>1, <2>3 DEF SaveActive
  <2>4. CASE PromoteStage
    BY <1>1, <2>4 DEF PromoteStage, disk
  <2>5. CASE RollBack
    BY <1>1, <2>5 DEF RollBack
  <2>. QED BY <2>1, <2>2, <2>3, <2>4, <2>5, Maintenance
<1>. QED BY <1>1, <1>2

----------------------------------------------------------------------------
(* Whole files. What the daemon has open is what it was sent; as long as    *)
(* nothing excuses it, each temp file is the beginning of one image, and    *)
(* what is published, or copied, is one image from end to end.              *)

OneImage(c) == c.img = Sent \/ (c.size = Parts /\ c.img # Garbled)

OpenIsSent == held # None => temp[held].img = Sent
Apart == ~Quiet => copy[1] # copy[2]

CleanTemps ==
  \A n \in PN : temp[n] # Missing => temp[n].img = Sent \/ temp[n].img # Garbled
CleanFiles ==
  \A n \in PN : final[n] # Missing =>
    OneImage(final[n]) \/ (~Quiet /\ n = copy[2])
Clean == ~excused => CleanTemps /\ CleanFiles

Pub == OpenIsSent /\ Apart /\ Clean

LEMMA PubInit == Init => Pub
<1> SUFFICES ASSUME Init PROVE Pub
  OBVIOUS
<1>1. Idle /\ PNInit
  BY DEF Init
<1>2. PICK some \in SUBSET area, staged \in {{}, area \cap Staged} :
        /\ final = [n \in Name |->
                      IF n \in some \/ (n = Root /\ area # Kernels)
                        THEN [size |-> IF n \in PN THEN Parts ELSE MaxBlocks,
                              img |-> n]
                        ELSE Missing]
        /\ temp = [n \in Name |->
                     IF n \in staged THEN [size |-> MaxBlocks, img |-> Sent]
                     ELSE Missing]
  BY DEF Init
<1>3. \A n \in PN : temp[n] = Missing
  BY <1>2, Names
<1>4. \A n \in PN : final[n] # Missing => OneImage(final[n])
  <2> SUFFICES ASSUME NEW n \in PN, final[n] # Missing PROVE OneImage(final[n])
    OBVIOUS
  <2>1. final[n] = [size |-> Parts, img |-> n]
    BY <1>2, Names
  <2>2. n # Garbled
    BY Names, NetFilesAssumption
  <2>. QED BY <2>1, <2>2 DEF OneImage
<1>. QED BY <1>1, <1>3, <1>4
         DEF Idle, PNInit, Pub, OpenIsSent, Apart, Clean, CleanTemps, CleanFiles,
             Quiet

(* A request that excuses nothing and leaves all but one temp file alone.   *)
LEMMA PubFrame ==
  ASSUME Inv, Pub, UNCHANGED <<copy, final>>, excused => excused',
         NEW n \in Name,
         \A m \in Name : m # n => temp'[m] = temp[m],
         held' = held \/ held' = None \/ held' = n,
         held' = n => temp'[n].img = Sent,
         ~excused' /\ n \in PN /\ temp'[n] # Missing =>
           temp'[n].img = Sent \/ temp'[n].img # Garbled
  PROVE  Pub'
<1>1. held \in Name \cup {None}
  BY DEF Inv, TypeOK, TFTPTypeOK
<1>2. OpenIsSent'
  BY <1>1, Names DEF Pub, OpenIsSent
<1>3. Apart' /\ Clean'
  BY Names DEF Pub, Apart, Clean, CleanTemps, CleanFiles, Quiet, OneImage
<1>. QED BY <1>2, <1>3 DEF Pub

LEMMA SameImage ==
  ASSUME NEW c \in File, NEW s
  PROVE  [c EXCEPT !.size = s].img = c.img
BY DEF File

LEMMA PubTFTP ==
  ASSUME Inv, Pub, TFTPRequest
  PROVE  Pub'
<1>1. /\ excused' = (excused \/ (file \in {"write", "failed"} /\ held # target))
      /\ excused => excused'
      /\ UNCHANGED copy /\ Quiet
      /\ final \in [Name -> Content] /\ temp \in [Name -> Content]
      /\ held \in Name \cup {None}
  BY DEF TFTPRequest, Inv, TypeOK, TFTPTypeOK
<1>2. CASE \E n \in Served : FileOpen(n)
  <2>1. UNCHANGED <<final, temp, held>> /\ file = "none"
    BY <1>2 DEF FileOpen, FileOpenFails, FileOpens, disk
  <2>. QED BY <1>1, <2>1
       DEF Pub, OpenIsSent, Apart, Clean, CleanTemps, CleanFiles, Quiet, OneImage
<1>3. ASSUME NEW n \in Served, FileCreate(n)
      PROVE  Pub'
  <2>1. n \in Name
    BY ServedNames
  <2>2. /\ final' = final
        /\ \/ /\ temp' = [temp EXCEPT ![n] = [size |-> 0, img |-> Sent]]
              /\ held' = n
           \/ /\ temp' = temp \/ temp' = [temp EXCEPT ![n] = Missing]
              /\ held' = None
    BY <1>3 DEF FileCreate, Refuse, CreateTemp, CreateStage, Reset, disk
  <2>3. /\ \A m \in Name : m # n => temp'[m] = temp[m]
        /\ held' \in {n, None}
        /\ held' = n => temp'[n] = [size |-> 0, img |-> Sent]
        /\ temp'[n] \in {[size |-> 0, img |-> Sent], Missing, temp[n]}
    BY <1>1, <2>1, <2>2, Names
  <2>4. ASSUME ~excused', n \in PN, temp'[n] # Missing
        PROVE  temp'[n].img = Sent \/ temp'[n].img # Garbled
    <3>1. CleanTemps
      BY <1>1, <2>4 DEF Pub, Clean
    <3>2. CASE temp'[n] = temp[n]
      BY <2>4, <3>1, <3>2 DEF CleanTemps
    <3>3. CASE temp'[n] = [size |-> 0, img |-> Sent]
      BY <3>3
    <3>. QED BY <2>3, <2>4, <3>2, <3>3
  <2>5. held' = n => temp'[n].img = Sent
    BY <2>3
  <2>6. held' = held \/ held' = None \/ held' = n
    BY <2>3
  <2>. QED BY <1>1, <2>1, <2>2, <2>3, <2>4, <2>5, <2>6,
              PubFrame
<1>4. CASE FileWrite
  <2>1. held' = held /\ target \in Name /\ file = "write"
    BY <1>4 DEF FileWrite, WriteBlock, WriteShort, Inv, Session, Remote
  <2>2. CASE held = None
    BY <1>1, <2>1, <2>2, Names
       DEF Pub, OpenIsSent, Apart, Clean, Quiet
  <2>3. CASE held # None
    <3>1. /\ held \in Name /\ temp[held] \in File /\ temp[held].img = Sent
          /\ final' = final
          /\ temp' = temp \/ temp' = [temp EXCEPT ![held].size = bytes + 1]
      BY <1>1, <1>4, <2>3, Files
         DEF FileWrite, WriteBlock, WriteShort, disk, Lost, Inv, Held, Pub,
             OpenIsSent
    <3>2. \A m \in Name : m # held => temp'[m] = temp[m]
      BY <1>1, <3>1
    <3>3. [temp[held] EXCEPT !.size = bytes + 1].img = temp[held].img
      BY <3>1, SameImage
    <3>4. temp'[held].img = Sent
      BY <1>1, <3>1, <3>3
    <3>. QED BY <1>1, <2>1, <3>1, <3>2, <3>4, PubFrame
  <2>. QED BY <2>2, <2>3
<1>5. CASE FileClose
  <2>1. held' = None
    BY <1>5 DEF FileClose, CloseRead, CloseError, Publish, CloseStage, Reset
  <2>2. ASSUME ~excused', file \in {"write", "failed"}
        PROVE  target \in Name /\ held = target /\ temp[target].img = Sent
    BY <1>1, <2>2, Names DEF Inv, Session, Remote, Pub, OpenIsSent
  <2>3. /\ \/ final' = final
           \/ /\ final' = [final EXCEPT ![target] = temp[target]]
              /\ file \in {"write", "failed"}
        /\ temp' = temp \/ temp' = [temp EXCEPT ![target] = Missing]
    BY <1>5 DEF FileClose, CloseRead, CloseError, Publish, CloseStage, Remove,
                disk
  <2>4. ASSUME ~excused' PROVE CleanTemps' /\ CleanFiles'
    <3>1. CleanTemps /\ CleanFiles /\ copy' = copy
      BY <1>1, <2>4 DEF Pub, Clean
    <3>2. CleanTemps'
      BY <1>1, <2>3, <3>1, Names DEF CleanTemps
    <3>3. CleanFiles'
      BY <1>1, <2>2, <2>3, <2>4, <3>1, Names DEF CleanFiles, OneImage, Quiet
    <3>. QED BY <3>2, <3>3
  <2>. QED BY <1>1, <2>1, <2>4 DEF Pub, OpenIsSent, Apart, Clean, Quiet
<1>. QED BY <1>2, <1>3, <1>4, <1>5 DEF TFTPRequest

LEMMA PubMaintenance ==
  ASSUME Inv, Pub, MaintenanceRequest
  PROVE  Pub'
<1>1. /\ UNCHANGED <<copy, excused>>
      /\ \A n \in PN : final'[n] = final[n]
      /\ temp \in [Name -> Content] /\ held \in Name \cup {None}
  BY MaintenanceSpares DEF MaintenanceRequest, pn, Inv, TypeOK, TFTPTypeOK
<1>2. \/ UNCHANGED <<temp, held>>
      \/ /\ item \in Staged /\ temp' = [temp EXCEPT ![item] = Missing]
         /\ held' = IF held = item THEN None ELSE held
  <2>1. CASE \E m \in Staged : ActivateExec(m) \/ BackupDeleteExec(m)
    BY <2>1 DEF ActivateExec, BackupDeleteExec, disk, tftp
  <2>2. CASE RemoveBackup \/ SaveActive \/ RollBack
    BY <2>2 DEF RemoveBackup, SaveActive, RollBack, disk, tftp
  <2>3. CASE PromoteStage
    <3>1. item \in Staged
      BY <2>3 DEF PromoteStage, Inv, Active
    <3>. QED BY <2>3, <3>1 DEF PromoteStage, disk
  <2>. QED BY <2>1, <2>2, <2>3, Maintenance
<1>3. /\ \A n \in PN : temp'[n] = temp[n]
      /\ held' # None => held' = held /\ temp'[held] = temp[held]
  BY <1>1, <1>2, Names
<1>4. OpenIsSent'
  BY <1>3 DEF Pub, OpenIsSent
<1>. QED BY <1>1, <1>3, <1>4
         DEF Pub, Apart, Clean, CleanTemps, CleanFiles, Quiet, OneImage

LEMMA PubPowerCycle ==
  ASSUME Inv, Pub, PowerCycle
  PROVE  Pub'
<1>1. /\ held' = None /\ copy' = <<>> /\ final' = final
      /\ excused' = (excused \/ ~Quiet)
      /\ temp \in [Name -> Content]
  BY DEF PowerCycle, Reset, Inv, TypeOK, TFTPTypeOK
<1>2. ASSUME NEW n \in PN, temp'[n] # Missing
      PROVE  temp[n] # Missing /\ temp'[n].img = temp[n].img
  <2>1. CASE temp' = temp
    BY <1>2, <2>1
  <2>2. CASE temp' # temp
    <3>1. held # None /\ held \in Name /\ temp[held] \in File
      BY <1>1, <2>2, Files DEF PowerCycle, Lost, Inv, Held, TypeOK, TFTPTypeOK
    <3>2. PICK s : temp' = [temp EXCEPT ![held].size = s]
      BY <2>2 DEF PowerCycle
    <3>3. [temp[held] EXCEPT !.size = s].img = temp[held].img
      BY <3>1, SameImage
    <3>4. temp[held] # Missing
      BY <3>1, Files
    <3>. QED BY <1>1, <1>2, <3>1, <3>2, <3>3, <3>4, Names
  <2>. QED BY <2>1, <2>2
<1>3. OpenIsSent' /\ Apart'
  BY <1>1 DEF OpenIsSent, Apart, Quiet
<1>4. ASSUME ~excused' PROVE CleanTemps' /\ CleanFiles'
  <2>1. CleanTemps /\ CleanFiles /\ Quiet
    BY <1>1, <1>4 DEF Pub, Clean
  <2>2. CleanTemps'
    BY <1>2, <2>1 DEF CleanTemps
  <2>3. CleanFiles'
    BY <1>1, <2>1 DEF CleanFiles, OneImage, Quiet
  <2>. QED BY <2>2, <2>3
<1>. QED BY <1>3, <1>4 DEF Pub, Clean

LEMMA PubBegin ==
  ASSUME Inv, Pub, NEW t \in Tab, NEW n \in PN, Begin(t, n)
  PROVE  Pub'
<1>1. /\ UNCHANGED <<copy, final, excused>> /\ n \in Name
      /\ held' = IF held = n THEN None ELSE held
      /\ temp \in [Name -> Content] /\ held \in Name \cup {None}
      /\ t # Garbled
  BY Names, PNAssumption DEF Begin, Snatch, Inv, TypeOK, TFTPTypeOK
<1>2. \/ temp' = temp
      \/ temp' = [temp EXCEPT ![n] = [size |-> 0, img |-> t]]
      \/ temp' = [temp EXCEPT ![n] = Missing]
  BY DEF Begin
<1>3. /\ \A m \in Name : m # n => temp'[m] = temp[m]
      /\ temp'[n] \in {temp[n], [size |-> 0, img |-> t], Missing}
      /\ held' # n
  BY <1>1, <1>2, Names
<1>4. ASSUME ~excused', n \in PN, temp'[n] # Missing
      PROVE  temp'[n].img = Sent \/ temp'[n].img # Garbled
  <2>1. CleanTemps
    BY <1>1, <1>4 DEF Pub, Clean
  <2>2. CASE temp'[n] = temp[n]
    BY <1>4, <2>1, <2>2 DEF CleanTemps
  <2>3. CASE temp'[n] = [size |-> 0, img |-> t]
    BY <1>1, <2>3
  <2>. QED BY <1>3, <1>4, <2>2, <2>3
<1>. QED BY <1>1, <1>3, <1>4, PubFrame

(* A chunk that is neither the first to leave a gap nor another upload's    *)
(* continues the image.                                                     *)
LEMMA PubChunk ==
  ASSUME Inv, Pub, NEW t \in Tab, Chunk(t)
  PROVE  Pub'
<1> DEFINE n == at[t]
<1>1. /\ UNCHANGED <<copy, final>> /\ n \in PN /\ n \in Name
      /\ temp \in [Name -> Content] /\ held \in Name \cup {None}
      /\ t # Garbled
  BY Names, PNAssumption DEF Chunk, Inv, TypeOK, TFTPTypeOK, PNTypeOK
<1>2. CASE n[1] \notin dirs \/ temp[n] = Missing
  <2>1. UNCHANGED <<temp, held, excused>>
    BY <1>2 DEF Chunk
  <2>. QED BY <1>1, <2>1
       DEF Pub, OpenIsSent, Apart, Clean, CleanTemps, CleanFiles, Quiet, OneImage
<1>3. CASE n[1] \in dirs /\ temp[n] # Missing
  <2>1. /\ held' = IF held = n THEN None ELSE held
        /\ temp' = temp \/ temp' = [temp EXCEPT ![n] = Put(temp[n], t, next[t])]
        /\ excused => excused'
        /\ ~excused' => temp[n].img = t /\ ~(temp[n].size < next[t])
    BY <1>3 DEF Chunk, Snatch
  <2>2. /\ \A m \in Name : m # n => temp'[m] = temp[m]
        /\ temp'[n] \in {temp[n], Put(temp[n], t, next[t])}
        /\ held' # n
    BY <1>1, <2>1, Names
  <2>3. ASSUME ~excused'
        PROVE  temp'[n].img # Garbled
    <3>1. temp[n].img = t /\ next[t] <= temp[n].size
      <4>1. temp[n] \in File /\ temp[n].size \in Nat
        BY <1>1, <1>3, Files, TFTPAssumption DEF Blocks
      <4>2. next[t] \in Nat
        BY PNAssumption, TFTPAssumption DEF Inv, TypeOK, PNTypeOK
      <4>. QED BY <2>1, <2>3, <4>1, <4>2
    <3>2. Put(temp[n], t, next[t]).img = t
      BY <3>1 DEF Put
    <3>. QED BY <1>1, <2>2, <3>1, <3>2
  <2>. QED BY <1>1, <2>1, <2>2, <2>3, PubFrame
<1>. QED BY <1>2, <1>3

LEMMA PubFinish ==
  ASSUME Inv, Pub, NEW t \in Tab, Finish(t)
  PROVE  Pub'
<1> DEFINE n == at[t]
<1>1. /\ UNCHANGED <<copy, excused>> /\ Quiet /\ n \in PN /\ n \in Name
      /\ final \in [Name -> Content] /\ temp \in [Name -> Content]
      /\ held \in Name \cup {None}
  BY Names DEF Finish, Inv, TypeOK, TFTPTypeOK, PNTypeOK
<1>2. /\ \/ UNCHANGED <<temp, held>>
         \/ /\ temp' = [temp EXCEPT ![n] = Missing]
            /\ held' = IF held = n THEN None ELSE held
      /\ \/ final' = final
         \/ /\ final' = [final EXCEPT ![n] = [temp[n] EXCEPT !.size = Parts]]
            /\ temp[n] # Missing
  BY DEF Finish, Snatch, disk
<1>3. OpenIsSent'
  BY <1>1, <1>2, Names DEF Pub, OpenIsSent
<1>4. ASSUME ~excused' PROVE CleanTemps' /\ CleanFiles'
  <2>1. CleanTemps /\ CleanFiles
    BY <1>1, <1>4 DEF Pub, Clean
  <2>2. CleanTemps'
    BY <1>1, <1>2, <2>1, Names DEF CleanTemps
  <2>3. CASE final' = final
    BY <1>1, <2>1, <2>2, <2>3 DEF CleanFiles, OneImage, Quiet
  <2>4. CASE /\ final' = [final EXCEPT ![n] = [temp[n] EXCEPT !.size = Parts]]
             /\ temp[n] # Missing
    <3>1. temp[n] \in File
      BY <1>1, <2>4, Files
    <3>2. OneImage([temp[n] EXCEPT !.size = Parts])
      <4>1. [temp[n] EXCEPT !.size = Parts].size = Parts
        BY <3>1 DEF File
      <4>. QED BY <1>1, <2>1, <2>4, <3>1, <4>1, SameImage
           DEF CleanTemps, OneImage
    <3>3. \A m \in Name : final'[m] = IF m = n THEN [temp[n] EXCEPT !.size = Parts]
                                      ELSE final[m]
      BY <1>1, <2>4
    <3>. QED BY <1>1, <2>1, <2>2, <3>2, <3>3, Names DEF CleanFiles, OneImage, Quiet
  <2>. QED BY <1>2, <2>2, <2>3, <2>4
<1>. QED BY <1>1, <1>3, <1>4 DEF Pub, Apart, Clean, Quiet

(* Requests that leave the temp files and the open upload alone.            *)
LEMMA PubFinal ==
  ASSUME Inv, Pub, UNCHANGED <<temp, held>>, excused => excused', Apart',
         ~excused' => CleanFiles'
  PROVE  Pub'
  BY DEF Pub, OpenIsSent, Clean, CleanTemps

LEMMA PubCopy ==
  ASSUME Inv, Pub,
         CopyContents \/ CopyUndo \/ \E s, d \in PN : CopyExec(s, d)
  PROVE  Pub'
<1>1. /\ UNCHANGED <<temp, held>> /\ (excused => excused')
      /\ final \in [Name -> Content]
  BY DEF CopyContents, CopyUndo, CopyExec, tftp, Inv, TypeOK, TFTPTypeOK
<1>2. ASSUME ~excused' PROVE CleanFiles
  BY <1>1, <1>2 DEF Pub, Clean
<1>3. ASSUME NEW s \in PN, NEW d \in PN, CopyExec(s, d)
      PROVE  Apart' /\ (~excused' => CleanFiles')
  <2>1. /\ Quiet /\ s # d /\ d \in Name
        /\ \/ UNCHANGED <<final, copy>>
           \/ /\ final' = [final EXCEPT ![d] = [final[s] EXCEPT !.size = 0]]
              /\ copy' = <<s, d>>
    BY <1>3, Names DEF CopyExec, Elsewhere
  <2>2. Apart'
    BY <2>1 DEF Apart, Quiet
  <2>3. CASE UNCHANGED <<final, copy>>
    BY <1>2, <2>2, <2>3 DEF CleanFiles, Quiet, OneImage
  <2>4. CASE /\ final' = [final EXCEPT ![d] = [final[s] EXCEPT !.size = 0]]
             /\ copy' = <<s, d>>
    <3>1. \A m \in Name : m # d => final'[m] = final[m]
      BY <1>1, <2>4
    <3>2. ~Quiet' /\ copy'[2] = d
      BY <2>4 DEF Quiet
    <3>. QED BY <1>2, <2>1, <2>2, <3>1, <3>2, Names DEF CleanFiles, OneImage
  <2>. QED BY <2>1, <2>3, <2>4
<1>4. ASSUME CopyContents \/ CopyUndo
      PROVE  Apart' /\ (~excused' => CleanFiles')
  <2>1. /\ copy \in PN \X PN /\ copy[1] \in PN /\ copy[2] \in PN
        /\ copy[1] # copy[2] /\ ~Quiet
    <3>1. copy # <<>>
      BY <1>4 DEF CopyContents, CopyUndo, Quiet, Inv, Copying
    <3>. QED BY <3>1 DEF Inv, TypeOK, PNTypeOK, Pub, Apart, Quiet
  <2>2. CASE UNCHANGED <<final, copy>>
    BY <1>2, <2>1, <2>2 DEF Apart, CleanFiles, Quiet, OneImage
  <2>3. CASE copy' = <<>> /\ final' = [final EXCEPT ![copy[2]] = final[copy[1]]]
    <3>1. \A m \in Name : final'[m] = IF m = copy[2] THEN final[copy[1]]
                                      ELSE final[m]
      BY <1>1, <2>3
    <3>2. ASSUME CleanFiles PROVE CleanFiles'
      BY <2>1, <3>1, <3>2, Names DEF CleanFiles, OneImage
    <3>. QED BY <1>2, <2>3, <3>2 DEF Apart, Quiet
  <2>4. CASE copy' = <<>> /\ final' = [final EXCEPT ![copy[2]] = Missing]
    <3>1. \A m \in Name : final'[m] = IF m = copy[2] THEN Missing ELSE final[m]
      BY <1>1, <2>4
    <3>2. ASSUME CleanFiles PROVE CleanFiles'
      BY <2>1, <3>1, <3>2, Names DEF CleanFiles, OneImage
    <3>. QED BY <1>2, <2>4, <3>2 DEF Apart, Quiet
  <2>5. CASE copy' = <<>> /\ excused' = TRUE
    BY <2>5 DEF Apart, Quiet
  <2>. QED BY <1>4, <2>2, <2>3, <2>4, <2>5 DEF CopyContents, CopyUndo
<1>. QED BY <1>1, <1>3, <1>4, PubFinal

LEMMA PubMove ==
  ASSUME Inv, Pub,
         \/ \E s, d \in PN : MoveExec(s, d) \/ RenameExec(s, d)
         \/ \E n \in PN : DeleteExec(n)
         \/ \E f \in Folder : DirCreateExec(f) \/ DirDeleteExec(f)
         \/ \E t \in Tab : Leave(t)
  PROVE  Pub'
<1>1. /\ UNCHANGED <<temp, held, copy, excused>>
      /\ final \in [Name -> Content]
  BY DEF MoveExec, RenameExec, MoveFile, DeleteExec, DirCreateExec,
         DirDeleteExec, Leave, tftp, disk, pn, Inv, TypeOK, TFTPTypeOK
<1>2. ASSUME NEW n \in PN, final'[n] # Missing
      PROVE  \/ final'[n] = final[n]
             \/ Quiet /\ \E m \in PN : final'[n] = final[m]
  <2>1. ASSUME NEW s \in PN, NEW d \in PN, MoveExec(s, d) \/ RenameExec(s, d)
        PROVE  \/ final'[n] = final[n]
               \/ Quiet /\ \E m \in PN : final'[n] = final[m]
    <3>1. /\ Quiet
          /\ \/ final' = final
             \/ final' = [final EXCEPT ![d] = final[s], ![s] = Missing]
      BY <2>1 DEF MoveExec, RenameExec, MoveFile
    <3>2. final'[n] = final[n] \/ final'[n] = final[s]
      BY <1>1, <1>2, <3>1, Names
    <3>. QED BY <3>1, <3>2
  <2>2. ASSUME NEW m \in PN, DeleteExec(m)
        PROVE  final'[n] = final[n]
    BY <1>1, <1>2, <2>2, Names DEF DeleteExec
  <2>3. ASSUME \/ \E f \in Folder : DirCreateExec(f) \/ DirDeleteExec(f)
               \/ \E t \in Tab : Leave(t)
        PROVE  final'[n] = final[n]
    BY <2>3 DEF DirCreateExec, DirDeleteExec, Leave, disk
  <2>. QED BY <2>1, <2>2, <2>3
<1>3. Apart'
  BY <1>1 DEF Pub, Apart, Quiet
<1>4. ASSUME ~excused' PROVE CleanFiles'
  <2>1. CleanFiles
    BY <1>1, <1>4 DEF Pub, Clean
  <2>2. ASSUME NEW n \in PN, final'[n] # Missing
        PROVE  OneImage(final'[n]) \/ (~Quiet /\ n = copy[2])
    BY <1>2, <2>1, <2>2 DEF CleanFiles
  <2>. QED BY <1>1, <2>2 DEF CleanFiles, OneImage, Quiet
<1>. QED BY <1>1, <1>3, <1>4, PubFinal

LEMMA PubDirRename ==
  ASSUME Inv, Pub, NEW f \in Folder, NEW g \in Folder, DirRenameExec(f, g)
  PROVE  Pub'
<1>1. /\ UNCHANGED <<copy, excused>> /\ Quiet
      /\ f \in dirs /\ g \notin dirs /\ f # g
      /\ final \in [Name -> Content] /\ temp \in [Name -> Content]
      /\ held \in Name \cup {None}
  BY DEF DirRenameExec, NewFolder, Inv, TypeOK, TFTPTypeOK
<1>2. CASE UNCHANGED <<dirs, disk, held>>
  BY <1>1, <1>2
     DEF disk, Pub, OpenIsSent, Apart, Clean, CleanTemps, CleanFiles, Quiet,
         OneImage
<1>3. CASE /\ final' = Carried(final, f, g) /\ temp' = Carried(temp, f, g)
           /\ held' = IF held \in PN /\ held[1] = f THEN <<g, held[2]>> ELSE held
  <2>1. ASSUME NEW n \in PN
        PROVE  /\ final'[n] = Missing \/ \E m \in PN : final'[n] = final[m]
               /\ temp'[n] = Missing \/ \E m \in PN : temp'[n] = temp[m]
    <3>1. <<f, n[2]>> \in PN
      BY DEF PN
    <3>2. /\ final'[n] \in {Missing, final[<<f, n[2]>>], final[n]}
          /\ temp'[n] \in {Missing, temp[<<f, n[2]>>], temp[n]}
      BY <1>1, <1>3, CarriedFiles
    <3>. QED BY <3>1, <3>2
  <2>2. /\ \A n \in Name : n \notin PN => temp'[n] = temp[n]
        /\ \A n \in PN : n[1] = g => temp'[n] = temp[<<f, n[2]>>]
        /\ \A n \in PN : n[1] \notin {f, g} => temp'[n] = temp[n]
    BY <1>1, <1>3, CarriedFiles
  <2>3. OpenIsSent'
    <3>1. CASE held \in PN /\ held[1] = f
      <4>1. /\ held' \in PN /\ held'[1] = g /\ held'[2] = held[2]
            /\ held = <<f, held[2]>>
        BY <1>3, <3>1 DEF PN
      <4>2. temp'[held'] = temp[held]
        BY <2>2, <4>1
      <4>. QED BY <3>1, <4>2, Names DEF Pub, OpenIsSent
    <3>2. CASE ~(held \in PN /\ held[1] = f) /\ held # None
      <4>1. held' = held /\ temp[held] # Missing
        BY <1>3, <3>2 DEF Inv, Held
      <4>2. held \in PN => held[1] # g
        BY <1>1, <4>1 DEF Inv, Housed
      <4>3. temp'[held] = temp[held]
        BY <1>1, <2>2, <3>2, <4>2
      <4>. QED BY <4>1, <4>3 DEF Pub, OpenIsSent
    <3>3. CASE held = None
      BY <1>3, <3>3, Names DEF OpenIsSent
    <3>. QED BY <3>1, <3>2, <3>3
  <2>4. ASSUME ~excused' PROVE CleanTemps' /\ CleanFiles'
    <3>1. CleanTemps /\ CleanFiles
      BY <1>1, <2>4 DEF Pub, Clean
    <3>2. CleanTemps'
      BY <2>1, <3>1 DEF CleanTemps
    <3>3. ASSUME NEW n \in PN, final'[n] # Missing
          PROVE  OneImage(final'[n])
      BY <1>1, <2>1, <3>1, <3>3 DEF CleanFiles
    <3>. QED BY <3>2, <3>3 DEF CleanFiles, OneImage
  <2>. QED BY <1>1, <2>3, <2>4 DEF Pub, Apart, Clean, Quiet
<1>. QED BY <1>2, <1>3 DEF DirRenameExec

LEMMA PubStep == Inv /\ Pub /\ [Next]_vars => Pub'
<1> SUFFICES ASSUME Inv, Pub, [Next]_vars PROVE Pub'
  OBVIOUS
<1>1. CASE SYXRequest
  <2>1. PNRequest
    BY <1>1 DEF SYXRequest
  <2>2. ASSUME NEW t \in Tab, Chunk(t) \/ Finish(t) \/ \E n \in PN : Begin(t, n)
        PROVE  Pub'
    BY <2>2, PubChunk, PubFinish, PubBegin
  <2>3. ASSUME NEW f \in Folder, NEW g \in Folder, DirRenameExec(f, g)
        PROVE  Pub'
    BY <2>3, PubDirRename
  <2>. QED BY <2>1, <2>2, <2>3, PubCopy, PubMove DEF PNRequest
<1>2. CASE UNCHANGED vars
  BY <1>2 DEF vars, disk, tftp, pn, Pub, OpenIsSent, Apart, Clean, CleanTemps,
              CleanFiles, Quiet, OneImage
<1>. QED BY <1>1, <1>2, PubTFTP, PubMaintenance, PubPowerCycle DEF Next

(* What is published, or copied, is one image from end to end.              *)
THEOREM WholeFiles == Spec => []PublishedWhole
<1>1. Inv /\ Pub => PublishedWhole
  BY DEF Pub, Clean, CleanFiles, OneImage, PublishedWhole
<1>. QED BY InvInit, InvStep, PubInit, PubStep, <1>1, PTL DEF Spec

----------------------------------------------------------------------------
(* The folders. Every action of NetFiles is a step of SyxFolders or changes  *)
(* nothing that it shows.                                                   *)

(* The handle of a SYX upload is never that of a stage file, and a copy in  *)
(* progress has its source and an empty target.                             *)
Handle ==
  file \in {"write", "failed"} /\ target \in PN => held \in PN \cup {None}
Source ==
  ~Quiet => /\ Exists(copy[1]) /\ Elsewhere(copy[1], copy[2])
            /\ final[copy[2]] = [final[copy[1]] EXCEPT !.size = 0]
Kept == Handle /\ Source

(* Nothing that the folders show has changed.                               *)
Stay == UNCHANGED <<OnCard, dirs, copy, Sending, Adrift>>

LEMMA Stays == ASSUME Stay PROVE Folders!Step
BY DEF Stay, Folders!Step

(* What may happen while nothing is copied.                                 *)
LEMMA Requests ==
  ASSUME Quiet, copy' = copy, Folders!Request
  PROVE  Folders!Step
BY DEF Folders!Step

LEMMA SameNames ==
  /\ Folders!PN = PN /\ Folders!Sender = Tab \cup {Sent}
  /\ Sent \notin Tab /\ None \notin PN
BY Names, PNAssumption DEF Folders!PN, PN, Folders!Sender

LEMMA View ==
  /\ Quiet => OnCard = [n \in PN |-> final[n]]
  /\ Quiet' => OnCard' = [n \in PN |-> final'[n]]
  /\ ~Quiet => OnCard = [n \in PN |-> IF n = copy[2] THEN Missing ELSE final[n]]
<1>1. Quiet => OnCard = [n \in PN |-> final[n]]
  BY DEF OnCard
<1>2. Quiet' => OnCard' = [n \in PN |-> final'[n]]
  BY DEF OnCard
<1>3. ~Quiet => OnCard = [n \in PN |-> IF n = copy[2] THEN Missing ELSE final[n]]
  BY DEF OnCard
<1>. QED BY <1>1, <1>2, <1>3

LEMMA SameView ==
  ASSUME copy' = copy, \A n \in PN : final'[n] = final[n]
  PROVE  OnCard' = OnCard
<1>1. Quiet' <=> Quiet
  BY DEF Quiet
<1>. QED BY <1>1 DEF OnCard

(* Who sends what.                                                          *)
LEMMA SameSender ==
  ASSUME UNCHANGED <<at, file, target>> PROVE Sending' = Sending
BY DEF Sending

LEMMA PageSends ==
  ASSUME Inv, NEW t \in Tab, NEW n, at' = [at EXCEPT ![t] = n],
         UNCHANGED <<file, target>>
  PROVE  Sending[t] = at[t] /\ Sending' = [Sending EXCEPT ![t] = n]
<1>1. at \in [Tab -> PN \cup {None}]
  BY DEF Inv, TypeOK, PNTypeOK
<1>. QED BY <1>1, SameNames DEF Sending

LEMMA DaemonSends ==
  ASSUME at' = at
  PROVE  /\ Sending[Sent] = IF file \in {"write", "failed"} /\ target \in PN
                              THEN target ELSE None
         /\ Sending' = [Sending EXCEPT ![Sent] =
                          IF file' \in {"write", "failed"} /\ target' \in PN
                            THEN target' ELSE None]
<1>. DEFINE new == IF file' \in {"write", "failed"} /\ target' \in PN
                     THEN target' ELSE None
<1>1. Sending' = [u \in Tab \cup {Sent} |-> IF u # Sent THEN at[u] ELSE new]
  BY DEF Sending
<1>2. Sending[Sent] = IF file \in {"write", "failed"} /\ target \in PN
                        THEN target ELSE None
  BY DEF Sending
<1>. HIDE DEF new
<1>3. Sending' = [Sending EXCEPT ![Sent] = new]
  BY <1>1 DEF Sending
<1>. QED BY <1>2, <1>3 DEF new

(* Whatever a page does to the temp files.                                  *)
LEMMA Suffers ==
  ASSUME UNCHANGED <<file, target>>, held' = held \/ held' = None
  PROVE  Adrift' \in {Adrift, Sending[Sent] # None}
<1>1. Sending[Sent] # None <=> file \in {"write", "failed"} /\ target \in PN
  BY SameNames DEF Sending
<1>2. CASE held' = held
  BY <1>2 DEF Adrift, Lost
<1>3. CASE held' = None
  <2>1. Adrift' = (file \in {"write", "failed"} /\ target \in PN)
    BY <1>3 DEF Adrift, Lost
  <2>. QED BY <1>1, <2>1
<1>. QED BY <1>2, <1>3

----------------------------------------------------------------------------
(* The upload page.                                                         *)

LEMMA BeginIsAnnounce ==
  ASSUME Inv, NEW t \in Tab, NEW n \in PN, Begin(t, n)
  PROVE  Folders!Step
<1>1. /\ at[t] = None /\ n[1] # RolandPN /\ n[1] \in dirs /\ final[n] = Missing /\ Quiet
      /\ UNCHANGED <<final, file, target, dirs, copy>>
      /\ held' = held \/ held' = None
      /\ at' = [at EXCEPT ![t] = n] \/ (at' = at /\ Fault)
  BY DEF Begin, Free, Snatch, session
<1>2. OnCard' = OnCard /\ OnCard[n] = Missing
  BY <1>1, SameView, View
<1>3. at \in [Tab -> PN \cup {None}]
  BY DEF Inv, TypeOK, PNTypeOK
<1>4. Folders!Suffers
  BY <1>1, Suffers DEF Folders!Suffers
<1>5. Sending[t] = None
  BY <1>1, SameNames DEF Sending
<1>6. Sending' = [Sending EXCEPT ![t] = n] \/ (Sending' = Sending /\ faults' = faults + 1)
  BY <1>1, PageSends, SameSender DEF Fault
<1>7. Folders!Announce(t, n)
  BY <1>1, <1>2, <1>4, <1>5, <1>6, SameNames DEF Folders!Announce, Folders!Free
<1>8. Folders!Request
  BY <1>1, <1>7, SameNames DEF Folders!Request, Quiet
<1>. QED BY <1>1, <1>8, Requests

LEMMA StopIsGiveUp ==
  ASSUME Inv, NEW t \in Tab, at[t] # None, Stop(t), UNCHANGED <<file, target, dirs, copy>>,
         held' = held \/ held' = None
  PROVE  /\ Folders!Done(t) /\ Sending[t] = at[t]
         /\ OnCard' = OnCard => Folders!Step
<1>1. Sending' = [Sending EXCEPT ![t] = None] /\ Sending[t] = at[t]
  BY PageSends DEF Stop
<1>2. Folders!Suffers
  BY Suffers DEF Folders!Suffers
<1>3. Folders!Done(t)
  BY <1>1, <1>2, SameNames DEF Folders!Done
<1>. QED BY <1>1, <1>3, SameNames DEF Folders!Step, Folders!GiveUp

LEMMA ChunkIsCollect ==
  ASSUME Inv, NEW t \in Tab, Chunk(t)
  PROVE  Folders!Step
<1>1. /\ at[t] # None /\ Quiet /\ UNCHANGED <<final, file, target, dirs, copy>>
      /\ held' = held \/ held' = None
      /\ Stop(t) \/ at' = at
  BY DEF Chunk, Snatch, Proceed, session
<1>2. OnCard' = OnCard
  BY <1>1, SameView
<1>3. CASE Stop(t)
  BY <1>1, <1>2, <1>3, StopIsGiveUp
<1>4. CASE at' = at
  <2>1. Sending' = Sending /\ Sending[t] # None
    BY <1>1, <1>4, SameSender, SameNames DEF Sending
  <2>2. Folders!Suffers
    BY <1>1, Suffers DEF Folders!Suffers
  <2>3. Folders!Collect(t)
    BY <1>1, <1>2, <2>1, <2>2 DEF Folders!Collect
  <2>4. Folders!Request
    BY <1>1, <2>3 DEF Folders!Request, Quiet
  <2>. QED BY <1>1, <2>4, Requests
<1>. QED BY <1>1, <1>3, <1>4

LEMMA FinishIsPublish ==
  ASSUME Inv, NEW t \in Tab, Finish(t)
  PROVE  Folders!Step
<1>1. /\ at[t] # None /\ Stop(t) /\ Quiet /\ UNCHANGED <<file, target, dirs, copy>>
      /\ held' = held \/ held' = None
  BY DEF Finish, Snatch, session
<1>2. /\ at[t] \in PN /\ final \in [Name -> Content] /\ temp \in [Name -> Content]
      /\ Parts \in Blocks
  BY <1>1, PNAssumption, TFTPAssumption
     DEF Inv, TypeOK, PNTypeOK, TFTPTypeOK, Blocks
<1>3. CASE final' = final
  <2>1. OnCard' = OnCard
    BY <1>1, <1>3, SameView
  <2>. QED BY <1>1, <2>1, StopIsGiveUp
<1>4. CASE /\ at[t][1] \in dirs /\ temp[at[t]] # Missing /\ final[at[t]] = Missing
           /\ final' = [final EXCEPT ![at[t]] = [temp[at[t]] EXCEPT !.size = Parts]]
  <2>. DEFINE n == at[t]  c == [temp[n] EXCEPT !.size = Parts]
  <2>1. c \in File /\ c \in Content \ {Missing}
    <3>1. temp[n] \in File
      BY <1>2, <1>4, Names, Files
    <3>. QED BY <1>2, <3>1, Files
  <2>2. Quiet'
    BY <1>1 DEF Quiet
  <2>. HIDE DEF c
  <2>3. OnCard' = [OnCard EXCEPT ![n] = c] /\ OnCard[n] = Missing
    <3>1. final' = [final EXCEPT ![n] = c]
      BY <1>4 DEF c
    <3>. QED BY <1>1, <1>2, <1>4, <2>2, <3>1, View, Names
  <2>4. Folders!Done(t) /\ Sending[t] = n
    BY <1>1, StopIsGiveUp
  <2>5. Folders!Publish(t)
    BY <1>4, <2>1, <2>3, <2>4 DEF Folders!Publish, Folders!Free, Folders!With
  <2>6. Folders!Request
    BY <1>1, <2>5, SameNames DEF Folders!Request, Quiet
  <2>. QED BY <1>1, <2>6, Requests
<1>. QED BY <1>3, <1>4 DEF Finish, disk

LEMMA LeaveIsGiveUp ==
  ASSUME Inv, NEW t \in Tab, Leave(t)
  PROVE  Folders!Step
<1>1. /\ at[t] # None /\ Stop(t) /\ UNCHANGED <<final, file, target, dirs, copy, held>>
  BY DEF Leave, disk, tftp
<1>2. OnCard' = OnCard
  BY <1>1, SameView
<1>. QED BY <1>1, <1>2, StopIsGiveUp

----------------------------------------------------------------------------
(* The files and folders.                                                   *)

(* A file or folder is changed, and no upload.                              *)
LEMMA NoUpload ==
  ASSUME UNCHANGED <<at, file, target>>, held' = None <=> held = None
  PROVE  UNCHANGED <<Sending, Adrift>>
BY DEF Sending, Adrift, Lost

LEMMA ViewCopying ==
  ASSUME ~Quiet', NEW d, copy'[2] = d
  PROVE  OnCard' = [n \in PN |-> IF n = d THEN Missing ELSE final'[n]]
BY DEF OnCard

LEMMA CopyExecIsCopy ==
  ASSUME Inv, NEW s \in PN, NEW d \in PN, CopyExec(s, d)
  PROVE  Folders!Step
<1>1. /\ Quiet /\ final[d] = Missing /\ final[s] # Missing
      /\ s[1] \in dirs /\ d[1] \in dirs /\ Elsewhere(s, d)
      /\ UNCHANGED <<file, target, held, dirs, at>>
  BY DEF CopyExec, Exists, Free, session
<1>2. UNCHANGED <<Sending, Adrift>>
  BY <1>1, NoUpload
<1>3. OnCard' = OnCard
  <2>1. CASE UNCHANGED <<final, copy>>
    BY <2>1, SameView
  <2>2. CASE /\ final' = [final EXCEPT ![d] = [final[s] EXCEPT !.size = 0]]
             /\ copy' = <<s, d>>
    <3>1. ~Quiet' /\ copy'[2] = d
      BY <2>2 DEF Quiet
    <3>2. \A n \in PN : n # d => final'[n] = final[n]
      BY <2>2
    <3>. QED BY <1>1, <3>1, <3>2, View, ViewCopying
  <2>. QED BY <2>1, <2>2 DEF CopyExec
<1>4. CASE copy' = copy
  BY <1>1, <1>2, <1>3, <1>4, Stays DEF Stay
<1>5. CASE copy' = <<s, d>>
  <2>1. OnCard[s] # Missing /\ OnCard[d] = Missing
    BY <1>1, View
  <2>2. Folders!Copy(s, d)
    BY <1>1, <1>3, <1>5, <2>1
       DEF Folders!Copy, Folders!Exists, Folders!Free, Folders!Elsewhere, Elsewhere, Quiet
  <2>. QED BY <1>1, <1>2, <2>2, SameNames DEF Folders!Step
<1>. QED BY <1>4, <1>5 DEF CopyExec

(* What a copy in progress shows.                                           *)
LEMMA Midway ==
  ASSUME Inv, Source, ~Quiet
  PROVE  /\ copy[1] \in PN /\ copy[2] \in PN /\ copy[1] # copy[2]
         /\ Elsewhere(copy[1], copy[2]) /\ copy[1][1] \in dirs /\ copy[2][1] \in dirs
         /\ OnCard[copy[1]] = final[copy[1]] /\ final[copy[1]] \in File
         /\ final[copy[2]] = [final[copy[1]] EXCEPT !.size = 0]
         /\ OnCard[copy[2]] = Missing /\ final[copy[1]] # Missing
         /\ OnCard = [n \in PN |-> IF n = copy[2] THEN Missing ELSE final[n]]
<1>1. copy \in PN \X PN
  BY DEF Inv, TypeOK, PNTypeOK, Quiet
<1>2. copy[1] \in PN /\ copy[2] \in PN
  BY <1>1
<1>3. /\ copy[1][1] \in dirs /\ copy[2][1] \in dirs /\ final[copy[1]] # Missing
      /\ Elsewhere(copy[1], copy[2]) /\ copy[1] # copy[2]
      /\ final[copy[2]] = [final[copy[1]] EXCEPT !.size = 0]
  BY DEF Source, Exists, Inv, Copying, Elsewhere
<1>4. final[copy[1]] \in File
  BY <1>2, <1>3, Names, Files DEF Inv, TypeOK, TFTPTypeOK
<1>5. OnCard = [n \in PN |-> IF n = copy[2] THEN Missing ELSE final[n]]
  BY View
<1>. QED BY <1>2, <1>3, <1>4, <1>5

LEMMA ContentsIsEnd ==
  ASSUME Inv, Source, CopyContents
  PROVE  Folders!Step
<1>1. ~Quiet /\ UNCHANGED <<file, target, held, dirs, at>>
  BY DEF CopyContents, tftp
<1>2. UNCHANGED <<Sending, Adrift>>
  BY <1>1, NoUpload
<1>3. CASE UNCHANGED <<final, copy>>
  BY <1>1, <1>2, <1>3, SameView, Stays DEF Stay
<1>4. CASE /\ final' = [final EXCEPT ![copy[2]] = final[copy[1]]]
           /\ copy' = <<>>
  <2>. DEFINE s == copy[1]  d == copy[2]
  <2>1. /\ s \in PN /\ d \in PN /\ Elsewhere(s, d) /\ s[1] \in dirs /\ d[1] \in dirs
        /\ OnCard[s] = final[s] /\ final[s] # Missing /\ OnCard[d] = Missing
        /\ OnCard = [n \in PN |-> IF n = d THEN Missing ELSE final[n]]
    BY <1>1, Midway
  <2>2. final' = [final EXCEPT ![d] = final[s]] /\ Quiet'
    BY <1>4 DEF Quiet
  <2>3. final \in [Name -> Content]
    BY DEF Inv, TypeOK, TFTPTypeOK
  <2>. HIDE DEF s, d
  <2>4. OnCard' = [OnCard EXCEPT ![d] = OnCard[s]]
    BY <2>1, <2>2, <2>3, View, Names
  <2>5. Folders!CopyEnds
    BY <1>1, <1>4, <2>4 DEF Folders!CopyEnds, Folders!With, Quiet, s, d
  <2>. QED BY <1>1, <1>2, <2>5 DEF Folders!Step
<1>. QED BY <1>3, <1>4 DEF CopyContents

(* Whatever ends a copy half way.                                           *)
LEMMA HalfIsStub ==
  ASSUME Inv, Source, ~Quiet, Quiet', final' = final
  PROVE  Folders!Stub
<1>. DEFINE s == copy[1]  d == copy[2]  c == [final[s] EXCEPT !.size = 0]
<1>1. /\ s \in PN /\ d \in PN /\ Elsewhere(s, d) /\ s[1] \in dirs /\ d[1] \in dirs
      /\ OnCard[s] = final[s] /\ final[s] # Missing /\ OnCard[d] = Missing
      /\ OnCard = [n \in PN |-> IF n = d THEN Missing ELSE final[n]]
      /\ final[d] = c
  BY Midway
<1>2. [OnCard[s] EXCEPT !.size = 0] = c
  BY <1>1
<1>. HIDE DEF s, d, c
<1>3. OnCard' = [OnCard EXCEPT ![d] = c]
  BY <1>1, View
<1>4. OnCard' = [OnCard EXCEPT ![d] = [OnCard[s] EXCEPT !.size = 0]]
  BY <1>2, <1>3
<1>. QED BY <1>4 DEF Folders!Stub, Folders!With, Quiet, s, d

LEMMA UndoIsCut ==
  ASSUME Inv, Source, CopyUndo
  PROVE  Folders!Step \/ (Folders!Cut /\ Fault)
<1>1. ~Quiet /\ Quiet' /\ UNCHANGED <<file, target, held, dirs, at>>
  BY DEF CopyUndo, tftp, Quiet, Inv, Copying
<1>2. UNCHANGED <<Sending, Adrift>>
  BY <1>1, NoUpload
<1>3. CASE final' = [final EXCEPT ![copy[2]] = Missing]
  <2>1. /\ copy[2] \in PN
        /\ OnCard = [n \in PN |-> IF n = copy[2] THEN Missing ELSE final[n]]
    BY <1>1, Midway
  <2>2. final \in [Name -> Content]
    BY DEF Inv, TypeOK, TFTPTypeOK
  <2>3. OnCard' = OnCard
    BY <1>1, <1>3, <2>1, <2>2, View, Names
  <2>4. Folders!CopyEnds
    BY <1>1, <2>3 DEF Folders!CopyEnds, Quiet
  <2>. QED BY <1>1, <1>2, <2>4 DEF Folders!Step
<1>4. CASE final' = final /\ Fault
  BY <1>1, <1>2, <1>4, HalfIsStub DEF Folders!Cut, Quiet
<1>. QED BY <1>3, <1>4 DEF CopyUndo

LEMMA MoveIsMove ==
  ASSUME Inv, NEW s \in PN, NEW d \in PN, MoveExec(s, d) \/ RenameExec(s, d)
  PROVE  Folders!Step
<1>1. /\ Quiet /\ Quiet' /\ final[s] # Missing /\ final[d] = Missing
      /\ s[1] \in dirs /\ d[1] \in dirs /\ (Elsewhere(s, d) \/ Renamed(s, d))
      /\ UNCHANGED <<file, target, held, dirs, at, copy>>
      /\ \/ final' = [final EXCEPT ![d] = final[s], ![s] = Missing]
         \/ final' = final
  BY DEF MoveExec, RenameExec, MoveFile, Exists, Free, Quiet, tftp, pn
<1>2. UNCHANGED <<Sending, Adrift>>
  BY <1>1, NoUpload
<1>3. CASE final' = final
  BY <1>1, <1>2, <1>3, SameView, Stays DEF Stay
<1>4. CASE final' = [final EXCEPT ![d] = final[s], ![s] = Missing]
  <2>1. final \in [Name -> Content]
    BY DEF Inv, TypeOK, TFTPTypeOK
  <2>2. OnCard' = [OnCard EXCEPT ![d] = OnCard[s], ![s] = Missing]
    BY <1>1, <1>4, <2>1, View, Names
  <2>3. OnCard[s] # Missing /\ OnCard[d] = Missing
    BY <1>1, View
  <2>4. Folders!Move(s, d)
    BY <1>1, <2>2, <2>3
       DEF Folders!Move, Folders!Exists, Folders!Free, Folders!Elsewhere,
           Folders!Renamed, Elsewhere, Renamed
  <2>5. Folders!Request
    BY <1>1, <1>2, <2>4, SameNames DEF Folders!Request, Folders!FileRequest, Quiet
  <2>. QED BY <1>1, <2>5, Requests
<1>. QED BY <1>1, <1>3, <1>4

LEMMA DeleteIsDelete ==
  ASSUME Inv, NEW n \in PN, DeleteExec(n)
  PROVE  Folders!Step
<1>1. /\ Quiet /\ Quiet' /\ final[n] # Missing /\ n[1] \in dirs
      /\ UNCHANGED <<file, target, held, dirs, at, copy>>
      /\ final' = [final EXCEPT ![n] = Missing] \/ final' = final
  BY DEF DeleteExec, Exists, Quiet, tftp, pn
<1>2. UNCHANGED <<Sending, Adrift>>
  BY <1>1, NoUpload
<1>3. CASE final' = final
  BY <1>1, <1>2, <1>3, SameView, Stays DEF Stay
<1>4. CASE final' = [final EXCEPT ![n] = Missing]
  <2>1. final \in [Name -> Content]
    BY DEF Inv, TypeOK, TFTPTypeOK
  <2>2. OnCard' = [OnCard EXCEPT ![n] = Missing] /\ OnCard[n] # Missing
    BY <1>1, <1>4, <2>1, View, Names
  <2>3. Folders!Delete(n)
    BY <1>1, <2>2 DEF Folders!Delete, Folders!Exists, Folders!With
  <2>4. Folders!Request
    BY <1>1, <1>2, <2>3, SameNames DEF Folders!Request, Folders!FileRequest, Quiet
  <2>. QED BY <1>1, <2>4, Requests
<1>. QED BY <1>1, <1>3, <1>4

LEMMA DirIsDir ==
  ASSUME Inv, NEW f \in Folder, DirCreateExec(f) \/ DirDeleteExec(f)
  PROVE  Folders!Step
<1>1. /\ Quiet /\ UNCHANGED <<final, file, target, held, at, copy>>
      /\ f # RolandPN
      /\ \/ dirs' = dirs
         \/ f \notin dirs /\ dirs' = dirs \cup {f}
         \/ /\ f \in dirs /\ dirs' = dirs \ {f}
            /\ \A n \in PN : n[1] = f => final[n] = Missing
  BY DEF DirCreateExec, DirDeleteExec, NewFolder, disk, tftp
<1>2. UNCHANGED <<Sending, Adrift>> /\ OnCard' = OnCard
  BY <1>1, NoUpload, SameView
<1>3. CASE dirs' = dirs
  BY <1>1, <1>2, <1>3, Stays DEF Stay
<1>4. CASE dirs' # dirs
  <2>1. OnCard = [n \in PN |-> final[n]]
    BY <1>1, View
  <2>2. Folders!Create(f) \/ Folders!DeleteDir(f)
    BY <1>1, <1>4, <2>1, SameNames DEF Folders!Create, Folders!DeleteDir
  <2>3. Folders!Request
    BY <1>1, <1>2, <2>2 DEF Folders!Request, Folders!DirRequest, Quiet
  <2>. QED BY <1>1, <2>3, Requests
<1>. QED BY <1>3, <1>4

LEMMA DirRenameIsRenameDir ==
  ASSUME Inv, NEW f \in Folder, NEW g \in Folder, DirRenameExec(f, g)
  PROVE  Folders!Step
<1>1. /\ Quiet /\ Quiet' /\ UNCHANGED <<file, target, at, copy>>
      /\ f # RolandPN /\ f \in dirs /\ g # RolandPN /\ g \notin dirs
      /\ final \in [Name -> Content]
  BY DEF DirRenameExec, NewFolder, session, Quiet, Inv, TypeOK, TFTPTypeOK
<1>2. CASE UNCHANGED <<dirs, disk, held>>
  <2>1. UNCHANGED <<final, held, dirs>>
    BY <1>2 DEF disk
  <2>. QED BY <1>1, <2>1, NoUpload, SameView, Stays DEF Stay
<1>3. CASE /\ dirs' = (dirs \ {f}) \cup {g}
           /\ final' = Carried(final, f, g)
           /\ held' = IF held \in PN /\ held[1] = f THEN <<g, held[2]>> ELSE held
  <2>1. held' = None <=> held = None
    <3>1. CASE held \in PN /\ held[1] = f
      <4>1. <<g, held[2]>> \in PN
        BY <3>1 DEF PN
      <4>. QED BY <1>3, <3>1, <4>1, SameNames
    <3>. QED BY <1>3, <3>1
  <2>2. UNCHANGED <<Sending, Adrift>>
    BY <1>1, <2>1, NoUpload
  <2>3. /\ \A n \in PN : n[1] = f => final'[n] = Missing
        /\ \A n \in PN : n[1] = g => final'[n] = final[<<f, n[2]>>]
        /\ \A n \in PN : n[1] \notin {f, g} => final'[n] = final[n]
    <3>1. f # g
      BY <1>1
    <3>. QED BY <1>1, <1>3, <3>1, CarriedFiles
  <2>4. \A n \in PN : <<f, n[2]>> \in PN
    BY DEF PN
  <2>5. OnCard' = [n \in PN |-> IF n[1] = f THEN Missing
                                ELSE IF n[1] = g THEN OnCard[<<f, n[2]>>] ELSE OnCard[n]]
    BY <1>1, <2>3, <2>4, View
  <2>6. Folders!RenameDir(f, g)
    BY <1>1, <1>3, <2>5, SameNames DEF Folders!RenameDir
  <2>7. Folders!Request
    BY <1>1, <2>2, <2>6 DEF Folders!Request, Folders!DirRequest, Quiet
  <2>. QED BY <1>1, <2>7, Requests
<1>. QED BY <1>2, <1>3 DEF DirRenameExec

----------------------------------------------------------------------------
(* The daemon, the maintenance pages, the power.                            *)

(* No SYX upload before and after.                                          *)
LEMMA NothingSent ==
  ASSUME at' = at, ~(file \in {"write", "failed"} /\ target \in PN),
         ~(file' \in {"write", "failed"} /\ target' \in PN)
  PROVE  UNCHANGED <<Sending, Adrift>>
BY DEF Sending, Adrift, Lost

LEMMA OpenIsSilent ==
  ASSUME Inv, NEW n \in Served, FileOpen(n), UNCHANGED <<dirs, at, copy>>
  PROVE  Folders!Step
<1>1. file = "none" /\ file' \in {"none", "read"} /\ final' = final
  BY DEF FileOpen, FileOpenFails, FileOpens, disk
<1>2. UNCHANGED <<Sending, Adrift>> /\ OnCard' = OnCard
  BY <1>1, NothingSent, SameView
<1>. QED BY <1>2, Stays DEF Stay

LEMMA CreateIsAnnounce ==
  ASSUME Inv, NEW n \in Served, FileCreate(n), Quiet, UNCHANGED <<dirs, at, copy>>
  PROVE  Folders!Step
<1>1. n \in Name /\ KindOf[n] # "protected" /\ (n \in PN => n[1] \in dirs)
  BY ServedNames DEF Remote
<1>2. /\ file = "none" /\ final' = final
      /\ \/ file' = "none"
         \/ /\ file' = "write" /\ target' = n /\ held' = n
            /\ n \in PN => final[n] = Missing
  BY Names DEF FileCreate, Refuse, CreateTemp, CreateStage, Reset, disk
<1>3. OnCard' = OnCard
  BY <1>2, SameView
<1>4. CASE file' = "none" \/ n \notin PN
  <2>1. UNCHANGED <<Sending, Adrift>>
    BY <1>2, <1>4, NothingSent
  <2>. QED BY <1>3, <2>1, Stays DEF Stay
<1>5. CASE file' = "write" /\ target' = n /\ n \in PN
  <2>1. Sending[Sent] = None /\ Sending' = [Sending EXCEPT ![Sent] = n]
    BY <1>2, <1>5, DaemonSends
  <2>2. Adrift' = Adrift
    <3>1. ~Lost /\ ~Lost'
      BY <1>1, <1>2, <1>5, Names DEF Lost
    <3>. QED BY <3>1 DEF Adrift
  <2>3. n[1] # RolandPN
    BY <1>1, <1>5, PNAssumption
  <2>4. n[1] \in dirs /\ OnCard[n] = Missing
    BY <1>1, <1>2, <1>5, View
  <2>5. Folders!Announce(Sent, n)
    BY <1>3, <2>1, <2>2, <2>3, <2>4 DEF Folders!Announce, Folders!Free
  <2>6. Folders!Request
    BY <1>5, <2>5, SameNames DEF Folders!Request, Quiet
  <2>. QED BY <2>6, Requests
<1>. QED BY <1>2, <1>4, <1>5

LEMMA WriteIsSpoil ==
  ASSUME Inv, FileWrite, Quiet, UNCHANGED <<dirs, at, copy>>
  PROVE  Folders!Step
<1>1. /\ file = "write" /\ file' \in {"write", "failed"}
      /\ UNCHANGED <<target, held>>
      /\ \/ final' = final
         \/ /\ Lost /\ final[target] # Missing
            /\ final' = [final EXCEPT ![target].img = Garbled]
  BY DEF FileWrite, WriteBlock, WriteShort, disk
<1>2. UNCHANGED <<Sending, Adrift>>
  BY <1>1 DEF Sending, Adrift, Lost
<1>3. final \in [Name -> Content] /\ Quiet'
  BY DEF Inv, TypeOK, TFTPTypeOK, Quiet
<1>4. CASE final' = final
  BY <1>2, <1>4, SameView, Stays DEF Stay
<1>5. CASE /\ Lost /\ final[target] # Missing
           /\ final' = [final EXCEPT ![target].img = Garbled]
  <2>. DEFINE c == [final[target] EXCEPT !.img = Garbled]
  <2>1. final' = [final EXCEPT ![target] = c]
    BY <1>5
  <2>. HIDE DEF c
  <2>2. CASE target \notin PN
    <3>1. \A n \in PN : final'[n] = final[n]
      BY <1>3, <2>1, <2>2, Names
    <3>. QED BY <1>2, <3>1, SameView, Stays DEF Stay
  <2>3. CASE target \in PN
    <3>1. Sending[Sent] = target /\ Adrift
      BY <1>1, <1>5, <2>3, DaemonSends DEF Adrift
    <3>2. OnCard[target] = final[target] /\ OnCard' = [OnCard EXCEPT ![target] = c]
      BY <1>3, <2>1, <2>3, View, Names
    <3>3. c = [OnCard[target] EXCEPT !.img = Garbled]
      BY <3>2 DEF c
    <3>4. target[1] \in dirs
      BY <1>5, <2>3 DEF Inv, Housed
    <3>5. OnCard' = [OnCard EXCEPT ![target] = [OnCard[target] EXCEPT !.img = Garbled]]
      BY <3>2, <3>3
    <3>6. Folders!Spoil
      BY <1>2, <1>5, <2>3, <3>1, <3>2, <3>4, <3>5, SameNames
         DEF Folders!Spoil, Folders!Exists, Folders!With
    <3>7. Folders!Request
      BY <3>6 DEF Folders!Request, Quiet
    <3>. QED BY <3>7, Requests
  <2>. QED BY <2>2, <2>3
<1>. QED BY <1>1, <1>4, <1>5

LEMMA CloseIsPublish ==
  ASSUME Inv, FileClose, Quiet, UNCHANGED <<dirs, at, copy>>
  PROVE  Folders!Step
<1>1. /\ final \in [Name -> Content] /\ temp \in [Name -> Content] /\ Quiet'
      /\ file' = "none"
  BY DEF Inv, TypeOK, TFTPTypeOK, Quiet, FileClose, CloseRead, CloseError, Publish,
         CloseStage, Reset
<1>2. \/ final' = final
      \/ /\ file \in {"write", "failed"} /\ final[target] = Missing
         /\ temp[target] # Missing
         /\ final' = [final EXCEPT ![target] = temp[target]]
  BY DEF FileClose, CloseRead, CloseError, Publish, CloseStage, disk
<1>3. CASE ~(file \in {"write", "failed"} /\ target \in PN)
  <2>1. UNCHANGED <<Sending, Adrift>>
    BY <1>1, <1>3, NothingSent
  <2>2. \A n \in PN : final'[n] = final[n]
    BY <1>1, <1>2, <1>3, Names
  <2>. QED BY <2>1, <2>2, SameView, Stays DEF Stay
<1>4. CASE file \in {"write", "failed"} /\ target \in PN
  <2>1. Sending[Sent] = target /\ Sending' = [Sending EXCEPT ![Sent] = None]
    BY <1>1, <1>4, DaemonSends
  <2>2. Adrift' = FALSE
    BY <1>1 DEF Adrift, Lost
  <2>3. Folders!Done(Sent)
    BY <1>4, <2>1, <2>2, SameNames DEF Folders!Done
  <2>4. CASE final' = final
    <3>1. OnCard' = OnCard
      BY <2>4, SameView
    <3>. QED BY <2>3, <3>1, SameNames DEF Folders!Step, Folders!GiveUp
  <2>5. CASE /\ final[target] = Missing /\ temp[target] # Missing
             /\ final' = [final EXCEPT ![target] = temp[target]]
    <3>1. /\ OnCard' = [OnCard EXCEPT ![target] = temp[target]]
          /\ OnCard[target] = Missing /\ temp[target] \in Content \ {Missing}
      BY <1>1, <1>4, <2>5, View, Names
    <3>2. target[1] \in dirs
      BY <1>4, <2>5 DEF Inv, Housed
    <3>3. Folders!Publish(Sent)
      BY <2>1, <2>3, <3>1, <3>2 DEF Folders!Publish, Folders!Free, Folders!With
    <3>4. Folders!Request
      BY <3>3, SameNames DEF Folders!Request, Quiet
    <3>. QED BY <3>4, Requests
  <2>. QED BY <1>2, <2>4, <2>5
<1>. QED BY <1>3, <1>4

LEMMA MaintenanceIsSilent ==
  ASSUME Inv, Handle, MaintenanceRequest
  PROVE  Folders!Step
<1>1. /\ UNCHANGED <<file, target>>
      /\ held' = held \/ (held \in Staged /\ held' = None)
  <2>1. CASE \E n \in Staged : ActivateExec(n) \/ BackupDeleteExec(n)
    BY <2>1 DEF ActivateExec, BackupDeleteExec, tftp
  <2>2. CASE RemoveBackup \/ SaveActive \/ RollBack
    BY <2>2 DEF RemoveBackup, SaveActive, RollBack, tftp
  <2>3. CASE PromoteStage
    <3>1. item \in Staged
      BY <2>3 DEF PromoteStage, Inv, Active
    <3>. QED BY <2>3, <3>1 DEF PromoteStage
  <2>. QED BY <2>1, <2>2, <2>3, Maintenance
<1>2. UNCHANGED <<dirs, at, copy>>
  BY DEF MaintenanceRequest, pn
<1>3. OnCard' = OnCard
  BY <1>2, MaintenanceSpares, SameView
<1>4. UNCHANGED <<Sending, Adrift>>
  <2>1. CASE held' = held
    BY <1>1, <1>2, <2>1, NoUpload
  <2>2. CASE held \in Staged
    <3>1. ~(file \in {"write", "failed"} /\ target \in PN)
      BY <2>2, Names DEF Handle
    <3>. QED BY <1>1, <1>2, <3>1, NothingSent
  <2>. QED BY <1>1, <2>1, <2>2
<1>. QED BY <1>2, <1>3, <1>4, Stays DEF Stay

LEMMA PowerIsRestart ==
  ASSUME Inv, Source, PowerCycle
  PROVE  Folders!Restart /\ Fault
<1>1. /\ Fault /\ final' = final /\ Quiet' /\ UNCHANGED <<dirs, at>>
      /\ file' = "none" /\ target' = None
  BY DEF PowerCycle, Reset, Quiet
<1>2. Sending' = [Sending EXCEPT ![Sent] = None] /\ Adrift' = FALSE
  BY <1>1, DaemonSends DEF Adrift, Lost
<1>3. Folders!Stub \/ OnCard' = OnCard
  <2>1. CASE Quiet
    BY <1>1, <2>1, View
  <2>2. CASE ~Quiet
    BY <1>1, <2>2, HalfIsStub
  <2>. QED BY <2>1, <2>2
<1>. QED BY <1>1, <1>2, <1>3 DEF Folders!Restart, Quiet

----------------------------------------------------------------------------
(* The handle and the copy.                                                 *)

LEMMA KeptFrame ==
  ASSUME Kept, UNCHANGED <<file, target, held, copy, final, dirs>>
  PROVE  Kept'
BY DEF Kept, Handle, Source, Quiet, Exists

LEMMA KeptQuiet ==
  ASSUME Kept, Quiet', UNCHANGED <<file, target>>,
         held' = held \/ held' \in PN \cup {None}
  PROVE  Kept'
BY DEF Kept, Handle, Source

LEMMA KeptSYX ==
  ASSUME Inv, Kept, SYXRequest
  PROVE  Kept'
<1>1. ASSUME NEW t \in Tab, Chunk(t) \/ Finish(t) \/ \E n \in PN : Begin(t, n)
      PROVE  Kept'
  BY <1>1, KeptQuiet DEF Chunk, Finish, Begin, Snatch, session, Quiet
<1>2. ASSUME NEW t \in Tab, Leave(t) PROVE Kept'
  BY <1>2, KeptFrame DEF Leave, tftp, disk
<1>3. ASSUME NEW s \in PN, NEW d \in PN, CopyExec(s, d) PROVE Kept'
  <2>1. /\ Exists(s) /\ Elsewhere(s, d) /\ Quiet
        /\ final \in [Name -> Content] /\ UNCHANGED <<file, target, held, dirs>>
    BY <1>3 DEF CopyExec, session, Inv, TypeOK, TFTPTypeOK
  <2>2. CASE UNCHANGED <<final, copy>>
    BY <2>1, <2>2, KeptFrame
  <2>3. CASE /\ final' = [final EXCEPT ![d] = [final[s] EXCEPT !.size = 0]]
             /\ copy' = <<s, d>>
    <3>. DEFINE c == [final[s] EXCEPT !.size = 0]
    <3>1. final' = [final EXCEPT ![d] = c] /\ copy'[1] = s /\ copy'[2] = d
      BY <2>3
    <3>. HIDE DEF c
    <3>2. final'[d] = c /\ final'[s] = final[s] /\ s # d
      BY <2>1, <3>1, Names DEF Elsewhere
    <3>3. final'[d] = [final'[s] EXCEPT !.size = 0]
      BY <3>2 DEF c
    <3>4. Source'
      BY <2>1, <3>1, <3>2, <3>3 DEF Source, Exists, Elsewhere
    <3>. QED BY <2>1, <3>4 DEF Kept, Handle
  <2>. QED BY <1>3, <2>2, <2>3 DEF CopyExec
<1>4. ASSUME NEW s \in PN, NEW d \in PN, MoveExec(s, d) \/ RenameExec(s, d)
      PROVE  Kept'
  BY <1>4, KeptQuiet DEF MoveExec, RenameExec, MoveFile, tftp, pn, Quiet
<1>5. CASE CopyContents
  <2>1. UNCHANGED <<file, target, held, dirs>>
    BY <1>5 DEF CopyContents, tftp
  <2>2. (final' = final /\ copy' = copy) \/ Quiet'
    BY <1>5 DEF CopyContents, Quiet
  <2>. QED BY <2>1, <2>2, KeptFrame, KeptQuiet
<1>6. CASE CopyUndo
  BY <1>6, KeptQuiet DEF CopyUndo, tftp, Quiet
<1>7. ASSUME NEW n \in PN, DeleteExec(n) PROVE Kept'
  BY <1>7, KeptQuiet DEF DeleteExec, tftp, pn, Quiet
<1>8. ASSUME NEW f \in Folder, DirCreateExec(f) \/ DirDeleteExec(f) PROVE Kept'
  BY <1>8, KeptQuiet DEF DirCreateExec, DirDeleteExec, tftp, Quiet
<1>9. ASSUME NEW f \in Folder, NEW g \in Folder, DirRenameExec(f, g) PROVE Kept'
  <2>1. Quiet' /\ UNCHANGED <<file, target>>
    BY <1>9 DEF DirRenameExec, session, Quiet
  <2>2. held' = held \/ (held \in PN /\ held' = <<g, held[2]>>)
    BY <1>9 DEF DirRenameExec
  <2>3. held' = held \/ held' \in PN
    BY <2>2 DEF PN
  <2>. QED BY <2>1, <2>3, KeptQuiet
<1>. QED BY <1>1, <1>2, <1>3, <1>4, <1>5, <1>6, <1>7, <1>8, <1>9
     DEF SYXRequest, PNRequest

LEMMA KeptStep ==
  ASSUME Inv, Kept, [Next]_vars
  PROVE  Kept'
<1>1. CASE TFTPRequest
  <2>1. Quiet' /\ Source'
    BY <1>1 DEF TFTPRequest, Quiet, Source
  <2>2. Handle'
    <3>1. ASSUME NEW n \in Served, FileOpen(n) PROVE Handle'
      BY <3>1 DEF FileOpen, FileOpenFails, FileOpens, Handle
    <3>2. ASSUME NEW n \in Served, FileCreate(n) PROVE Handle'
      BY <3>2 DEF FileCreate, Refuse, CreateTemp, CreateStage, Reset, Handle
    <3>3. CASE FileWrite
      BY <3>3 DEF FileWrite, WriteBlock, WriteShort, Kept, Handle
    <3>4. CASE FileClose
      BY <3>4 DEF FileClose, CloseRead, CloseError, Publish, CloseStage, Reset, Handle
    <3>. QED BY <1>1, <3>1, <3>2, <3>3, <3>4 DEF TFTPRequest
  <2>. QED BY <2>1, <2>2 DEF Kept
<1>2. CASE MaintenanceRequest
  <2>1. UNCHANGED <<file, target, dirs, copy>> /\ (held' = held \/ held' = None)
    <3>1. UNCHANGED <<dirs, copy>>
      BY <1>2 DEF MaintenanceRequest, pn
    <3>2. UNCHANGED <<file, target>> /\ (held' = held \/ held' = None)
      BY <1>2, Maintenance DEF ActivateExec, BackupDeleteExec, RemoveBackup, SaveActive,
                               PromoteStage, RollBack, tftp
    <3>. QED BY <3>1, <3>2
  <2>2. Handle'
    BY <2>1 DEF Kept, Handle
  <2>3. Source'
    <3>1. CASE Quiet
      BY <2>1, <3>1 DEF Source, Quiet
    <3>2. CASE ~Quiet
      <4>1. /\ copy[1] \in PN /\ copy[2] \in PN
            /\ final[copy[2]] = [final[copy[1]] EXCEPT !.size = 0]
            /\ Exists(copy[1]) /\ Elsewhere(copy[1], copy[2])
        BY <3>2, Midway DEF Kept, Source
      <4>2. final'[copy[1]] = final[copy[1]] /\ final'[copy[2]] = final[copy[2]]
        BY <1>2, <4>1, MaintenanceSpares
      <4>3. final'[copy[2]] = [final'[copy[1]] EXCEPT !.size = 0]
        BY <4>1, <4>2
      <4>. QED BY <2>1, <4>1, <4>2, <4>3 DEF Source, Exists, Elsewhere
    <3>. QED BY <3>1, <3>2
  <2>. QED BY <2>2, <2>3 DEF Kept
<1>3. CASE SYXRequest
  BY <1>3, KeptSYX
<1>4. CASE PowerCycle
  BY <1>4 DEF PowerCycle, Reset, Quiet, Kept, Handle, Source
<1>5. CASE UNCHANGED vars
  BY <1>5, KeptFrame DEF vars, disk, tftp, pn
<1>. QED BY <1>1, <1>2, <1>3, <1>4, <1>5 DEF Next

----------------------------------------------------------------------------

LEMMA StepIsFolders ==
  ASSUME Inv, Kept, [Next]_vars
  PROVE  Folders!Next
<1>1. Fine \/ Fault
  <2>1. CASE TFTPRequest
    BY <2>1 DEF TFTPRequest, FileOpen, FileOpenFails, FileOpens, FileCreate,
                Refuse, CreateTemp, CreateStage, FileWrite, WriteBlock, WriteShort,
                FileClose, CloseRead, CloseError, Publish, CloseStage, Remove, Fine
  <2>2. CASE MaintenanceRequest
    BY <2>2, Maintenance
       DEF ActivateExec, BackupDeleteExec, RemoveBackup, SaveActive, PromoteStage,
           RollBack, Fine
  <2>3. CASE SYXRequest
    BY <2>3 DEF SYXRequest, PNRequest, Chunk, Finish, Leave, Begin, CopyExec, MoveExec,
                RenameExec, MoveFile, CopyContents, CopyUndo, DeleteExec, DirCreateExec,
                DirDeleteExec, DirRenameExec, Fine
  <2>4. CASE PowerCycle \/ UNCHANGED vars
    BY <2>4 DEF PowerCycle, vars, Fine
  <2>. QED BY <2>1, <2>2, <2>3, <2>4 DEF Next
<1>2. Folders!Step \/ ((Folders!Cut \/ Folders!Restart) /\ Fault)
  <2>1. CASE TFTPRequest
    BY <2>1, OpenIsSilent, CreateIsAnnounce, WriteIsSpoil, CloseIsPublish
       DEF TFTPRequest
  <2>2. CASE MaintenanceRequest
    BY <2>2, MaintenanceIsSilent DEF Kept
  <2>3. CASE SYXRequest
    BY <2>3, ChunkIsCollect, FinishIsPublish, LeaveIsGiveUp, BeginIsAnnounce,
       CopyExecIsCopy, MoveIsMove, ContentsIsEnd, UndoIsCut, DeleteIsDelete,
       DirIsDir, DirRenameIsRenameDir
       DEF SYXRequest, PNRequest, Kept
  <2>4. CASE PowerCycle
    BY <2>4, PowerIsRestart DEF Kept
  <2>5. CASE UNCHANGED vars
    <3>1. UNCHANGED <<final, dirs, at, copy, file, target, held>>
      BY <2>5 DEF vars, disk, tftp, pn
    <3>. QED BY <3>1, NoUpload, SameView, Stays DEF Stay
  <2>. QED BY <2>1, <2>2, <2>3, <2>4, <2>5 DEF Next
<1>. QED BY <1>1, <1>2 DEF Folders!Next, Fine, Fault

LEMMA InitIsFolders == Init => Folders!Init /\ Kept
<1> SUFFICES ASSUME Init PROVE Folders!Init /\ Kept
  OBVIOUS
<1>1. /\ Inv /\ file = "none" /\ Quiet /\ at = [t \in Tab |-> None] /\ faults = 0
      /\ dirs \in SUBSET Folder
      /\ \A n \in PN : final[n] # Missing => n[1] \in dirs
  BY InvInit DEF Init, Idle, PNInit, Quiet
<1>2. final \in [Name -> Content]
  BY <1>1 DEF Inv, TypeOK, TFTPTypeOK
<1>3. OnCard \in [PN -> Content] /\ \A n \in PN : OnCard[n] = final[n]
  BY <1>1, <1>2, View, Names
<1>4. dirs \in {d \in SUBSET Folder : \A n \in Folders!PN : OnCard[n] # Missing => n[1] \in d}
  BY <1>1, <1>3, SameNames
<1>5. Sending = [u \in Folders!Sender |-> None] /\ Adrift = FALSE
  BY <1>1, SameNames DEF Sending, Adrift, Lost
<1>6. Kept
  BY <1>1 DEF Kept, Handle, Source
<1>. QED BY <1>1, <1>3, <1>4, <1>5, <1>6, SameNames DEF Folders!Init, Quiet

(* The SYX files, with their temp files, chunks and handles, are the files  *)
(* in folders of SyxFolders, whatever the pages and the daemon do to each   *)
(* other's uploads and whatever fails.                                      *)
THEOREM AreFolders == Spec => RefinesFolders
<1>1. Init => Inv /\ Kept /\ Folders!Init
  BY InvInit, InitIsFolders
<1>2. Inv /\ Kept /\ [Next]_vars => Inv' /\ Kept'
  BY InvStep, KeptStep
<1>3. Inv /\ Kept /\ [Next]_vars => [Folders!Next]_(Folders!vars)
  BY StepIsFolders
<1>. QED BY <1>1, <1>2, <1>3, PTL DEF Spec, RefinesFolders, Folders!Spec
=============================================================================
