-------------------------- MODULE CardStore_proofs --------------------------
(* What the CARD-RAM collection keeps, for any cards and other names, failing *)
(* calls and power cuts.                                                     *)
EXTENDS CardStore, FiniteSetTheorems, TLAPS

(* An open upload: its flags and its counter are its own, and its handle    *)
(* loses the temp file only to a flush of the card in memory, which         *)
(* removes it or leaves the file homeless.                                  *)
Session ==
  /\ held # None => file \in {"write", "failed"}
  /\ file \in {"write", "failed"} =>
       /\ target \in Remote /\ held \in {None, target}
       /\ kernelT <=> KindOf[target] = "kernel"
       /\ syxT <=> KindOf[target] = "syx"
       /\ cardT <=> KindOf[target] = "card"
       /\ held = target => temp[target] # Missing /\ temp[target].size = bytes
       /\ held = None =>
            /\ target = active /\ (dirty \/ home = None)
            /\ pc \notin {"unlink", "swap"} => temp[target] = Missing

(* A flush in progress has a dirty card and, once written, a whole temp file *)
(* of its own.                                                              *)
Snapshot ==
  /\ pc \in {"temp", "unlink", "swap"} => dirty
  /\ pc \in {"unlink", "swap"} =>
       /\ held # active /\ Loadable(temp[active])
       /\ ~raced => temp[active].img = ram

(* Where the card in memory is on disk.                                     *)
OnDisk ==
  /\ home \in Cards => final[home] # Missing \/ (pc = "swap" /\ home = active)
  /\ ~dirty /\ ~raced /\ home # None => Loaded(final[home]) = ram

(* The card that a flush is about to put back.                              *)
Replacing(n) == pc = "swap" /\ n = active /\ final[active] = Missing

Selection ==
  cur # None /\ ~cut =>
    \/ Loadable(final[cur])
    \/ Replacing(cur)
    \/ op = "rename" /\ Following /\ cur = old

(* What a request in progress has found and done so far.                    *)
Request ==
  /\ pc = "idle" => op = "process"
  /\ op = "process" => pc \in {"idle", "temp", "unlink", "swap"}
  /\ op = "select" =>
       /\ new \in Cards /\ pc \notin {"move", "rollback"}
       /\ ~cut => Loadable(final[new]) \/ Replacing(new)
  /\ op = "rename" =>
       /\ old \in Cards /\ new \in Cards /\ old # new
       /\ ~Following => final[new] = Missing /\ sel = (cur = old)
       /\ pc \in {"temp", "unlink", "swap"} => active = old
       /\ Following =>
            /\ final[old] = Missing /\ final[new] # Missing
            /\ cur \in {old, None}
            /\ ~cut => Loadable(final[new])

Inv == TypeOK /\ Session /\ Snapshot /\ OnDisk /\ Selection /\ Request

----------------------------------------------------------------------------
(* Names and files.                                                         *)

LEMMA Names ==
  /\ Cards \subseteq Name /\ Legacy \in Name /\ Owned \subseteq Name
  /\ Legacy \notin Cards /\ Legacy \notin Remote /\ Cards \subseteq Remote
  /\ Owned = Cards \cup {Legacy}
  /\ None \notin Name
  /\ \A n \in Name : n \in Cards <=> KindOf[n] = "card"
  BY StoreAssumption, TFTPAssumption DEF Cards, Owned, Remote

LEMMA Files ==
  /\ Missing \notin File /\ Missing \in Content /\ File \subseteq Content
  /\ \A c \in Content : c # Missing => c \in File
  /\ \A c \in File : c.size \in Blocks /\ c.img \in Img
  /\ \A s \in Blocks, i \in Img : [size |-> s, img |-> i] \in File
  /\ \A c \in File, s \in Blocks : [c EXCEPT !.size = s] \in File
  /\ \A c \in File : [c EXCEPT !.img = Garbled] \in File
  /\ Sent \in Img /\ 0 \in Blocks /\ Full \in Blocks
  BY TFTPAssumption DEF File, Content, Blocks

LEMMA Images ==
  /\ ~Loadable(Missing)
  /\ \A i \in Img : /\ Whole(i) \in File /\ Whole(i) \in Content
                    /\ Loadable(Whole(i)) /\ Whole(i).img = i
  /\ \A c \in Content : Loadable(c) => c \in File /\ c # Missing
  /\ \A c \in File : Loadable([c EXCEPT !.img = Garbled]) <=> Loadable(c)
  /\ \A c \in Content : Loaded(c) \in Img
<1>1. \A c \in Content : Loaded(c) \in Img
  BY Files, StoreAssumption DEF Loaded, Loadable
<1>2. \A i \in Img : Whole(i) \in File /\ Whole(i).size = Full /\ Whole(i).img = i
  BY Files DEF Whole
<1>3. \A c \in File : [c EXCEPT !.img = Garbled].size = c.size
  BY DEF File
<1>. QED BY <1>1, <1>2, <1>3, Files DEF Loadable

LEMMA Faults ==
  ASSUME TypeOK, Fine \/ Fault
  PROVE  faults' \in 0..MaxFaults
  BY TFTPAssumption DEF TypeOK, TFTPTypeOK, Fine, Fault

LEMMA Types ==
  ASSUME Inv
  PROVE  /\ final \in [Name -> Content] /\ temp \in [Name -> Content]
         /\ held \in Name \cup {None} /\ target \in Name \cup {None}
         /\ active \in Owned /\ active \in Name
         /\ home \in Owned \cup {None} /\ cur \in Cards \cup {None}
  BY Names DEF Inv, TypeOK, TFTPTypeOK

----------------------------------------------------------------------------
(* The steps of the daemon, between the other handlers.                     *)

(* Each file stays, comes whole to a free name, or is spoilt through the    *)
(* handle that the flush of the card in memory has taken the file from.     *)
Arrives(n) == /\ final[n] = Missing /\ n \in Remote
              /\ n \in Cards => Loadable(final'[n])
Spoilt(n) == /\ Lost /\ n = active /\ final[n] # Missing
             /\ final'[n] = [final[n] EXCEPT !.img = Garbled]

Outcome ==
  /\ TFTPTypeOK' /\ Session'
  /\ \A n \in Name : final'[n] = final[n] \/ Arrives(n) \/ Spoilt(n)

Between == pc = "idle" /\ UNCHANGED <<cur, mem, pc, web, ghost>>

LEMMA OpenKeeps ==
  ASSUME Inv, Between, NEW n \in Remote, FileOpen(n)
  PROVE  Outcome
<1>1. UNCHANGED <<final, temp, held, uploads>> /\ file = "none" /\ held = None
  BY DEF Inv, Session, FileOpen, FileOpenFails, FileOpens, disk
<1>2. /\ file' \in {"none", "read"} /\ target' \in Name \cup {None}
      /\ kernelT' \in BOOLEAN /\ syxT' \in BOOLEAN /\ cardT' \in BOOLEAN
      /\ bytes' = 0 /\ (Fine \/ Fault)
  BY DEF Inv, TypeOK, TFTPTypeOK, FileOpen, FileOpenFails, FileOpens, OpenFlags
<1>3. TFTPTypeOK'
  BY <1>1, <1>2, Faults, Files DEF Inv, TypeOK, TFTPTypeOK
<1>4. Session'
  BY <1>1, <1>2 DEF Session
<1>. QED BY <1>1, <1>3, <1>4 DEF Outcome

LEMMA CreateKeeps ==
  ASSUME Inv, Between, NEW n \in Remote, FileCreate(n)
  PROVE  Outcome
<1>1. n \in Name
  BY DEF Remote
<1>2. /\ final' = final /\ uploads' \in 0..MaxUploads /\ bytes' = 0
      /\ Fine \/ Fault
      /\ kernelT' \in BOOLEAN /\ syxT' \in BOOLEAN /\ cardT' \in BOOLEAN
  <2>1. uploads' \in 0..MaxUploads
    BY TFTPAssumption DEF Inv, TypeOK, TFTPTypeOK, FileCreate
  <2>2. CASE Refuse(n)
    BY <2>1, <2>2 DEF Refuse, Reset, disk
  <2>3. CASE CreateTemp(n)
    BY <2>1, <2>3 DEF CreateTemp
  <2>4. CASE CreateStage(n)
    BY <2>1, <2>4 DEF CreateStage
  <2>. QED BY <2>2, <2>3, <2>4 DEF FileCreate
<1>3. \/ /\ temp' = [temp EXCEPT ![n] = [size |-> 0, img |-> Sent]]
         /\ file' = "write" /\ target' = n /\ held' = n
         /\ kernelT' <=> KindOf[n] = "kernel"
         /\ syxT' <=> KindOf[n] = "syx"
         /\ cardT' <=> KindOf[n] = "card"
      \/ /\ temp' = temp \/ temp' = [temp EXCEPT ![n] = Missing]
         /\ file' = "none" /\ target' = None /\ held' = None
  <2>1. CASE Refuse(n)
    BY <2>1 DEF Refuse, Reset, disk
  <2>2. CASE CreateTemp(n)
    BY <2>2 DEF CreateTemp
  <2>3. CASE CreateStage(n)
    BY <2>3 DEF CreateStage
  <2>. QED BY <2>1, <2>2, <2>3 DEF FileCreate
<1>4. temp \in [Name -> Content]
  BY Types
<1>5. /\ temp' \in [Name -> Content]
      /\ file' = "write" => temp'[n] = [size |-> 0, img |-> Sent]
      /\ [size |-> 0, img |-> Sent] # Missing
  BY <1>1, <1>3, <1>4, Files
<1>6. TFTPTypeOK'
  BY <1>1, <1>2, <1>3, <1>5, Faults, Files DEF Inv, TypeOK, TFTPTypeOK
<1>7. Session'
  BY <1>1, <1>2, <1>3, <1>5, Names DEF Session
<1>. QED BY <1>2, <1>6, <1>7 DEF Outcome

LEMMA WriteKeeps ==
  ASSUME Inv, Between, FileWrite
  PROVE  Outcome
<1>1. /\ final \in [Name -> Content] /\ temp \in [Name -> Content]
      /\ target \in Remote /\ target \in Name /\ bytes \in Blocks
      /\ file = "write" /\ file' \in {"write", "failed"}
      /\ bytes' \in Blocks /\ (Fine \/ Fault)
      /\ UNCHANGED <<target, kernelT, syxT, cardT, held, uploads>>
      /\ UNCHANGED <<active, dirty, home, pc>> /\ pc = "idle"
  <2>1. /\ final \in [Name -> Content] /\ temp \in [Name -> Content]
        /\ bytes \in Blocks
    BY DEF Inv, TypeOK, TFTPTypeOK
  <2>2. file = "write" /\ target \in Remote
    BY DEF Inv, Session, FileWrite, WriteBlock, WriteShort
  <2>3. bytes' \in Blocks
    BY <2>1, TFTPAssumption DEF FileWrite, WriteBlock, WriteShort, Blocks
  <2>4. /\ file' \in {"write", "failed"} /\ (Fine \/ Fault)
        /\ UNCHANGED <<target, kernelT, syxT, cardT, held, uploads>>
    BY DEF FileWrite, WriteBlock, WriteShort, flags, Fine
  <2>5. UNCHANGED <<active, dirty, home, pc>> /\ pc = "idle"
    BY DEF Between, mem, ghost
  <2>. QED BY <2>1, <2>2, <2>3, <2>4, <2>5 DEF Remote
<1>2. CASE UNCHANGED <<final, temp, bytes>>
  <2>1. TFTPTypeOK'
    BY <1>1, <1>2, Faults DEF Inv, TypeOK, TFTPTypeOK
  <2>2. Session'
    BY <1>1, <1>2 DEF Inv, Session
  <2>. QED BY <1>2, <2>1, <2>2 DEF Outcome
<1>3. CASE held = None /\ WriteBlock
  <2>1. target = active /\ temp[target] = Missing
    BY <1>1, <1>3 DEF Inv, Session
  <2>2. /\ temp' = temp /\ bytes' = bytes + 1
        /\ \/ final' = final
           \/ /\ final[target] # Missing
              /\ final' = [final EXCEPT ![target].img = Garbled]
    BY <1>1, <1>3, <2>1 DEF WriteBlock, Lost, disk
  <2>3. /\ final' \in [Name -> Content]
        /\ \A n \in Name : final'[n] = final[n] \/ Spoilt(n)
    <3>1. CASE final' = final
      BY <1>1, <3>1
    <3>2. CASE /\ final[target] # Missing
               /\ final' = [final EXCEPT ![target].img = Garbled]
      <4>1. [final[target] EXCEPT !.img = Garbled] \in Content
        <5>1. final[target] \in File
          BY <1>1, <3>2, Files
        <5>. QED BY <5>1, Files
      <4>. QED BY <1>1, <1>3, <2>1, <3>2, <4>1 DEF Spoilt, Lost
    <3>. QED BY <2>2, <3>1, <3>2
  <2>4. TFTPTypeOK'
    BY <1>1, <2>2, <2>3, Faults DEF Inv, TypeOK, TFTPTypeOK
  <2>5. Session'
    BY <1>1, <1>3, <2>1, <2>2, Names DEF Inv, Session
  <2>. QED BY <2>3, <2>4, <2>5 DEF Outcome
<1>4. CASE held # None /\ WriteBlock
  <2>1. held = target /\ temp[target] \in File
    BY <1>1, <1>4, Files DEF Inv, Session
  <2>2. /\ temp' = [temp EXCEPT ![target].size = bytes + 1]
        /\ final' = final /\ bytes' = bytes + 1 /\ file' = "write"
    BY <1>1, <1>4, <2>1 DEF WriteBlock, Lost
  <2>3. /\ [temp[target] EXCEPT !.size = bytes + 1] \in File
        /\ [temp[target] EXCEPT !.size = bytes + 1].size = bytes + 1
    BY <1>1, <2>1, <2>2, Files DEF File
  <2>4. /\ temp' \in [Name -> Content] /\ temp'[target] # Missing
        /\ temp'[target].size = bytes'
    BY <1>1, <2>2, <2>3, Files
  <2>5. TFTPTypeOK'
    BY <1>1, <2>2, <2>4, Faults DEF Inv, TypeOK, TFTPTypeOK
  <2>6. Session'
    BY <1>1, <1>4, <2>1, <2>4, Names DEF Inv, Session
  <2>. QED BY <2>2, <2>5, <2>6 DEF Outcome
<1>. QED BY <1>2, <1>3, <1>4 DEF FileWrite, WriteShort, disk

(* What is renamed to a card's name has the size that was counted.          *)
LEMMA CloseKeeps ==
  ASSUME Inv, Between, FileClose
  PROVE  Outcome
<1>1. /\ final \in [Name -> Content] /\ temp \in [Name -> Content]
      /\ Reset /\ uploads' = uploads /\ (Fine \/ Fault) /\ pc = "idle"
  <2>1. final \in [Name -> Content] /\ temp \in [Name -> Content]
    BY Types
  <2>2. CASE CloseRead
    BY <2>1, <2>2 DEF FileClose, CloseRead, Fine, Between
  <2>3. CASE CloseError
    BY <2>1, <2>3 DEF FileClose, CloseError, Between
  <2>4. CASE Publish
    BY <2>1, <2>4 DEF FileClose, Publish, Remove, Between
  <2>5. CASE CloseStage
    BY <2>1, <2>5 DEF FileClose, CloseStage, Remove, Fine, Between
  <2>. QED BY <2>2, <2>3, <2>4, <2>5 DEF FileClose
<1>2. \/ UNCHANGED <<final, temp>>
      \/ /\ target \in Name /\ final' = final
         /\ temp' = [temp EXCEPT ![target] = Missing]
      \/ /\ target \in Remote /\ target \in Name
         /\ temp[target] # Missing /\ final[target] = Missing
         /\ target \in Cards => Loadable(temp[target])
         /\ final' = [final EXCEPT ![target] = temp[target]]
         /\ temp' = [temp EXCEPT ![target] = Missing]
  <2>1. CASE CloseRead
    BY <2>1 DEF CloseRead, disk
  <2>2. CASE CloseError
    BY <2>2 DEF CloseError, Inv, Session, Remote
  <2>3. CASE Publish
    <3>1. /\ file \in {"write", "failed"} /\ target \in Remote /\ target \in Name
          /\ syxT <=> KindOf[target] = "syx"
      BY <2>3 DEF Publish, Inv, Session, Remote
    <3>2. ASSUME temp[target] # Missing, target \in Cards, syxT \/ bytes = Full
          PROVE  Loadable(temp[target])
      <4>1. ~syxT
        BY <3>1, <3>2, Names
      <4>2. temp[target].size = bytes
        BY <1>1, <3>1, <3>2 DEF Inv, Session
      <4>. QED BY <3>2, <4>1, <4>2 DEF Loadable
    <3>. QED BY <2>3, <3>1, <3>2 DEF Publish, Remove
  <2>4. CASE CloseStage
    <3>1. target \in Name
      BY <2>4 DEF CloseStage, Inv, Session, Remote
    <3>. QED BY <2>4, <3>1 DEF CloseStage, Remove
  <2>. QED BY <2>1, <2>2, <2>3, <2>4 DEF FileClose
<1>3. /\ final' \in [Name -> Content] /\ temp' \in [Name -> Content]
      /\ \A n \in Name : final'[n] = final[n] \/ Arrives(n)
  BY <1>1, <1>2, Files DEF Arrives
<1>4. TFTPTypeOK'
  <2>1. faults' \in 0..MaxFaults /\ uploads' \in 0..MaxUploads
    BY <1>1, Faults DEF Inv, TypeOK, TFTPTypeOK
  <2>. QED BY <1>1, <1>3, <2>1, Files DEF TFTPTypeOK, Reset
<1>5. Session'
  BY <1>1 DEF Reset, Session
<1>. QED BY <1>3, <1>4, <1>5 DEF Outcome

LEMMA DaemonKeeps ==
  ASSUME Inv, TFTPRequest
  PROVE  Outcome /\ Between
<1>1. Between /\ TFTPStep
  BY DEF TFTPRequest, Between
<1>. QED BY <1>1, OpenKeeps, CreateKeeps, WriteKeeps, CloseKeeps DEF TFTPStep

LEMMA TFTPKeeps ==
  ASSUME Inv, TFTPRequest
  PROVE  Inv'
<1>1. /\ Outcome /\ pc = "idle" /\ op = "process"
      /\ UNCHANGED <<cur, active, ram, dirty, pc, op, old, new, sel, home,
                     raced, cut>>
  BY DaemonKeeps DEF Between, mem, web, ghost, Inv, Request
<1>2. TypeOK'
  BY <1>1 DEF Inv, TypeOK, Outcome
<1>3. Snapshot' /\ Request'
  BY <1>1 DEF Snapshot, Request, Following
<1>4. ASSUME NEW n \in Name, n \notin Remote \/ final[n] # Missing
      PROVE  final'[n] = final[n] \/ Spoilt(n)
  BY <1>1, <1>4 DEF Outcome, Arrives
<1>5. Selection'
  <2> SUFFICES ASSUME cur # None, ~cut PROVE Loadable(final'[cur])
    BY <1>1 DEF Selection
  <2>1. cur \in Name /\ Loadable(final[cur]) /\ final[cur] \in File
    BY <1>1, Types, Names, Images DEF Inv, Selection, Replacing, Following
  <2>2. final'[cur] = final[cur] \/ Spoilt(cur)
    BY <1>4, <2>1, Files
  <2>. QED BY <2>1, <2>2, Images DEF Spoilt
<1>6. OnDisk'
  <2>1. ASSUME home \in Cards PROVE final'[home] # Missing
    <3>1. final[home] # Missing /\ home \in Name
      BY <1>1, <2>1, Names DEF Inv, OnDisk
    <3>2. final[home] \in File
      BY <3>1, Types, Files
    <3>3. [final[home] EXCEPT !.img = Garbled] # Missing
      BY <3>2, Files
    <3>. QED BY <1>4, <3>1, <3>3 DEF Spoilt
  <2>2. ASSUME ~dirty, ~raced, home # None
        PROVE  Loaded(final'[home]) = ram
    <3>1. home \in Name /\ (home \notin Remote \/ final[home] # Missing)
      BY <1>1, <2>2, Types, Names DEF Inv, OnDisk
    <3>2. ~Lost
      BY <2>2 DEF Lost, Inv, Session
    <3>3. final'[home] = final[home]
      BY <1>4, <3>1, <3>2 DEF Spoilt
    <3>. QED BY <2>2, <3>3 DEF Inv, OnDisk
  <2>. QED BY <1>1, <2>1, <2>2 DEF OnDisk
<1>. QED BY <1>1, <1>2, <1>3, <1>5, <1>6 DEF Inv, Outcome

----------------------------------------------------------------------------
(* The flush.                                                               *)

(* A step that leaves the daemon and the temp files alone.                  *)
LEMMA SameUploads ==
  ASSUME Inv, UNCHANGED <<temp, tftp, active>>, Fine \/ Fault,
         final' \in [Name -> Content],
         dirty => dirty', home = None => home' = None,
         pc \in {"unlink", "swap"} => pc' \in {"unlink", "swap"}
  PROVE  TFTPTypeOK' /\ Session'
<1>1. UNCHANGED <<file, target, kernelT, syxT, cardT, bytes, held, uploads>>
  BY DEF tftp, flags
<1>2. TFTPTypeOK'
  BY <1>1, Faults DEF Inv, TypeOK, TFTPTypeOK
<1>3. Session'
  BY <1>1 DEF Inv, Session
<1>. QED BY <1>2, <1>3

LEMMA EditKeeps ==
  ASSUME Inv, EditCard
  PROVE  Inv'
<1>1. /\ ram' \in Img /\ dirty' = TRUE
      /\ raced' = (raced \/ pc \in {"unlink", "swap"})
      /\ UNCHANGED <<final, temp, tftp, faults, cur, active, pc, op, old, new,
                     sel, home, cut>>
  BY StoreAssumption DEF EditCard, disk, web
<1>2. TFTPTypeOK' /\ Session'
  BY <1>1, SameUploads DEF Inv, TypeOK, TFTPTypeOK, Fine
<1>3. TypeOK'
  BY <1>1, <1>2 DEF Inv, TypeOK
<1>4. Snapshot' /\ OnDisk'
  BY <1>1 DEF Inv, Snapshot, OnDisk, tftp
<1>5. Selection' /\ Request'
  BY <1>1 DEF Inv, Selection, Request, Replacing, Following
<1>. QED BY <1>2, <1>3, <1>4, <1>5 DEF Inv

LEMMA StartFlushKeeps ==
  ASSUME Inv, StartFlush
  PROVE  Inv'
<1>1. /\ pc = "idle" /\ dirty /\ pc' = "temp" /\ op' = "process"
      /\ UNCHANGED <<final, temp, tftp, faults, cur, active, ram, dirty, old,
                     new, sel, home, raced, cut>>
  BY DEF StartFlush, disk, mem, ghost
<1>2. TFTPTypeOK' /\ Session'
  BY <1>1, SameUploads DEF Inv, TypeOK, TFTPTypeOK, Fine
<1>3. TypeOK'
  BY <1>1, <1>2 DEF Inv, TypeOK, Pcs
<1>4. Snapshot' /\ OnDisk'
  BY <1>1 DEF Inv, Snapshot, OnDisk, tftp
<1>5. Selection' /\ Request'
  BY <1>1 DEF Inv, Selection, Request, Replacing, Following
<1>. QED BY <1>2, <1>3, <1>4, <1>5 DEF Inv

(* Where the caller goes on, the files being as they were but for the card  *)
(* in memory, which is whole again if it was being replaced and no call     *)
(* failed.                                                                  *)
LEMMA FlushEnds ==
  ASSUME Inv, pc \in {"temp", "swap"}, AfterFlush, UNCHANGED <<cur, active>>,
         cut => cut',
         \A n \in Name : n # active => final'[n] = final[n],
         Loadable(final[active]) \/ (Replacing(active) /\ ~cut')
           => Loadable(final'[active])
  PROVE  /\ Selection' /\ Request'
         /\ pc' \in {"idle", "selWrite", "move"}
         /\ op' \in {"process", "select", "rename"}
         /\ old' \in Cards \cup {None} /\ new' \in Cards \cup {None}
         /\ sel' \in BOOLEAN
<1>1. /\ op \in {"process", "select", "rename"} /\ sel \in BOOLEAN
      /\ old \in Cards \cup {None} /\ new \in Cards \cup {None}
      /\ cur \in Cards \cup {None} /\ Cards \subseteq Name
  BY Names DEF Inv, TypeOK
<1>2. ASSUME NEW n \in Name, ~cut', Loadable(final[n]) \/ Replacing(n)
      PROVE  Loadable(final'[n])
  BY <1>2 DEF Replacing
<1>3. Selection'
  <2> SUFFICES ASSUME cur # None, ~cut' PROVE Loadable(final'[cur])
    BY DEF Selection
  <2>1. Loadable(final[cur]) \/ Replacing(cur)
    BY DEF Inv, Selection, Following
  <2>. QED BY <1>1, <1>2, <2>1
<1>4. CASE op = "process"
  BY <1>1, <1>3, <1>4 DEF AfterFlush, Return, Request
<1>5. CASE op = "select"
  <2>1. pc' = "selWrite" /\ UNCHANGED <<op, old, new, sel>>
    BY <1>5 DEF AfterFlush, Goto, web
  <2>2. new \in Cards /\ (~cut' => Loadable(final'[new]))
    BY <1>1, <1>2, <1>5 DEF Inv, Request
  <2>. QED BY <1>1, <1>3, <1>5, <2>1, <2>2 DEF Request
<1>6. CASE op = "rename"
  <2>1. pc' = "move" /\ UNCHANGED <<op, old, new, sel>>
    BY <1>6 DEF AfterFlush, Goto, web
  <2>2. ASSUME pc = "temp" \/ pc = "swap"
        PROVE  /\ old \in Cards /\ new \in Cards /\ old # new
               /\ final[new] = Missing /\ sel = (cur = old) /\ active = old
    BY <1>6, <2>2 DEF Inv, Request, Following
  <2>3. final'[new] = Missing
    BY <1>1, <2>2
  <2>. QED BY <1>1, <1>3, <1>6, <2>1, <2>2, <2>3 DEF Request, Following
<1>. QED BY <1>1, <1>4, <1>5, <1>6

LEMMA FlushTempKeeps ==
  ASSUME Inv, FlushTemp
  PROVE  Inv'
<1>1. /\ pc = "temp" /\ dirty
      /\ UNCHANGED <<final, file, target, kernelT, syxT, cardT, bytes, uploads>>
      /\ UNCHANGED <<cur, active, ram, dirty, home, cut>>
      /\ held' = IF held = active /\ (pc' = "unlink" \/ temp' # temp)
                   THEN None ELSE held
      /\ active \in Name /\ ram \in Img /\ temp \in [Name -> Content]
      /\ Fine \/ Fault
  BY Types DEF FlushTemp, flags, mem, Inv, TypeOK, Snapshot
<1>2. CASE /\ temp' = [temp EXCEPT ![active] = Whole(ram)]
           /\ Goto("unlink") /\ raced' = FALSE
  <2>1. /\ pc' = "unlink" /\ UNCHANGED <<op, old, new, sel>> /\ held' # active
        /\ held' \in {held, None}
    BY <1>1, <1>2, Names DEF Goto, web, Owned
  <2>2. /\ temp' \in [Name -> Content] /\ temp'[active] = Whole(ram)
        /\ \A n \in Name : n # active => temp'[n] = temp[n]
    BY <1>1, <1>2, Images
  <2>3. TFTPTypeOK'
    BY <1>1, <2>1, <2>2, Faults, Types DEF Inv, TypeOK, TFTPTypeOK
  <2>4. TypeOK'
    BY <1>1, <1>2, <2>1, <2>3 DEF Inv, TypeOK, Pcs
  <2>5. Session'
    <3>1. held' # None => held' = held /\ temp'[held] = temp[held]
      BY <1>1, <2>1, <2>2, Types
    <3>2. held' = None /\ held # None => held = active
      BY <1>1
    <3>. QED BY <1>1, <2>1, <3>1, <3>2 DEF Inv, Session
  <2>6. Snapshot'
    BY <1>1, <2>1, <2>2, Images DEF Snapshot
  <2>7. OnDisk' /\ Selection' /\ Request'
    BY <1>1, <1>2, <2>1
       DEF Inv, OnDisk, Selection, Request, Replacing, Following
  <2>. QED BY <2>4, <2>5, <2>6, <2>7 DEF Inv
<1>3. CASE /\ temp' \in {temp, [temp EXCEPT ![active] = Missing]}
           /\ AfterFlush /\ raced' = raced
  <2>1. /\ Selection' /\ Request' /\ pc' \in {"idle", "selWrite", "move"}
        /\ op' \in {"process", "select", "rename"}
        /\ old' \in Cards \cup {None} /\ new' \in Cards \cup {None}
        /\ sel' \in BOOLEAN
    BY <1>1, <1>3, FlushEnds DEF Replacing
  <2>2. /\ temp' \in [Name -> Content]
        /\ \A n \in Name : n # active => temp'[n] = temp[n]
        /\ temp' = temp \/ temp'[active] = Missing
        /\ held' \in {held, None}
        /\ held' = IF held = active /\ temp' # temp THEN None ELSE held
    BY <1>1, <1>3, <2>1, Files
  <2>3. TFTPTypeOK'
    BY <1>1, <2>2, Faults, Types DEF Inv, TypeOK, TFTPTypeOK
  <2>4. TypeOK'
    BY <1>1, <1>3, <2>1, <2>3 DEF Inv, TypeOK, Pcs
  <2>5. Session'
    <3>1. held' # None => held' = held /\ temp'[held] = temp[held]
      BY <1>1, <2>2, Types
    <3>2. held' = None /\ held # None => held = active /\ temp'[active] = Missing
      BY <1>1, <2>2
    <3>3. held = None /\ file \in {"write", "failed"} =>
            target = active /\ temp'[active] = Missing
      BY <1>1, <2>2 DEF Inv, Session
    <3>. QED BY <1>1, <2>1, <3>1, <3>2, <3>3 DEF Inv, Session
  <2>6. Snapshot' /\ OnDisk'
    BY <1>1, <1>3, <2>1 DEF Inv, Snapshot, OnDisk
  <2>. QED BY <2>1, <2>4, <2>5, <2>6 DEF Inv
<1>. QED BY <1>2, <1>3 DEF FlushTemp

LEMMA FlushUnlinkKeeps ==
  ASSUME Inv, FlushUnlink
  PROVE  Inv'
<1>1. /\ pc = "unlink" /\ pc' = "swap" /\ dirty /\ active \in Name
      /\ UNCHANGED <<temp, tftp, cur, active, ram, dirty, op, old, new, sel,
                     home, raced, cut>>
      /\ Fine \/ Fault
      /\ final \in [Name -> Content]
      /\ final' = final \/ final' = [final EXCEPT ![active] = Missing]
  BY Types DEF FlushUnlink, mem, web, ghost, Inv, Snapshot
<1>2. /\ final' \in [Name -> Content]
      /\ \A n \in Name : n # active => final'[n] = final[n]
      /\ final'[active] = final[active] \/ final'[active] = Missing
  BY <1>1, Files
<1>3. TFTPTypeOK' /\ Session'
  BY <1>1, <1>2, SameUploads
<1>4. TypeOK'
  BY <1>1, <1>3 DEF Inv, TypeOK, Pcs
<1>5. Snapshot'
  BY <1>1 DEF Inv, Snapshot, tftp
<1>6. OnDisk'
  BY <1>1, <1>2, Names, Types DEF Inv, OnDisk
<1>7. Selection'
  BY <1>1, <1>2, Names, Types DEF Inv, Selection, Replacing, Following
<1>8. Request'
  BY <1>1, <1>2, Names DEF Inv, Request, Replacing, Following
<1>. QED BY <1>3, <1>4, <1>5, <1>6, <1>7, <1>8 DEF Inv

LEMMA FlushSwapKeeps ==
  ASSUME Inv, FlushSwap
  PROVE  Inv'
<1>1. /\ pc = "swap" /\ dirty /\ AfterFlush
      /\ UNCHANGED <<tftp, cur, active, ram, raced>>
      /\ temp' = [temp EXCEPT ![active] = Missing]
      /\ held # active /\ Loadable(temp[active])
      /\ ~raced => temp[active].img = ram
      /\ Fine \/ Fault
      /\ active \in Name /\ active \in Owned
      /\ final \in [Name -> Content] /\ temp \in [Name -> Content]
  BY Types DEF FlushSwap, Inv, Snapshot
<1>2. /\ temp' \in [Name -> Content] /\ temp'[active] = Missing
      /\ \A n \in Name : n # active => temp'[n] = temp[n]
      /\ UNCHANGED <<file, target, kernelT, syxT, cardT, bytes, held, uploads>>
  BY <1>1, Files DEF tftp, flags
<1>3. ASSUME final' \in [Name -> Content], Selection', Request', cut' \in BOOLEAN,
             dirty' \in BOOLEAN, home' \in Owned \cup {None},
             pc' \in {"idle", "selWrite", "move"},
             op' \in {"process", "select", "rename"},
             old' \in Cards \cup {None}, new' \in Cards \cup {None},
             sel' \in BOOLEAN, OnDisk',
             Lost => dirty' \/ home' = None
      PROVE  Inv'
  <2>1. TFTPTypeOK'
    BY <1>1, <1>2, <1>3, Faults DEF Inv, TypeOK, TFTPTypeOK
  <2>2. TypeOK'
    BY <1>1, <1>3, <2>1 DEF Inv, TypeOK, Pcs
  <2>3. Session'
    <3>1. held # None => temp'[held] = temp[held]
      BY <1>1, <1>2, Types
    <3>. QED BY <1>1, <1>2, <1>3, <3>1 DEF Inv, Session, Lost
  <2>4. Snapshot'
    BY <1>3 DEF Snapshot
  <2>. QED BY <1>3, <2>2, <2>3, <2>4 DEF Inv
<1>4. CASE /\ final[active] = Missing
           /\ final' = [final EXCEPT ![active] = temp[active]]
           /\ dirty' = FALSE /\ cut' = cut
           /\ home' = IF Lost THEN None ELSE active
  <2>1. /\ final' \in [Name -> Content] /\ final'[active] = temp[active]
        /\ \A n \in Name : n # active => final'[n] = final[n]
    BY <1>1, <1>4
  <2>2. /\ Selection' /\ Request' /\ pc' \in {"idle", "selWrite", "move"}
        /\ op' \in {"process", "select", "rename"}
        /\ old' \in Cards \cup {None} /\ new' \in Cards \cup {None}
        /\ sel' \in BOOLEAN
    BY <1>1, <1>4, <2>1, FlushEnds
  <2>3. OnDisk'
    <3>1. final'[active] # Missing /\ Loaded(final'[active]) = temp[active].img
      BY <1>1, <2>1, Images DEF Loaded
    <3>2. home' \in {None, active} /\ None \notin Cards
      BY <1>4, Names
    <3>. QED BY <1>1, <3>1, <3>2 DEF OnDisk
  <2>4. cut' \in BOOLEAN /\ home' \in Owned \cup {None}
    BY <1>1, <1>4 DEF Inv, TypeOK
  <2>. QED BY <1>3, <1>4, <2>1, <2>2, <2>3, <2>4
<1>5. CASE /\ final' = final /\ dirty' = dirty
           /\ home' = IF final[active] = Missing /\ home = active
                        THEN None ELSE home
           /\ cut' = (cut \/ final[active] = Missing)
  <2>1. /\ Selection' /\ Request' /\ pc' \in {"idle", "selWrite", "move"}
        /\ op' \in {"process", "select", "rename"}
        /\ old' \in Cards \cup {None} /\ new' \in Cards \cup {None}
        /\ sel' \in BOOLEAN
    BY <1>1, <1>5, FlushEnds DEF Replacing
  <2>2. OnDisk'
    <3>1. dirty'
      BY <1>1, <1>5
    <3>2. ASSUME home' \in Cards PROVE final'[home'] # Missing
      <4>1. home' # None
        BY <3>2, Names
      <4>2. home' = home /\ ~(final[active] = Missing /\ home = active)
        BY <1>5, <4>1
      <4>. QED BY <1>1, <1>5, <3>2, <4>2 DEF Inv, OnDisk
    <3>. QED BY <3>1, <3>2 DEF OnDisk
  <2>3. cut' \in BOOLEAN /\ home' \in Owned \cup {None} /\ dirty' \in BOOLEAN
    BY <1>1, <1>5 DEF Inv, TypeOK
  <2>. QED BY <1>1, <1>3, <1>5, <2>1, <2>2, <2>3
<1>. QED BY <1>4, <1>5 DEF FlushSwap

----------------------------------------------------------------------------
(* The requests.                                                            *)

LEMMA SelectKeeps ==
  ASSUME Inv, NEW n \in Cards, SelectExec(n)
  PROVE  Inv'
<1>1. /\ pc = "idle" /\ Loadable(final[n])
      /\ op' = "select" /\ new' = n /\ old' = None /\ sel' = FALSE
      /\ pc' = IF dirty THEN "temp" ELSE "selWrite"
      /\ UNCHANGED <<final, temp, tftp, faults, cur, active, ram, dirty, home,
                     raced, cut>>
  BY DEF SelectExec, FlushThen, disk, mem, ghost
<1>2. TFTPTypeOK' /\ Session'
  BY <1>1, SameUploads DEF Inv, TypeOK, TFTPTypeOK, Fine
<1>3. TypeOK'
  BY <1>1, <1>2 DEF Inv, TypeOK, Pcs
<1>4. Snapshot' /\ OnDisk'
  BY <1>1 DEF Inv, Snapshot, OnDisk
<1>5. Selection'
  BY <1>1 DEF Inv, Selection, Request, Replacing, Following
<1>6. Request'
  BY <1>1 DEF Request
<1>. QED BY <1>2, <1>3, <1>4, <1>5, <1>6 DEF Inv

LEMMA RenameKeeps ==
  ASSUME Inv, NEW o \in Cards, NEW n \in Cards, RenameExec(o, n)
  PROVE  Inv'
<1>1. /\ pc = "idle" /\ o # n /\ final[n] = Missing
      /\ op' = "rename" /\ old' = o /\ new' = n /\ sel' = (cur = o)
      /\ pc' \in {"temp", "move"}
      /\ pc' = "temp" => dirty /\ active = o
      /\ UNCHANGED <<final, temp, tftp, faults, cur, active, ram, dirty, home,
                     raced, cut>>
  BY DEF RenameExec, FlushThen, Active, Selected, disk, mem, ghost
<1>2. TFTPTypeOK' /\ Session'
  BY <1>1, SameUploads DEF Inv, TypeOK, TFTPTypeOK, Fine
<1>3. TypeOK'
  BY <1>1, <1>2 DEF Inv, TypeOK, Pcs
<1>4. Snapshot' /\ OnDisk'
  BY <1>1 DEF Inv, Snapshot, OnDisk
<1>5. Selection'
  BY <1>1 DEF Inv, Selection, Request, Replacing, Following
<1>6. Request'
  BY <1>1 DEF Request, Following
<1>. QED BY <1>2, <1>3, <1>4, <1>5, <1>6 DEF Inv

LEMMA DeleteKeeps ==
  ASSUME Inv, NEW n \in Cards, DeleteExec(n)
  PROVE  Inv'
<1>1. /\ pc = "idle" /\ op = "process" /\ cur # n /\ n \in Name
      /\ final' = [final EXCEPT ![n] = Missing]
      /\ home' = IF home = n THEN None ELSE home
      /\ UNCHANGED <<temp, tftp, faults, cur, active, ram, dirty, pc, op, old,
                     new, sel, raced, cut>>
      /\ final \in [Name -> Content]
  <2>1. n # active
    BY Names DEF DeleteExec, Active
  <2>. QED BY <2>1, Types, Names
       DEF DeleteExec, Selected, mem, web, Inv, Request
<1>2. /\ final' \in [Name -> Content]
      /\ \A m \in Name : m # n => final'[m] = final[m]
  BY <1>1, Files
<1>3. TFTPTypeOK' /\ Session'
  BY <1>1, <1>2, SameUploads DEF Fine
<1>4. TypeOK'
  BY <1>1, <1>3 DEF Inv, TypeOK
<1>5. Snapshot' /\ Request'
  BY <1>1 DEF Snapshot, Request, Following
<1>6. OnDisk'
  <2>1. home' # None => home' = home /\ home # n /\ final'[home] = final[home]
    BY <1>1, <1>2, Types, Names
  <2>. QED BY <1>1, <2>1, Names DEF Inv, OnDisk
<1>7. Selection'
  BY <1>1, <1>2, Types, Names DEF Inv, Selection, Replacing, Following
<1>. QED BY <1>3, <1>4, <1>5, <1>6, <1>7 DEF Inv

(* A file that changes its name takes the card in memory along.             *)
LEMMA HomeMoves ==
  ASSUME Inv, NEW s \in Cards, NEW d \in Cards, s # d,
         pc # "swap", final[s] # Missing, final[d] = Missing,
         final' = [final EXCEPT ![d] = final[s], ![s] = Missing],
         home' = IF home = s THEN d ELSE home,
         UNCHANGED <<ram, dirty, raced>>
  PROVE  /\ OnDisk' /\ home' \in Owned \cup {None}
         /\ final' \in [Name -> Content]
         /\ final'[d] = final[s] /\ final'[s] = Missing
         /\ \A n \in Name : n \notin {s, d} => final'[n] = final[n]
<1>1. /\ s \in Name /\ d \in Name /\ final \in [Name -> Content]
      /\ home \in Owned \cup {None}
  BY Types, Names
<1>2. /\ final' \in [Name -> Content]
      /\ final'[d] = final[s] /\ final'[s] = Missing
      /\ \A n \in Name : n \notin {s, d} => final'[n] = final[n]
  BY <1>1, Files
<1>3. home # d
  BY Names DEF Inv, OnDisk
<1>4. home' # None => home # None /\ final'[home'] = final[home]
  BY <1>1, <1>2, <1>3, Names
<1>5. OnDisk'
  <2>1. ASSUME home' \in Cards PROVE final'[home'] # Missing
    <3>1. home \in Cards
      BY <2>1
    <3>2. final[home] # Missing
      BY <3>1 DEF Inv, OnDisk
    <3>. QED BY <1>4, <2>1, <3>2, Names
  <2>. QED BY <1>4, <2>1 DEF Inv, OnDisk
<1>. QED BY <1>1, <1>2, <1>5, Names

LEMMA MoveKeeps ==
  ASSUME Inv, Move
  PROVE  Inv'
<1>1. /\ pc = "move" /\ op = "rename" /\ (Fine \/ Fault)
      /\ old \in Cards /\ new \in Cards /\ old # new
      /\ final[new] = Missing /\ sel = (cur = old)
      /\ UNCHANGED <<temp, tftp, cur, active, ram, dirty, raced, cut>>
      /\ final \in [Name -> Content] /\ cur \in Cards \cup {None}
  BY Types DEF Move, mem, Inv, TypeOK, Request, Following
<1>2. cur # None /\ ~cut => Loadable(final[cur])
  BY <1>1 DEF Inv, Selection, Replacing, Following
<1>3. CASE final' = final /\ Return /\ home' = home
  <2>1. TFTPTypeOK' /\ Session'
    BY <1>1, <1>3, SameUploads DEF Return
  <2>2. TypeOK'
    BY <1>1, <1>3, <2>1 DEF Inv, TypeOK, Pcs, Return
  <2>3. Snapshot' /\ OnDisk' /\ Request'
    BY <1>1, <1>3 DEF Inv, Snapshot, OnDisk, Request, Return, Following
  <2>4. Selection'
    BY <1>1, <1>2, <1>3 DEF Selection
  <2>. QED BY <2>1, <2>2, <2>3, <2>4 DEF Inv
<1>4. CASE /\ final[old] # Missing
           /\ final' = [final EXCEPT ![new] = final[old], ![old] = Missing]
           /\ IF sel THEN Goto("selWrite") ELSE Return
           /\ home' = IF home = old THEN new ELSE home
  <2>1. /\ OnDisk' /\ home' \in Owned \cup {None}
        /\ final' \in [Name -> Content]
        /\ final'[new] = final[old] /\ final'[old] = Missing
        /\ \A n \in Name : n \notin {old, new} => final'[n] = final[n]
    BY <1>1, <1>4, HomeMoves
  <2>2. TFTPTypeOK' /\ Session'
    BY <1>1, <1>4, <2>1, SameUploads, Names DEF Return, Goto
  <2>3. CASE sel
    <3>1. pc' = "selWrite" /\ UNCHANGED <<op, old, new, sel>>
      BY <1>4, <2>3 DEF Goto, web
    <3>2. TypeOK'
      BY <1>1, <2>1, <2>2, <3>1 DEF Inv, TypeOK, Pcs
    <3>3. Snapshot' /\ Selection'
      BY <1>1, <2>3, <3>1 DEF Snapshot, Selection, Following
    <3>4. Request'
      BY <1>1, <1>2, <1>4, <2>1, <2>3, <3>1, Names DEF Request, Following
    <3>. QED BY <2>1, <2>2, <3>2, <3>3, <3>4 DEF Inv
  <2>4. CASE ~sel
    <3>1. pc' = "idle" /\ op' = "process" /\ old' = None /\ new' = None /\ ~sel'
          /\ sel' \in BOOLEAN
      BY <1>4, <2>4 DEF Return
    <3>2. TypeOK'
      BY <1>1, <2>1, <2>2, <3>1 DEF Inv, TypeOK, Pcs
    <3>3. Snapshot' /\ Request'
      BY <3>1 DEF Snapshot, Request, Following
    <3>4. Selection'
      <4> SUFFICES ASSUME cur # None, ~cut PROVE Loadable(final'[cur])
        BY <1>1 DEF Selection
      <4>1. Loadable(final[cur]) /\ cur # old /\ cur # new
        BY <1>1, <1>2, <2>4, Images
      <4>. QED BY <1>1, <2>1, <4>1, Names
    <3>. QED BY <2>1, <2>2, <3>2, <3>3, <3>4 DEF Inv
  <2>. QED BY <2>3, <2>4
<1>. QED BY <1>3, <1>4 DEF Move

(* The calls on current.txt.                                                *)
LEMMA SelKeeps ==
  ASSUME Inv, SelWrite \/ SelRemove \/ SelMove
  PROVE  Inv'
<1>1. /\ pc \in {"selWrite", "selRemove", "selMove"} /\ (Fine \/ Fault)
      /\ UNCHANGED <<final, temp, tftp, active, ram, dirty, home, raced, cut>>
  BY DEF SelWrite, SelRemove, SelMove, SelFails, disk, mem, ghost
<1>2. /\ op \in {"select", "rename"}
      /\ new \in Cards /\ (~cut => Loadable(final[new]))
      /\ op = "rename" => /\ old \in Cards /\ old # new
                         /\ final[old] = Missing /\ final[new] # Missing
                         /\ cur \in {old, None}
  BY <1>1 DEF Inv, TypeOK, Request, Replacing, Following
<1>3. \/ /\ pc' \in {"selRemove", "selMove"} /\ UNCHANGED web
         /\ cur' \in {cur, None}
      \/ pc' = "rollback" /\ op = "rename" /\ UNCHANGED <<web, cur>>
      \/ Return /\ op = "select" /\ cur' = cur
      \/ Return /\ cur' = new
  <2>1. op = "rename" \/ op = "select"
    BY <1>2
  <2>2. ASSUME SelFails
        PROVE  \/ pc' = "rollback" /\ op = "rename" /\ UNCHANGED web
               \/ Return /\ op = "select"
    <3>1. CASE op = "rename"
      BY <2>2, <3>1 DEF SelFails, Goto
    <3>2. CASE op = "select"
      BY <2>2, <3>2 DEF SelFails
    <3>. QED BY <2>1, <3>1, <3>2
  <2>. QED BY <2>2 DEF SelWrite, SelRemove, SelMove, Goto
<1>4. TFTPTypeOK' /\ Session'
  BY <1>1, <1>3, SameUploads DEF Inv, TypeOK, TFTPTypeOK
<1>5. Snapshot' /\ OnDisk'
  BY <1>1, <1>3 DEF Inv, Snapshot, OnDisk, Return
<1>6. CASE Return
  <2>1. pc' = "idle" /\ op' = "process" /\ old' = None /\ new' = None
        /\ sel' \in BOOLEAN
    BY <1>6 DEF Return
  <2>2. cur' \in Cards \cup {None}
    BY <1>2, <1>3, <1>6, Types DEF Return
  <2>3. TypeOK'
    BY <1>1, <1>4, <2>1, <2>2 DEF Inv, TypeOK, Pcs
  <2>4. Request'
    BY <2>1 DEF Request, Following
  <2>5. Selection'
    <3> SUFFICES ASSUME cur' # None, ~cut PROVE Loadable(final[cur'])
      BY <1>1 DEF Selection
    <3>1. CASE cur' = new
      BY <1>2, <3>1
    <3>2. CASE cur' = cur /\ op = "select"
      BY <1>1, <3>2 DEF Inv, Selection, Replacing
    <3>. QED BY <1>3, <2>1, <3>1, <3>2, <1>2
  <2>. QED BY <1>4, <1>5, <2>3, <2>4, <2>5 DEF Inv
<1>7. CASE /\ pc' \in {"selRemove", "selMove", "rollback"} /\ UNCHANGED web
           /\ cur' \in {cur, None} /\ (pc' = "rollback" => op = "rename")
  <2>1. UNCHANGED <<op, old, new, sel>>
    BY <1>7 DEF web
  <2>2. TypeOK'
    BY <1>1, <1>4, <1>7, <2>1 DEF Inv, TypeOK, Pcs
  <2>3. Request'
    BY <1>1, <1>2, <1>7, <2>1 DEF Request, Following, Replacing
  <2>4. Selection'
    BY <1>1, <1>2, <1>7, <2>1 DEF Inv, Selection, Following, Replacing
  <2>. QED BY <1>4, <1>5, <2>2, <2>3, <2>4 DEF Inv
<1>. QED BY <1>3, <1>6, <1>7

LEMMA RollbackKeeps ==
  ASSUME Inv, Rollback
  PROVE  Inv'
<1>1. /\ pc = "rollback" /\ op = "rename" /\ (Fine \/ Fault)
      /\ old \in Cards /\ new \in Cards /\ old # new
      /\ final[old] = Missing /\ final[new] # Missing
      /\ cur \in {old, None} /\ (~cut => Loadable(final[new]))
      /\ pc' = "idle" /\ op' = "process" /\ old' = None /\ new' = None
      /\ sel' = FALSE
      /\ UNCHANGED <<temp, tftp, cur, active, ram, dirty, raced>>
      /\ final \in [Name -> Content]
  BY Types DEF Rollback, Return, mem, Inv, TypeOK, Request, Following
<1>2. Snapshot' /\ Request'
  BY <1>1 DEF Snapshot, Request, Following
<1>3. CASE final' = final /\ cut' = TRUE /\ home' = home
  <2>1. TFTPTypeOK' /\ Session'
    BY <1>1, <1>3, SameUploads
  <2>2. TypeOK'
    BY <1>1, <1>3, <2>1 DEF Inv, TypeOK, Pcs
  <2>3. OnDisk' /\ Selection'
    BY <1>1, <1>3 DEF Inv, OnDisk, Selection
  <2>. QED BY <1>2, <2>1, <2>2, <2>3 DEF Inv
<1>4. CASE /\ final' = [final EXCEPT ![old] = final[new], ![new] = Missing]
           /\ cut' = cut /\ home' = IF home = new THEN old ELSE home
  <2>1. /\ OnDisk' /\ home' \in Owned \cup {None}
        /\ final' \in [Name -> Content]
        /\ final'[old] = final[new]
    BY <1>1, <1>4, HomeMoves
  <2>2. TFTPTypeOK' /\ Session'
    BY <1>1, <1>4, <2>1, SameUploads, Names
  <2>3. TypeOK'
    BY <1>1, <1>4, <2>1, <2>2 DEF Inv, TypeOK, Pcs
  <2>4. Selection'
    BY <1>1, <1>4, <2>1 DEF Selection
  <2>. QED BY <1>2, <2>1, <2>2, <2>3, <2>4 DEF Inv
<1>. QED BY <1>3, <1>4 DEF Rollback

LEMMA PowerCycleKeeps ==
  ASSUME Inv, PowerCycle
  PROVE  Inv'
<1>1. /\ active' = Resolve(cur, final) /\ ram' = Loaded(final[active'])
      /\ home' = active' /\ dirty' = FALSE /\ raced' = FALSE
      /\ pc' = "idle" /\ op' = "process" /\ old' = None /\ new' = None
      /\ sel' = FALSE
      /\ UNCHANGED <<final, temp, uploads, cur>> /\ Fault /\ Reset
      /\ cut' = (cut \/ (pc = "swap" /\ final[active] = Missing)
                    \/ (op = "rename" /\ Following))
      /\ final \in [Name -> Content] /\ cur \in Cards \cup {None}
  BY Types DEF PowerCycle, Boot, Return, disk, Following
<1>2. /\ active' \in Owned /\ active' \in Name
      /\ active' \in Cards => Loadable(final[active'])
  BY <1>1, Names DEF Resolve
<1>3. TFTPTypeOK'
  BY <1>1, Faults, Files DEF Inv, TypeOK, TFTPTypeOK, Reset
<1>4. TypeOK'
  BY <1>1, <1>2, <1>3, Images DEF Inv, TypeOK, Pcs
<1>5. Session' /\ Snapshot' /\ Request'
  BY <1>1 DEF Reset, Session, Snapshot, Request, Following
<1>6. OnDisk'
  BY <1>1, <1>2, Images DEF OnDisk
<1>7. Selection'
  BY <1>1 DEF Inv, Selection, Replacing
<1>. QED BY <1>4, <1>5, <1>6, <1>7 DEF Inv

----------------------------------------------------------------------------

LEMMA InvInit == Init => Inv
<1> SUFFICES ASSUME Init PROVE Inv
  OBVIOUS
<1>1. /\ temp = [n \in Name |-> Missing]
      /\ cur \in {None} \cup {n \in Cards : Loadable(final[n])}
      /\ active = Resolve(cur, final) /\ ram = Loaded(final[active])
      /\ dirty = FALSE /\ pc = "idle" /\ op = "process"
      /\ old = None /\ new = None /\ sel = FALSE /\ Idle
      /\ home = active /\ raced = FALSE /\ cut = FALSE
      /\ uploads = 0 /\ faults = 0
  BY DEF Init
<1>2. final \in [Name -> Content]
  <2>1. PICK some \in SUBSET Owned, short \in SUBSET Cards :
          final = [n \in Name |->
                     IF n \notin some THEN Missing
                     ELSE [size |-> IF n \in short THEN 0 ELSE Full, img |-> n]]
    BY DEF Init
  <2>2. \A n \in some : n \in Img
    BY StoreAssumption
  <2>. QED BY <2>1, <2>2, Files
<1>3. /\ active \in Owned /\ active \in Name
      /\ active \in Cards => Loadable(final[active])
  BY <1>1, Names DEF Resolve
<1>4. TFTPTypeOK
  <2>1. temp \in [Name -> Content]
    BY <1>1, Files
  <2>2. 0 \in 0..MaxFaults /\ 0 \in 0..MaxUploads /\ 0 \in Blocks
    BY TFTPAssumption DEF Blocks
  <2>. QED BY <1>1, <1>2, <2>1, <2>2 DEF TFTPTypeOK, Idle
<1>5. TypeOK
  BY <1>1, <1>2, <1>3, <1>4, Images DEF TypeOK, Pcs
<1>6. Session /\ Snapshot /\ Request /\ Selection
  BY <1>1 DEF Idle, Session, Snapshot, Request, Selection, Following
<1>7. OnDisk
  BY <1>1, <1>3, Images DEF OnDisk
<1>. QED BY <1>5, <1>6, <1>7 DEF Inv

LEMMA InvStep == Inv /\ [Next]_vars => Inv'
<1> SUFFICES ASSUME Inv, [Next]_vars PROVE Inv'
  OBVIOUS
<1>1. CASE FlushCardRAMIfNeeded
  BY <1>1, StartFlushKeeps, FlushTempKeeps, FlushUnlinkKeeps, FlushSwapKeeps
     DEF FlushCardRAMIfNeeded
<1>2. CASE HTTPRequest
  BY <1>2, SelectKeeps, DeleteKeeps, RenameKeeps, MoveKeeps, SelKeeps,
     RollbackKeeps DEF HTTPRequest
<1>3. CASE UNCHANGED vars
  <2>1. /\ UNCHANGED <<final, temp, file, target, kernelT, syxT, cardT, bytes>>
        /\ UNCHANGED <<held, uploads, faults, cur, active, ram, dirty, pc>>
        /\ UNCHANGED <<op, old, new, sel, home, raced, cut>>
    BY <1>3 DEF vars, disk, tftp, flags, mem, web, ghost
  <2>. QED BY <2>1
       DEF Inv, TypeOK, TFTPTypeOK, Session, Snapshot, OnDisk, Selection,
           Request, Replacing, Following
<1>. QED BY <1>1, <1>2, <1>3, EditKeeps, TFTPKeeps, PowerCycleKeeps DEF Next

(* Types.                                                                   *)
THEOREM CardStoreTypeCorrect == Spec => []TypeOK
<1>1. Inv => TypeOK
  BY DEF Inv
<1>. QED BY InvInit, InvStep, <1>1, PTL DEF Spec

(* FileClose decides by flags and a counter that are the upload's own.      *)
THEOREM OwnSession == Spec => []UploadSession
<1>1. Inv => UploadSession
  BY Names DEF Inv, Session, UploadSession, Lost
<1>. QED BY InvInit, InvStep, <1>1, PTL DEF Spec

(* The selected card can be loaded.                                         *)
THEOREM SelectedLoads == Spec => []SelectionLoads
<1>1. Inv => SelectionLoads
  BY DEF Inv, Selection, Request, Replacing, SelectionLoads
<1>. QED BY InvInit, InvStep, <1>1, PTL DEF Spec

(* A clean card is on disk.                                                 *)
THEOREM CleanIsSaved == Spec => []CleanCardIsOnDisk
<1>1. Inv => CleanCardIsOnDisk
  BY Types, Names DEF Inv, OnDisk, CleanCardIsOnDisk
<1>. QED BY InvInit, InvStep, <1>1, PTL DEF Spec

----------------------------------------------------------------------------
(* What a step may do to the files of the collection.                       *)

(* The ways a card file changes: removed by a request, or replaced by the   *)
(* flush, moved to a free name, or touched by the daemon.                   *)
Gone(n)    == final'[n] = Missing
Swapped(n) == pc = "swap" /\ n = active /\ Loadable(final'[n])
Moved(s, d) ==
  /\ s \in Cards /\ d \in Cards /\ s # d
  /\ final[s] # Missing /\ final[d] = Missing
  /\ final' = [final EXCEPT ![d] = final[s], ![s] = Missing]

LEMMA Changes ==
  ASSUME Inv, [Next]_vars
  PROVE  \/ \E s, d \in Cards : Moved(s, d)
         \/ \A n \in Cards : \/ final'[n] = final[n] \/ Gone(n) \/ Swapped(n)
                             \/ Arrives(n) \/ Spoilt(n)
<1>1. final \in [Name -> Content] /\ active \in Name /\ Cards \subseteq Name
  BY Types, Names
<1>2. CASE FlushCardRAMIfNeeded
  <2>1. CASE FlushUnlink
    BY <1>1, <2>1 DEF FlushUnlink, Gone
  <2>2. CASE FlushSwap
    <3>1. Loadable(temp[active]) /\ pc = "swap"
      BY <2>2 DEF FlushSwap, Inv, Snapshot
    <3>2. final' = final \/ final' = [final EXCEPT ![active] = temp[active]]
      BY <2>2 DEF FlushSwap
    <3>. QED BY <1>1, <3>1, <3>2 DEF Swapped
  <2>. QED BY <1>2, <2>1, <2>2
       DEF FlushCardRAMIfNeeded, StartFlush, FlushTemp, disk
<1>3. CASE HTTPRequest
  <2>1. CASE \E n \in Cards : DeleteExec(n)
    BY <1>1, <2>1 DEF DeleteExec, Gone
  <2>2. CASE Move
    <3>1. /\ old \in Cards /\ new \in Cards /\ old # new
          /\ final[new] = Missing
      BY <2>2 DEF Move, Inv, TypeOK, Request, Following
    <3>2. final' = final \/ Moved(old, new)
      BY <2>2, <3>1 DEF Move, Moved
    <3>. QED BY <3>1, <3>2
  <2>3. CASE Rollback
    <3>1. /\ old \in Cards /\ new \in Cards /\ old # new
          /\ final[old] = Missing /\ final[new] # Missing
      BY <2>3 DEF Rollback, Inv, TypeOK, Request, Following
    <3>2. final' = final \/ Moved(new, old)
      BY <2>3, <3>1 DEF Rollback, Moved
    <3>. QED BY <3>1, <3>2
  <2>. QED BY <1>3, <2>1, <2>2, <2>3
       DEF HTTPRequest, SelectExec, RenameExec, SelWrite, SelRemove, SelMove, disk
<1>4. CASE TFTPRequest
  BY <1>1, <1>4, DaemonKeeps DEF Outcome
<1>5. CASE EditCard \/ PowerCycle \/ UNCHANGED vars
  BY <1>5 DEF EditCard, PowerCycle, vars, disk
<1>. QED BY <1>2, <1>3, <1>4, <1>5 DEF Next

(* No step makes another card file of a wrong length.                       *)
THEOREM ShortStayFew == Spec => ShortCardsNeverGrow
<1> DEFINE Short(f) == {n \in Cards : f[n] # Missing /\ ~Loadable(f[n])}
<1>1. ASSUME Inv, [Next]_vars
      PROVE  Cardinality(Short(final')) <= Cardinality(Short(final))
  <2>1. /\ IsFiniteSet(Short(final)) /\ IsFiniteSet(Short(final'))
        /\ Cardinality(Short(final)) \in Nat
    <3>1. IsFiniteSet(Cards)
      BY StoreAssumption
    <3>2. Short(final) \subseteq Cards /\ Short(final') \subseteq Cards
      OBVIOUS
    <3>3. IsFiniteSet(Short(final)) /\ IsFiniteSet(Short(final'))
      BY <3>1, <3>2, FS_Subset
    <3>. QED BY <3>3, FS_CardinalityType
  <2>2. CASE Short(final') \subseteq Short(final)
    BY <2>1, <2>2, FS_Subset
  <2>3. CASE \A n \in Cards : \/ final'[n] = final[n] \/ Gone(n) \/ Swapped(n)
                              \/ Arrives(n) \/ Spoilt(n)
    <3>1. ASSUME NEW n \in Short(final') PROVE n \in Short(final)
      <4>1. n \in Cards /\ final'[n] # Missing /\ ~Loadable(final'[n])
        OBVIOUS
      <4>2. final'[n] = final[n] \/ Spoilt(n)
        BY <2>3, <4>1 DEF Gone, Swapped, Arrives
      <4>3. ASSUME Spoilt(n) PROVE n \in Short(final)
        <5>1. final[n] \in File
          BY <1>1, <4>1, <4>3, Types, Names, Files DEF Spoilt
        <5>. QED BY <4>1, <4>3, <5>1, Images DEF Spoilt
      <4>. QED BY <4>1, <4>2, <4>3
    <3>. QED BY <2>2, <3>1
  <2>4. ASSUME NEW s \in Cards, NEW d \in Cards, Moved(s, d)
        PROVE  Cardinality(Short(final')) <= Cardinality(Short(final))
    <3>1. /\ s # d /\ final[d] = Missing /\ final[s] # Missing
          /\ \A n \in Cards : final'[n] = IF n = s THEN Missing
                                          ELSE IF n = d THEN final[s] ELSE final[n]
      BY <1>1, <2>4, Types, Names DEF Moved
    <3>2. CASE Loadable(final[s])
      <4>1. Short(final') \subseteq Short(final)
        BY <3>1, <3>2
      <4>. QED BY <2>2, <4>1
    <3>3. CASE ~Loadable(final[s])
      <4> DEFINE Rest == Short(final) \ {s}
      <4>1. s \in Short(final) /\ d \notin Rest /\ Short(final') = Rest \cup {d}
        BY <3>1, <3>3
      <4>2. /\ IsFiniteSet(Rest)
            /\ Cardinality(Rest) = Cardinality(Short(final)) - 1
        BY <2>1, <4>1, FS_RemoveElement
      <4>3. Cardinality(Rest \cup {d}) = Cardinality(Rest) + 1
        BY <4>1, <4>2, FS_AddElement
      <4>. QED BY <2>1, <4>1, <4>2, <4>3
    <3>. QED BY <3>2, <3>3
  <2>. QED BY <1>1, <2>3, <2>4, Changes
<1>2. Inv /\ [Next]_vars =>
        [Cardinality({n \in Cards : final'[n] # Missing /\ ~Loadable(final'[n])})
           <= Cardinality({n \in Cards : final[n] # Missing /\ ~Loadable(final[n])})
        ]_vars
  BY <1>1
<1>. QED BY InvInit, InvStep, <1>2, PTL DEF Spec, ShortCardsNeverGrow

----------------------------------------------------------------------------
(* The shelf.                                                               *)

(* A selection in progress is of a card that can be loaded, or of the one   *)
(* in memory, whose flush may have failed.                                  *)
Choosing ==
  op = "select" => old = None /\ (Loadable(final[new]) \/ new = active)

(* Nothing that the shelf shows has changed.                                *)
Stay ==
  UNCHANGED <<OnShelf, Chosen, active, ram, dirty, Copied, Arriving, Lost, Asked>>

LEMMA Stays ==
  ASSUME Stay PROVE Shelf!Step
BY DEF Stay, Shelf!Step, Shelf!choice, Shelf!memory, Shelf!saving, Shelf!upload

LEMMA SameFiles ==
  /\ \A f : Shelf!Loadable(f) <=> Loadable(f)
  /\ \A i : Shelf!Whole(i) = Whole(i)
BY DEF Shelf!Loadable, Loadable, Shelf!Whole, Whole

LEMMA WriteIsWrite ==
  ASSUME EditCard PROVE Shelf!Step
<1>1. /\ ram' \in Edit /\ dirty' = TRUE
      /\ UNCHANGED <<final, temp, file, target, held, cur, active, pc, op, old, new>>
  BY DEF EditCard, disk, tftp, web
<1>2. UNCHANGED <<OnShelf, Chosen, active, Copied, Arriving, Lost, Asked>>
  BY <1>1 DEF OnShelf, FileOnShelf, Moving, Following, Chosen, Copied, Arriving, Lost, Asked
<1>3. Shelf!Write
  BY <1>1, <1>2 DEF Shelf!Write, Shelf!choice, Shelf!saving, Shelf!upload
<1>. QED BY <1>3 DEF Shelf!Step

LEMMA StartIsSilent ==
  ASSUME Inv, StartFlush PROVE Shelf!Step
<1>1. /\ pc = "idle" /\ pc' = "temp" /\ op = "process" /\ op' = "process"
      /\ UNCHANGED <<final, temp, file, target, held, cur, active, ram, dirty, old, new>>
  BY DEF StartFlush, disk, tftp, mem, Inv, Request
<1>2. Stay
  BY <1>1 DEF Stay, OnShelf, FileOnShelf, Moving, Following, Chosen, Copied, Arriving, Lost, Asked
<1>. QED BY <1>2, Stays

(* Where a flush returns to.                                                *)
LEMMA GoesOn ==
  ASSUME Inv, AfterFlush, pc \in {"temp", "swap"}
  PROVE  /\ pc' \in {"idle", "selWrite", "move"}
         /\ Asked' = Asked /\ ~Moving /\ ~Moving'
         /\ Chosen = cur /\ Chosen' = cur'
<1>1. op \in {"process", "select", "rename"}
  BY DEF Inv, TypeOK
<1>2. CASE op = "process"
  BY <1>2 DEF AfterFlush, Return, Asked, Moving, Following, Chosen
<1>3. CASE op = "select"
  BY <1>3 DEF AfterFlush, Goto, web, Asked, Moving, Following, Chosen
<1>4. CASE op = "rename"
  BY <1>4 DEF AfterFlush, Goto, web, Asked, Moving, Following, Chosen
<1>. QED BY <1>1, <1>2, <1>3, <1>4

(* Whether the card in memory is saved under the name of an upload.         *)
LEMMA OwnUpload ==
  ASSUME Inv
  PROVE  /\ Lost => Arriving = active
         /\ Arriving = active <=> file \in {"write", "failed"} /\ target = active
         /\ file \in {"write", "failed"} /\ target = active => held \in {None, active}
         /\ file \in {"write", "failed"} /\ target # active => held = target /\ held # None
<1>1. active \in Owned /\ active # None /\ None \notin Cards
  BY Types, Names
<1>2. file \in {"write", "failed"} =>
        /\ target \in Remote /\ held \in {None, target}
        /\ held = None => target = active
  BY DEF Inv, Session
<1>3. \A n \in Remote : n \in Owned => n \in Cards
  BY Names
<1>. QED BY <1>1, <1>2, <1>3, Names DEF Arriving, Lost

LEMMA TempIsPrepare ==
  ASSUME Inv, FlushTemp PROVE Shelf!Step
<1>1. /\ pc = "temp" /\ dirty /\ active \in Name /\ temp \in [Name -> Content]
      /\ op \in {"process", "select", "rename"}
      /\ UNCHANGED <<final, cur, active, ram, dirty, file, target>>
      /\ held' = IF held = active /\ (pc' = "unlink" \/ temp' # temp)
                   THEN None ELSE held
  BY Types DEF FlushTemp, mem, Inv, Snapshot, TypeOK
<1>2. Arriving' = Arriving
  BY <1>1 DEF Arriving
<1>3. Lost' \in {Lost, Arriving = active}
  BY <1>1, OwnUpload DEF Lost
<1>4. Copied = {} /\ OnShelf = [n \in Owned |-> final[n]] /\ ~Moving
  BY <1>1 DEF Copied, OnShelf, FileOnShelf, Moving, Following
<1>5. CASE pc' = "unlink" /\ UNCHANGED web /\ temp' = [temp EXCEPT ![active] = Whole(ram)]
  <2>1. Lost' = (Arriving = active)
    BY <1>1, <1>5, OwnUpload DEF Lost
  <2>2. temp'[active].img = ram
    BY <1>1, <1>5 DEF Whole
  <2>3. Copied' = {ram}
    BY <1>1, <1>5, <2>2 DEF Copied
  <2>4. OnShelf' = OnShelf
    BY <1>1, <1>4, <1>5 DEF OnShelf, FileOnShelf, Moving, Following
  <2>5. Asked' = Asked /\ Chosen' = Chosen
    BY <1>1, <1>5 DEF web, Asked, Chosen, Moving, Following
  <2>6. Shelf!Prepare
    BY <1>1, <1>2, <1>4, <2>1, <2>3, <2>4, <2>5
       DEF Shelf!Prepare, Shelf!choice, Shelf!memory
  <2>. QED BY <2>6 DEF Shelf!Step
<1>6. CASE AfterFlush
  <2>1. /\ pc' \in {"idle", "selWrite", "move"} /\ Asked' = Asked /\ ~Moving'
        /\ Chosen' = Chosen
    BY <1>1, <1>6, GoesOn
  <2>2. Copied' = {} /\ OnShelf' = OnShelf
    BY <1>1, <1>4, <2>1 DEF Copied, OnShelf, FileOnShelf
  <2>3. Shelf!Prepare
    BY <1>1, <1>2, <1>3, <1>4, <2>1, <2>2
       DEF Shelf!Prepare, Shelf!choice, Shelf!memory
  <2>. QED BY <2>3 DEF Shelf!Step
<1>. QED BY <1>5, <1>6 DEF FlushTemp, Goto

(* The snapshot is the file from the unlink on.                             *)
LEMMA UnlinkIsSave ==
  ASSUME Inv, FlushUnlink PROVE Shelf!Step
<1>1. /\ pc = "unlink" /\ pc' = "swap" /\ active \in Name /\ active \in Owned
      /\ final \in [Name -> Content]
      /\ final' = [final EXCEPT ![active] = Missing] \/ final' = final
      /\ UNCHANGED <<temp, cur, active, ram, dirty, file, target, held, op, old, new>>
      /\ op \in {"process", "select", "rename"}
      /\ temp[active] = Whole(temp[active].img)
  <2>1. Loadable(temp[active]) /\ temp[active] \in Content
    BY Types DEF FlushUnlink, Inv, Snapshot
  <2>2. temp[active] = Whole(temp[active].img)
    BY <2>1, Images DEF Whole, File, Loadable
  <2>. QED BY <2>2, Types DEF FlushUnlink, mem, tftp, web, Inv, TypeOK
<1>2. /\ Copied = {temp[active].img} /\ Copied' = Copied /\ Arriving' = Arriving
      /\ Lost' = Lost /\ Asked' = Asked /\ Chosen' = Chosen
  BY <1>1 DEF Copied, Arriving, Lost, Asked, Chosen, Moving, Following
<1>3. OnShelf = [n \in Owned |-> final[n]] /\ OnShelf \in [Owned -> Content]
  BY <1>1, Names DEF OnShelf, FileOnShelf, Moving, Following
<1>4. OnShelf' = [n \in Owned |->
                    IF n = active /\ final'[n] = Missing THEN temp[n] ELSE final'[n]]
  BY <1>1 DEF OnShelf, FileOnShelf, Moving, Following
<1>5. CASE final'[active] = Missing
  <2>1. OnShelf' = [OnShelf EXCEPT ![active] = Whole(temp[active].img)]
    BY <1>1, <1>3, <1>4, <1>5, Names
  <2>2. Shelf!Save
    BY <1>1, <1>2, <2>1, SameFiles
       DEF Shelf!Save, Shelf!With, Shelf!memory, Shelf!saving, Shelf!upload
  <2>. QED BY <2>2 DEF Shelf!Step
<1>6. CASE final'[active] # Missing
  <2>1. OnShelf' = OnShelf
    BY <1>1, <1>3, <1>4, <1>6
  <2>. QED BY <1>1, <1>2, <2>1, Stays DEF Stay
<1>. QED BY <1>5, <1>6

(* A failing rename loses the file that is gone already.                    *)
LEMMA SwapIsClean ==
  ASSUME Inv, FlushSwap
  PROVE  Shelf!Step \/ (Shelf!Accident /\ Fault)
<1>1. /\ pc = "swap" /\ active \in Name /\ active \in Owned /\ AfterFlush
      /\ final \in [Name -> Content] /\ final' \in [Name -> Content]
      /\ UNCHANGED <<cur, active, ram, file, target, held>>
      /\ temp[active] = Whole(temp[active].img) /\ temp[active] # Missing
  <2>1. Loadable(temp[active]) /\ temp[active] \in Content /\ pc = "swap"
    BY Types DEF FlushSwap, Inv, Snapshot
  <2>2. temp[active] = Whole(temp[active].img)
    BY <2>1, Images DEF Whole, File, Loadable
  <2>. QED BY <2>1, <2>2, Types, Images DEF FlushSwap, tftp
<1>2. /\ pc' \in {"idle", "selWrite", "move"} /\ Asked' = Asked /\ ~Moving /\ ~Moving'
      /\ Chosen' = Chosen
  BY <1>1, GoesOn
<1>3. /\ Copied = {temp[active].img} /\ Copied' = {} /\ Arriving' = Arriving
      /\ Lost' = Lost
  BY <1>1, <1>2 DEF Copied, Arriving, Lost
<1>4. OnShelf = [n \in Owned |->
                   IF n = active /\ final[n] = Missing THEN temp[n] ELSE final[n]]
  BY <1>1, <1>2 DEF OnShelf, FileOnShelf
<1>5. OnShelf' = [n \in Owned |-> final'[n]]
  BY <1>2 DEF OnShelf, FileOnShelf
<1>6. CASE final[active] = Missing /\ final' = [final EXCEPT ![active] = temp[active]]
             /\ dirty' = FALSE
  <2>1. OnShelf' = OnShelf /\ OnShelf[active] = Whole(temp[active].img)
    BY <1>1, <1>4, <1>5, <1>6, Names
  <2>2. Shelf!Clean
    BY <1>1, <1>2, <1>3, <1>6, <2>1, SameFiles
       DEF Shelf!Clean, Shelf!choice, Shelf!upload
  <2>. QED BY <2>2 DEF Shelf!Step
<1>7. CASE final[active] = Missing /\ final' = final /\ dirty' = dirty /\ Fault
  <2>1. OnShelf[active] = Whole(temp[active].img)
    BY <1>1, <1>4, <1>7
  <2>2. OnShelf' = [OnShelf EXCEPT ![active] = Missing]
    BY <1>1, <1>4, <1>5, <1>7, Names
  <2>3. Shelf!LoseFile
    BY <1>2, <1>3, <2>1, <2>2, SameFiles DEF Shelf!LoseFile, Shelf!With
  <2>4. Shelf!Accident
    BY <1>1, <1>2, <1>3, <1>7, <2>3 DEF Shelf!Accident, Shelf!memory, Shelf!upload
  <2>. QED BY <1>7, <2>4
<1>8. CASE final[active] # Missing /\ final' = final /\ dirty' = dirty
  <2>1. OnShelf' = OnShelf
    BY <1>1, <1>4, <1>5, <1>8
  <2>2. Shelf!Fail
    BY <1>1, <1>2, <1>3, <1>8, <2>1 DEF Shelf!Fail, Shelf!choice, Shelf!memory, Shelf!upload
  <2>. QED BY <2>2 DEF Shelf!Step
<1>. QED BY <1>6, <1>7, <1>8 DEF FlushSwap

(* The requests.                                                            *)

LEMMA SelectIsAsked ==
  ASSUME Inv, NEW n \in Cards, SelectExec(n) PROVE Shelf!Step
<1>1. /\ pc = "idle" /\ op = "process" /\ Loadable(final[n]) /\ n \in Owned
      /\ op' = "select" /\ new' = n /\ old' = None
      /\ pc' \in {"temp", "selWrite"}
      /\ UNCHANGED <<final, temp, cur, active, ram, dirty, file, target, held>>
  BY Names DEF SelectExec, FlushThen, disk, tftp, mem, Inv, Request
<1>2. /\ Copied = {} /\ UNCHANGED <<OnShelf, Chosen, Copied, Arriving, Lost>>
      /\ OnShelf[n] = final[n]
  BY <1>1 DEF OnShelf, FileOnShelf, Moving, Following, Chosen, Copied, Arriving, Lost
<1>3. /\ Asked = Shelf!NoTask
      /\ Asked' = [op |-> "select", old |-> None, new |-> n]
  BY <1>1 DEF Asked, Shelf!NoTask
<1>4. Shelf!AskSelect(n)
  BY <1>1, <1>2, <1>3, SameFiles
     DEF Shelf!AskSelect, Shelf!choice, Shelf!memory, Shelf!saving, Shelf!upload
<1>. QED BY <1>4 DEF Shelf!Step

LEMMA RenameIsAsked ==
  ASSUME Inv, NEW o \in Cards, NEW n \in Cards, RenameExec(o, n)
  PROVE  Shelf!Step
<1>1. /\ pc = "idle" /\ op = "process" /\ n \in Owned /\ o \in Owned
      /\ o # n /\ final[o] # Missing /\ final[n] = Missing
      /\ op' = "rename" /\ new' = n /\ old' = o
      /\ pc' \in {"temp", "move"}
      /\ UNCHANGED <<final, temp, cur, active, ram, dirty, file, target, held>>
  BY Names DEF RenameExec, FlushThen, disk, tftp, mem, Inv, Request
<1>2. /\ UNCHANGED <<OnShelf, Chosen, Copied, Arriving, Lost>>
      /\ OnShelf[n] = final[n] /\ OnShelf[o] = final[o]
  BY <1>1 DEF OnShelf, FileOnShelf, Moving, Following, Chosen, Copied, Arriving, Lost
<1>3. /\ Asked = Shelf!NoTask
      /\ Asked' = [op |-> "rename", old |-> o, new |-> n]
  BY <1>1 DEF Asked, Shelf!NoTask
<1>4. Shelf!AskRename(o, n)
  BY <1>1, <1>2, <1>3
     DEF Shelf!AskRename, Shelf!choice, Shelf!memory, Shelf!saving, Shelf!upload
<1>. QED BY <1>4 DEF Shelf!Step

LEMMA DeleteIsDelete ==
  ASSUME Inv, NEW n \in Cards, DeleteExec(n) PROVE Shelf!Step
<1>1. /\ pc = "idle" /\ op = "process" /\ final[n] # Missing /\ n # cur /\ n # active
      /\ n \in Owned /\ final \in [Name -> Content]
      /\ final' = [final EXCEPT ![n] = Missing]
      /\ UNCHANGED <<temp, cur, active, ram, dirty, file, target, held, pc, op, old, new>>
  BY Names, Types DEF DeleteExec, Selected, Active, tftp, mem, web, Inv, Request
<1>2. /\ UNCHANGED <<Chosen, Copied, Arriving, Lost, Asked>> /\ Chosen = cur
      /\ OnShelf = [m \in Owned |-> final[m]] /\ OnShelf' = [m \in Owned |-> final'[m]]
  BY <1>1 DEF OnShelf, FileOnShelf, Moving, Following, Chosen, Copied, Arriving, Lost, Asked
<1>3. OnShelf' = [OnShelf EXCEPT ![n] = Missing] /\ OnShelf[n] # Missing
  BY <1>1, <1>2, Names
<1>4. Shelf!Delete(n)
  BY <1>1, <1>2, <1>3
     DEF Shelf!Delete, Shelf!With, Shelf!memory, Shelf!saving, Shelf!upload
<1>. QED BY <1>4 DEF Shelf!Step

(* A rename of the card that is not selected is done with its file.         *)
LEMMA MoveIsRename ==
  ASSUME Inv, Move PROVE Shelf!Step
<1>1. /\ pc = "move" /\ op = "rename" /\ old \in Cards /\ new \in Cards /\ old # new
      /\ old \in Owned /\ new \in Owned
      /\ final[new] = Missing /\ sel = (cur = old) /\ final \in [Name -> Content]
      /\ UNCHANGED <<temp, cur, active, ram, dirty, file, target, held>>
      /\ cur \in Cards \cup {None}
  BY Types, Names DEF Move, tftp, mem, Inv, TypeOK, Request, Following
<1>2. /\ Chosen = cur /\ Copied = {} /\ OnShelf = [n \in Owned |-> final[n]]
      /\ Asked = [op |-> "rename", old |-> old, new |-> new]
  BY <1>1 DEF OnShelf, FileOnShelf, Moving, Following, Chosen, Copied, Asked
<1>3. UNCHANGED <<Arriving, Lost>>
  BY <1>1 DEF Arriving, Lost
<1>4. CASE /\ final[old] # Missing /\ sel /\ Goto("selWrite")
           /\ final' = [final EXCEPT ![new] = final[old], ![old] = Missing]
  <2>1. UNCHANGED <<op, old, new>> /\ pc' = "selWrite"
    BY <1>4 DEF Goto, web
  <2>2. Chosen' = Chosen /\ Copied' = Copied /\ Asked' = Asked
    BY <1>1, <1>2, <1>4, <2>1 DEF Chosen, Copied, Asked, Moving, Following
  <2>3. OnShelf' = [n \in Owned |-> IF n = old THEN final'[new]
                                    ELSE IF n = new THEN Missing ELSE final'[n]]
    BY <1>1, <2>1 DEF OnShelf, FileOnShelf, Moving, Following
  <2>4. OnShelf' = OnShelf
    BY <1>1, <1>2, <1>4, <2>3, Names
  <2>. QED BY <1>1, <1>3, <2>2, <2>4, Stays DEF Stay
<1>5. CASE /\ final[old] # Missing /\ ~sel /\ Return
           /\ final' = [final EXCEPT ![new] = final[old], ![old] = Missing]
  <2>1. op' = "process" /\ pc' = "idle"
    BY <1>5 DEF Return
  <2>2. Chosen' = cur /\ Copied' = {} /\ Asked' = Shelf!NoTask
    BY <1>1, <2>1 DEF Chosen, Copied, Asked, Moving, Following, Shelf!NoTask
  <2>3. OnShelf' = [n \in Owned |-> final'[n]]
    BY <2>1 DEF OnShelf, FileOnShelf, Moving, Following
  <2>4. OnShelf' = [OnShelf EXCEPT ![new] = OnShelf[old], ![old] = Missing]
    BY <1>1, <1>2, <1>5, <2>3, Names
  <2>5. Shelf!Rename(old, new)
    BY <1>1, <1>2, <1>3, <1>5, <2>2, <2>4
       DEF Shelf!Rename, Shelf!Renamed, Shelf!Begun, Shelf!memory, Shelf!saving, Shelf!upload
  <2>. QED BY <1>1, <2>5 DEF Shelf!Step
<1>6. CASE final' = final /\ Return
  <2>1. op' = "process" /\ pc' = "idle"
    BY <1>6 DEF Return
  <2>2. /\ Chosen' = cur /\ Copied' = {} /\ Asked' = Shelf!NoTask
        /\ OnShelf' = OnShelf
    BY <1>1, <1>2, <1>6, <2>1
       DEF OnShelf, FileOnShelf, Chosen, Copied, Asked, Moving, Following, Shelf!NoTask
  <2>3. Shelf!Answer
    BY <1>1, <1>2, <1>3, <2>2
       DEF Shelf!Answer, Shelf!choice, Shelf!memory, Shelf!saving, Shelf!upload
  <2>. QED BY <2>3 DEF Shelf!Step
<1>. QED BY <1>4, <1>5, <1>6 DEF Move

(* What a request has found that writes current.txt.                        *)
LEMMA Follows ==
  ASSUME Inv, Following
  PROVE  /\ Copied = {} /\ final \in [Name -> Content]
         /\ op = "select" \/ op = "rename"
         /\ op = "select" =>
              /\ OnShelf = [n \in Owned |-> final[n]] /\ new \in Cards /\ ~Moving
              /\ pc # "rollback"
              /\ Chosen = IF pc = "selMove" /\ cur = None THEN new ELSE cur
              /\ Asked = [op |-> "select", old |-> old, new |-> new]
         /\ op = "rename" =>
              /\ OnShelf = [n \in Owned |-> IF n = old THEN final[new]
                                           ELSE IF n = new THEN Missing ELSE final[n]]
              /\ old \in Cards /\ new \in Cards /\ old # new /\ Moving
              /\ final[old] = Missing /\ final[new] # Missing /\ cur \in {old, None}
              /\ Chosen = IF pc # "rollback" THEN old ELSE cur
              /\ Asked = [op |-> "rename", old |-> old, new |-> new]
<1>1. /\ pc \in {"selWrite", "selRemove", "selMove", "rollback"}
      /\ final \in [Name -> Content]
  BY Types DEF Following, Inv, Request, TypeOK
<1>2. Copied = {} /\ final \in [Name -> Content]
  BY <1>1, Types DEF Copied
<1>3. op = "select" \/ op = "rename"
  BY <1>1 DEF Inv, Request, TypeOK
<1>4. CASE op = "select"
  BY <1>1, <1>2, <1>4 DEF OnShelf, FileOnShelf, Moving, Chosen, Asked, Inv, Request
<1>5. CASE op = "rename"
  <2>1. /\ old \in Cards /\ new \in Cards /\ old # new /\ Moving
        /\ final[old] = Missing /\ final[new] # Missing /\ cur \in {old, None}
    BY <1>5 DEF Inv, Request, Moving
  <2>. QED BY <1>1, <1>2, <1>5, <2>1 DEF OnShelf, FileOnShelf, Chosen, Asked
<1>. QED BY <1>2, <1>3, <1>4, <1>5

(* The selection or the rename ends, and nothing is asked any more.         *)
LEMMA Ends ==
  ASSUME Return
  PROVE  /\ Copied' = {} /\ Chosen' = cur' /\ Asked' = Shelf!NoTask
         /\ OnShelf' = [n \in Owned |-> final'[n]]
<1>1. pc' = "idle" /\ op' = "process"
  BY DEF Return
<1>. QED BY <1>1 DEF Copied, Chosen, Moving, Following, Asked, Shelf!NoTask, OnShelf, FileOnShelf

LEMMA SelWriteIsSilent ==
  ASSUME Inv, SelWrite PROVE Shelf!Step \/ (Shelf!Accident /\ Fault)
<1>1. /\ pc = "selWrite" /\ Following
      /\ UNCHANGED <<final, temp, cur, active, ram, dirty, file, target, held>>
      /\ UNCHANGED <<Arriving, Lost>>
  BY DEF SelWrite, Following, disk, tftp, mem, Arriving, Lost
<1>2. CASE Goto("selRemove")
  <2>1. pc' = "selRemove" /\ UNCHANGED <<op, old, new>>
    BY <1>2 DEF Goto, web
  <2>2. Stay
    BY <1>1, <2>1 DEF Stay, OnShelf, FileOnShelf, Moving, Following, Chosen, Copied, Asked
  <2>. QED BY <2>2, Stays
<1>3. CASE op # "rename" /\ Return
  <2>1. OnShelf' = OnShelf /\ Chosen' = Chosen /\ Copied' = Copied /\ Asked' = Shelf!NoTask
    BY <1>1, <1>3, Follows, Ends
  <2>2. Shelf!Answer
    BY <1>1, <2>1 DEF Shelf!Answer, Shelf!choice, Shelf!memory, Shelf!saving, Shelf!upload
  <2>. QED BY <2>2 DEF Shelf!Step
<1>4. CASE op = "rename" /\ Goto("rollback") /\ Fault
  <2>1. pc' = "rollback" /\ UNCHANGED <<op, old, new>>
    BY <1>4 DEF Goto, web
  <2>2. /\ OnShelf' = OnShelf /\ Asked' = Asked /\ Copied' = Copied
        /\ Chosen' = cur /\ Chosen = old /\ Copied = {}
        /\ cur \in {old, None} /\ new \in Cards
        /\ Asked = [op |-> "rename", old |-> old, new |-> new]
    BY <1>1, <1>4, <2>1, Follows
       DEF OnShelf, FileOnShelf, Moving, Following, Chosen, Copied, Asked
  <2>3. CASE cur = old
    BY <1>1, <2>2, <2>3, Stays DEF Stay
  <2>4. CASE cur = None
    <3>1. Shelf!LoseChoice
      BY <2>2, <2>4 DEF Shelf!LoseChoice, Shelf!Begun
    <3>2. Shelf!Accident
      BY <1>1, <2>2, <3>1 DEF Shelf!Accident, Shelf!memory, Shelf!upload
    <3>. QED BY <1>4, <3>2
  <2>. QED BY <2>2, <2>3, <2>4
<1>. QED BY <1>2, <1>3, <1>4 DEF SelWrite, SelFails

(* A selection is made when current.txt is gone.                            *)
LEMMA SelRemoveIsSelect ==
  ASSUME Inv, Choosing, SelRemove PROVE Shelf!Step
<1>1. /\ pc = "selRemove" /\ pc' = "selMove" /\ Following
      /\ UNCHANGED <<final, temp, active, ram, dirty, file, target, held, op, old, new>>
      /\ UNCHANGED <<Arriving, Lost>> /\ cur' \in {None, cur}
  BY DEF SelRemove, Following, Goto, web, disk, tftp, mem, Arriving, Lost
<1>2. UNCHANGED <<OnShelf, Copied, Asked>>
  BY <1>1 DEF OnShelf, FileOnShelf, Moving, Following, Copied, Asked
<1>3. CASE op = "rename"
  <2>1. Chosen' = Chosen
    BY <1>1, <1>3 DEF Chosen, Moving, Following
  <2>. QED BY <1>1, <1>2, <2>1, Stays DEF Stay
<1>4. CASE op = "select"
  <2>1. /\ new \in Cards /\ OnShelf[new] = final[new] /\ Chosen = cur
        /\ Asked = [op |-> "select", old |-> None, new |-> new] /\ old = None
    BY <1>1, <1>4, Follows, Names DEF Choosing
  <2>2. Chosen' = IF cur' = None THEN new ELSE cur'
    BY <1>1, <1>4 DEF Chosen, Moving
  <2>3. CASE cur' = None
    <3>1. old = None /\ (Loadable(final[new]) \/ new = active)
      BY <1>4 DEF Choosing
    <3>2. Shelf!Select(new)
      BY <1>1, <1>2, <2>1, <2>2, <2>3, <3>1, SameFiles
         DEF Shelf!Select, Shelf!Begun, Shelf!memory, Shelf!saving, Shelf!upload
    <3>. QED BY <2>1, <3>2 DEF Shelf!Step
  <2>4. CASE cur' # None
    BY <1>1, <1>2, <2>1, <2>2, <2>4, Stays DEF Stay
  <2>. QED BY <2>3, <2>4
<1>. QED BY <1>1, <1>3, <1>4, Follows

(* A rename of the selected card is done with current.txt.                  *)
LEMMA SelMoveIsRename ==
  ASSUME Inv, Choosing, SelMove
  PROVE  Shelf!Step \/ (Shelf!Accident /\ Fault)
<1>1. /\ pc = "selMove" /\ Following
      /\ UNCHANGED <<final, temp, active, ram, dirty, file, target, held>>
      /\ UNCHANGED <<Arriving, Lost>> /\ Copied = {}
  BY Follows DEF SelMove, Following, disk, tftp, mem, Arriving, Lost
<1>2. CASE op = "select"
  <2>1. /\ Chosen = IF cur = None THEN new ELSE cur
        /\ OnShelf = [n \in Owned |-> final[n]] /\ old = None
        /\ Asked = [op |-> "select", old |-> None, new |-> new]
    BY <1>1, <1>2, Follows DEF Choosing
  <2>2. /\ Return
        /\ \/ cur = None /\ cur' = new
           \/ cur = None /\ cur' = None /\ Fault
           \/ cur # None /\ cur' = cur
    BY <1>2 DEF SelMove, SelFails
  <2>3. /\ OnShelf' = OnShelf /\ Chosen' = cur' /\ Copied' = {}
        /\ Asked' = Shelf!NoTask
    BY <1>1, <2>1, <2>2, Ends
  <2>4. CASE Chosen' = Chosen
    <3>1. Shelf!Answer
      BY <1>1, <2>3, <2>4
         DEF Shelf!Answer, Shelf!choice, Shelf!memory, Shelf!saving, Shelf!upload
    <3>. QED BY <3>1 DEF Shelf!Step
  <2>5. CASE cur = None /\ cur' = None /\ Fault
    <3>1. Shelf!LoseChoice
      BY <2>1, <2>3, <2>5 DEF Shelf!LoseChoice, Shelf!Begun
    <3>2. Shelf!Accident
      BY <1>1, <2>3, <3>1 DEF Shelf!Accident, Shelf!memory, Shelf!upload
    <3>. QED BY <2>5, <3>2
  <2>. QED BY <2>1, <2>2, <2>3, <2>4, <2>5
<1>3. CASE op = "rename"
  <2>1. /\ Chosen = old /\ cur \in {old, None}
        /\ OnShelf = [n \in Owned |-> IF n = old THEN final[new]
                                     ELSE IF n = new THEN Missing ELSE final[n]]
        /\ old \in Cards /\ new \in Cards /\ old # new
        /\ final[old] = Missing /\ final[new] # Missing
        /\ Asked = [op |-> "rename", old |-> old, new |-> new]
    BY <1>1, <1>3, Follows
  <2>2. CASE cur = None /\ cur' = new /\ Return
    <3>1. /\ OnShelf' = [n \in Owned |-> final[n]] /\ Chosen' = new
          /\ Copied' = {} /\ Asked' = Shelf!NoTask
      BY <1>1, <2>2, Ends
    <3>2. /\ OnShelf' = [OnShelf EXCEPT ![new] = OnShelf[old], ![old] = Missing]
          /\ OnShelf[old] # Missing /\ OnShelf[new] = Missing
      BY <2>1, <3>1, Names
    <3>3. Shelf!Rename(old, new)
      BY <1>1, <2>1, <3>1, <3>2
         DEF Shelf!Rename, Shelf!Renamed, Shelf!Begun, Shelf!memory, Shelf!saving, Shelf!upload
    <3>. QED BY <2>1, <3>3 DEF Shelf!Step
  <2>3. CASE Goto("rollback") /\ cur' = cur /\ (cur = None => Fault)
    <3>1. pc' = "rollback" /\ UNCHANGED <<op, old, new>>
      BY <2>3 DEF Goto, web
    <3>2. /\ OnShelf' = OnShelf /\ Asked' = Asked /\ Copied' = {} /\ Chosen' = cur
      BY <1>1, <1>3, <2>3, <3>1
         DEF OnShelf, FileOnShelf, Moving, Following, Chosen, Copied, Asked
    <3>3. CASE cur = old
      BY <1>1, <2>1, <3>2, <3>3, Stays DEF Stay
    <3>4. CASE cur = None
      <4>1. Shelf!LoseChoice
        BY <2>1, <3>2, <3>4 DEF Shelf!LoseChoice, Shelf!Begun
      <4>2. Shelf!Accident
        BY <1>1, <3>2, <4>1 DEF Shelf!Accident, Shelf!memory, Shelf!upload
      <4>. QED BY <2>3, <3>4, <4>2
    <3>. QED BY <2>1, <3>3, <3>4
  <2>. QED BY <1>3, <2>2, <2>3 DEF SelMove, SelFails
<1>. QED BY <1>1, <1>2, <1>3, Follows

LEMMA RollbackIsAnswer ==
  ASSUME Inv, Rollback PROVE Shelf!Step \/ (Shelf!Accident /\ Fault)
<1>1. /\ pc = "rollback" /\ Following /\ Return
      /\ UNCHANGED <<temp, cur, active, ram, dirty, file, target, held>>
      /\ UNCHANGED <<Arriving, Lost>> /\ Copied = {}
  BY Follows DEF Rollback, Following, tftp, mem, Arriving, Lost
<1>2. /\ Chosen = cur /\ cur \in {old, None} /\ final \in [Name -> Content]
      /\ OnShelf = [n \in Owned |-> IF n = old THEN final[new]
                                   ELSE IF n = new THEN Missing ELSE final[n]]
      /\ old \in Cards /\ new \in Cards /\ old # new
      /\ final[old] = Missing /\ final[new] # Missing
      /\ Asked = [op |-> "rename", old |-> old, new |-> new]
  BY <1>1, Follows
<1>3. /\ OnShelf' = [n \in Owned |-> final'[n]] /\ Chosen' = cur /\ Copied' = {}
      /\ Asked' = Shelf!NoTask
  BY <1>1, Ends
<1>4. CASE final' = [final EXCEPT ![old] = final[new], ![new] = Missing]
  <2>1. OnShelf' = OnShelf
    BY <1>2, <1>3, <1>4, Names
  <2>2. Shelf!Answer
    BY <1>1, <1>2, <1>3, <2>1
       DEF Shelf!Answer, Shelf!choice, Shelf!memory, Shelf!saving, Shelf!upload
  <2>. QED BY <2>2 DEF Shelf!Step
<1>5. CASE final' = final /\ Fault
  <2>1. /\ OnShelf' = [OnShelf EXCEPT ![new] = OnShelf[old], ![old] = Missing]
        /\ OnShelf[new] = Missing
    BY <1>2, <1>3, <1>5, Names
  <2>2. Shelf!LoseTie
    BY <1>2, <1>3, <2>1 DEF Shelf!LoseTie, Shelf!Begun, Shelf!Renamed
  <2>3. Shelf!Accident
    BY <1>1, <1>3, <2>2 DEF Shelf!Accident, Shelf!memory, Shelf!upload
  <2>. QED BY <1>5, <2>3
<1>. QED BY <1>4, <1>5 DEF Rollback

(* The daemon: what it leaves alone.                                        *)
LEMMA Apart ==
  ASSUME Inv, Between
  PROVE  /\ UNCHANGED <<Chosen, active, ram, dirty, Copied, Asked>>
         /\ OnShelf = [n \in Owned |-> final[n]]
         /\ OnShelf' = [n \in Owned |-> final'[n]]
<1>1. /\ pc = "idle" /\ pc' = "idle"
      /\ UNCHANGED <<cur, active, ram, dirty, op, old, new>>
  BY DEF Between, mem, web
<1>. QED BY <1>1 DEF Chosen, Copied, Asked, OnShelf, FileOnShelf, Moving, Following

LEMMA OpenIsSilent ==
  ASSUME Inv, Between, NEW n \in Remote, FileOpen(n)
  PROVE  Shelf!Step
<1>1. file = "none" /\ file' \in {"none", "read"} /\ final' = final
  BY DEF FileOpen, FileOpenFails, FileOpens, disk
<1>2. Arriving' = Arriving /\ Lost' = Lost
  BY <1>1 DEF Arriving, Lost
<1>3. OnShelf' = OnShelf
  BY <1>1, Apart
<1>. QED BY <1>2, <1>3, Apart, Stays DEF Stay

(* An upload is announced under a free name.                                *)
LEMMA CreateIsAnnounce ==
  ASSUME Inv, Between, NEW n \in Remote, FileCreate(n)
  PROVE  Shelf!Step
<1>1. file = "none" /\ final' = final /\ Arriving = None /\ Lost = FALSE
  BY DEF FileCreate, Refuse, CreateTemp, CreateStage, disk, Arriving, Lost
<1>2. OnShelf' = OnShelf
  BY <1>1, Apart
<1>3. CASE file' = "none"
  <2>1. Arriving' = Arriving /\ Lost' = Lost
    BY <1>1, <1>3 DEF Arriving, Lost
  <2>. QED BY <1>2, <2>1, Apart, Stays DEF Stay
<1>4. CASE file' = "write" /\ target' = n /\ held' = n /\ n \notin Cards
  <2>1. Arriving' = Arriving /\ Lost' = Lost
    BY <1>1, <1>4, Names DEF Arriving, Lost, Remote
  <2>. QED BY <1>2, <2>1, Apart, Stays DEF Stay
<1>5. CASE file' = "write" /\ target' = n /\ held' = n /\ n \in Cards /\ final[n] = Missing
  <2>1. Arriving' = n /\ Lost' = Lost
    BY <1>1, <1>5, Names DEF Arriving, Lost, Remote
  <2>2. OnShelf[n] = Missing
    BY <1>5, Apart, Names
  <2>3. Shelf!Announce(n)
    BY <1>1, <1>2, <2>1, <2>2, Apart
       DEF Shelf!Announce, Shelf!choice, Shelf!memory, Shelf!saving
  <2>. QED BY <1>5, <2>3 DEF Shelf!Step
<1>6. \/ file' = "none"
      \/ file' = "write" /\ target' = n /\ held' = n /\ (n \in Cards => final[n] = Missing)
  <2>1. CASE Refuse(n)
    BY <2>1 DEF Refuse, Reset
  <2>2. CASE CreateTemp(n)
    BY <2>2 DEF CreateTemp
  <2>3. CASE CreateStage(n)
    BY <2>3, Names DEF CreateStage, Remote
  <2>. QED BY <2>1, <2>2, <2>3 DEF FileCreate
<1>. QED BY <1>3, <1>4, <1>5, <1>6

(* A block of an upload reaches a card only through the lost handle.        *)
LEMMA WriteIsSpoil ==
  ASSUME Inv, Between, FileWrite
  PROVE  Shelf!Step
<1>1. file = "write" /\ file' \in {"write", "failed"} /\ UNCHANGED <<target, held>>
  BY DEF FileWrite, WriteBlock, WriteShort
<1>2. Arriving' = Arriving /\ Lost' = Lost
  BY <1>1 DEF Arriving, Lost
<1>3. CASE final' = final
  <2>1. OnShelf' = OnShelf
    BY <1>3, Apart
  <2>. QED BY <1>2, <2>1, Apart, Stays DEF Stay
<1>4. CASE /\ Lost /\ final[target] # Missing
           /\ final' = [final EXCEPT ![target].img = Garbled]
  <2>1. Arriving = active /\ target = active
    BY <1>1, <1>4, OwnUpload
  <2>2. /\ OnShelf' = [OnShelf EXCEPT ![active] = [OnShelf[active] EXCEPT !.img = Garbled]]
        /\ OnShelf[active] # Missing
    BY <1>4, <2>1, Apart, Types, Names
  <2>3. Shelf!Spoil
    BY <1>2, <1>4, <2>1, <2>2, Apart
       DEF Shelf!Spoil, Shelf!With, Shelf!memory, Shelf!saving, Shelf!upload
  <2>. QED BY <2>3 DEF Shelf!Step
<1>. QED BY <1>3, <1>4 DEF FileWrite, WriteBlock, WriteShort, disk

(* A card arrives whole, or not at all.                                     *)
LEMMA CloseIsArrive ==
  ASSUME Inv, Between, FileClose
  PROVE  Shelf!Step
<1>1. Reset /\ final \in [Name -> Content] /\ temp \in [Name -> Content] /\ pc = "idle"
  BY Types DEF FileClose, CloseRead, CloseError, Publish, CloseStage, Between
<1>2. Arriving' = None /\ Lost' = FALSE
  BY <1>1 DEF Reset, Arriving, Lost
<1>3. CASE OnShelf' = OnShelf
  <2>1. Shelf!Dismiss
    BY <1>2, <1>3, Apart DEF Shelf!Dismiss, Shelf!choice, Shelf!memory, Shelf!saving
  <2>. QED BY <2>1 DEF Shelf!Step
<1>4. CASE final' = final
  <2>1. OnShelf' = OnShelf
    BY <1>4, Apart
  <2>. QED BY <1>3, <2>1
<1>5. CASE /\ file \in {"write", "failed"} /\ (syxT \/ bytes = Full)
           /\ final[target] = Missing /\ temp[target] # Missing
           /\ final' = [final EXCEPT ![target] = temp[target]]
  <2>1. /\ target \in Remote /\ target \in Name /\ held = target
        /\ syxT <=> KindOf[target] = "syx"
        /\ temp[target].size = bytes
    BY <1>1, <1>5 DEF Inv, Session, Remote
  <2>2. CASE target \notin Cards
    <3>1. target \notin Owned
      BY <2>1, <2>2, Names
    <3>2. OnShelf' = OnShelf
      BY <1>1, <1>5, <3>1, Apart, Names
    <3>. QED BY <1>3, <3>2
  <2>3. CASE target \in Cards
    <3>1. ~syxT /\ target # None
      BY <2>1, <2>3, Names
    <3>2. Loadable(temp[target]) /\ temp[target] \in Content
      BY <1>1, <1>5, <2>1, <3>1 DEF Loadable
    <3>3. Arriving = target /\ Lost = FALSE
      BY <1>5, <2>1, <2>3, <3>1 DEF Arriving, Lost
    <3>4. /\ OnShelf' = [OnShelf EXCEPT ![target] = temp[target]]
          /\ OnShelf[target] = Missing
      BY <1>1, <1>5, <2>3, Apart, Names
    <3>5. Shelf!Arrive
      BY <1>2, <3>1, <3>2, <3>3, <3>4, Apart, SameFiles
         DEF Shelf!Arrive, Shelf!With, Shelf!memory, Shelf!saving
    <3>. QED BY <3>5 DEF Shelf!Step
  <2>. QED BY <2>2, <2>3
<1>6. CASE CloseRead
  BY <1>4, <1>6 DEF CloseRead, disk
<1>7. CASE CloseError
  BY <1>4, <1>7 DEF CloseError
<1>8. CASE Publish
  BY <1>4, <1>5, <1>8 DEF Publish
<1>9. CASE CloseStage
  BY <1>4, <1>9 DEF CloseStage
<1>. QED BY <1>6, <1>7, <1>8, <1>9 DEF FileClose

LEMMA DaemonIsShelf ==
  ASSUME Inv, TFTPRequest PROVE Shelf!Step
<1>1. Between /\ TFTPStep
  BY DEF TFTPRequest, Between
<1>. QED BY <1>1, OpenIsSilent, CreateIsAnnounce, WriteIsSpoil, CloseIsArrive DEF TFTPStep

(* What the boot finds.                                                     *)
LEMMA BootIsBooted ==
  ASSUME NEW c \in Cards \cup {None}, NEW f \in [Name -> Content], NEW s,
         s = [n \in Owned |-> f[n]]
  PROVE  Shelf!Booted(c, s) = [running |-> Resolve(c, f), card |-> Loaded(f[Resolve(c, f)])]
<1> DEFINE n == IF c # None /\ Loadable(s[c]) THEN c ELSE Legacy
<1>1. c # None => s[c] = f[c]
  BY Names
<1>2. n = Resolve(c, f) /\ n \in Owned
  BY <1>1, Names DEF Resolve
<1>3. s[n] = f[Resolve(c, f)]
  BY <1>2
<1>4. Shelf!Booted(c, s) = [running |-> n, card |-> IF Loadable(s[n]) THEN s[n].img ELSE Blank]
  BY SameFiles DEF Shelf!Booted
<1>. QED BY <1>2, <1>3, <1>4 DEF Loaded

(* A power cut loses what was half done.                                    *)
LEMMA PowerCycleIsRestart ==
  ASSUME Inv, Choosing, PowerCycle
  PROVE  Shelf!Restart /\ Fault
<1>1. /\ Return /\ Reset /\ Fault /\ UNCHANGED <<final, cur>>
      /\ active' = Resolve(cur, final) /\ ram' = Loaded(final[active']) /\ dirty' = FALSE
  BY DEF PowerCycle, Boot, disk
<1>2. /\ final \in [Name -> Content] /\ cur \in Cards \cup {None}
      /\ active \in Name /\ active \in Owned
  BY Types
<1>3. /\ Copied' = {} /\ Chosen' = cur /\ Asked' = Shelf!NoTask
      /\ OnShelf' = [n \in Owned |-> final[n]]
  BY <1>1, Ends
<1>4. Arriving' = None /\ Lost' = FALSE
  BY <1>1 DEF Reset, Arriving, Lost
<1>5. [running |-> active', card |-> ram'] = Shelf!Booted(Chosen', OnShelf')
  BY <1>1, <1>2, <1>3, BootIsBooted
<1>6. CASE pc = "swap" /\ final[active] = Missing
  <2>1. /\ Loadable(temp[active]) /\ temp[active] \in Content
        /\ OnShelf = [n \in Owned |-> IF n = active /\ final[n] = Missing
                                        THEN temp[n] ELSE final[n]]
        /\ Chosen = cur /\ Copied = {temp[active].img}
    BY <1>6, Types DEF Inv, Snapshot, OnShelf, FileOnShelf, Chosen, Copied, Moving, Following
  <2>2. temp[active] = Whole(temp[active].img)
    BY <2>1, Images DEF Whole, File, Loadable
  <2>3. OnShelf[active] = Whole(temp[active].img)
    BY <1>2, <1>6, <2>1, <2>2
  <2>4. OnShelf' = [OnShelf EXCEPT ![active] = Missing]
    BY <1>2, <1>3, <1>6, <2>1, Names
  <2>5. Shelf!LoseFile
    BY <1>3, <2>1, <2>3, <2>4, SameFiles DEF Shelf!LoseFile, Shelf!With
  <2>. QED BY <1>1, <1>3, <1>4, <1>5, <2>5 DEF Shelf!Restart
<1>7. CASE op = "select" /\ pc = "selMove" /\ cur = None
  <2>1. /\ Chosen = new /\ OnShelf' = OnShelf
        /\ Asked = [op |-> "select", old |-> None, new |-> new]
    BY <1>3, <1>7, Follows DEF Choosing, Following
  <2>2. Shelf!LoseChoice
    BY <1>3, <1>7, <2>1 DEF Shelf!LoseChoice, Shelf!Begun
  <2>. QED BY <1>1, <1>3, <1>4, <1>5, <2>2 DEF Shelf!Restart
<1>8. CASE Moving
  <2>1. Following /\ op = "rename"
    BY <1>8 DEF Moving
  <2>2. /\ OnShelf = [n \in Owned |-> IF n = old THEN final[new]
                                   ELSE IF n = new THEN Missing ELSE final[n]]
        /\ old \in Cards /\ new \in Cards /\ old # new
        /\ final[old] = Missing /\ final[new] # Missing
        /\ cur \in {old, None} /\ Chosen \in {old, cur}
        /\ Asked = [op |-> "rename", old |-> old, new |-> new]
    BY <2>1, Follows
  <2>3. /\ OnShelf' = [OnShelf EXCEPT ![new] = OnShelf[old], ![old] = Missing]
        /\ OnShelf[new] = Missing
    BY <1>2, <1>3, <2>2, Names
  <2>4. Shelf!LoseTie
    BY <1>3, <2>2, <2>3 DEF Shelf!LoseTie, Shelf!Begun, Shelf!Renamed
  <2>. QED BY <1>1, <1>3, <1>4, <1>5, <2>4 DEF Shelf!Restart
<1>9. CASE /\ ~(pc = "swap" /\ final[active] = Missing)
           /\ ~(op = "select" /\ pc = "selMove" /\ cur = None) /\ ~Moving
  <2>1. OnShelf' = OnShelf /\ Chosen' = Chosen
    BY <1>3, <1>9 DEF OnShelf, FileOnShelf, Chosen
  <2>. QED BY <1>1, <1>3, <1>4, <1>5, <2>1 DEF Shelf!Restart, Shelf!choice
<1>. QED BY <1>6, <1>7, <1>8, <1>9

----------------------------------------------------------------------------
(* What is selected is the card that was asked for.                         *)
LEMMA ChoosingStep ==
  ASSUME Inv, Choosing, [Next]_vars
  PROVE  Choosing'
<1>1. CASE op' # "select"
  BY <1>1 DEF Choosing
<1>2. CASE UNCHANGED <<final, active, op, old, new>>
  BY <1>2 DEF Choosing
<1>3. CASE EditCard \/ UNCHANGED vars
  BY <1>2, <1>3 DEF EditCard, vars, disk, mem, web
<1>4. CASE FlushCardRAMIfNeeded
  <2>1. CASE StartFlush
    BY <1>1, <2>1 DEF StartFlush
  <2>2. CASE FlushTemp \/ FlushUnlink \/ FlushSwap
    <3>1. /\ (op' = op /\ UNCHANGED <<old, new>>) \/ op' = "process"
          /\ active' = active /\ active \in Name /\ final \in [Name -> Content]
          /\ \A n \in Name : n # active => final'[n] = final[n]
      BY <2>2, Types
         DEF FlushTemp, FlushUnlink, FlushSwap, AfterFlush, Return, Goto, web, mem, Inv, TypeOK
    <3>2. op = "select" => new \in Name
      BY Names DEF Inv, Request
    <3>. QED BY <3>1, <3>2 DEF Choosing
  <2>. QED BY <1>4, <2>1, <2>2 DEF FlushCardRAMIfNeeded
<1>5. CASE HTTPRequest
  <2>1. ASSUME NEW n \in Cards, SelectExec(n) PROVE Choosing'
    BY <2>1 DEF SelectExec, Choosing, disk, mem
  <2>2. ASSUME NEW n \in Cards, DeleteExec(n) PROVE Choosing'
    <3>1. op' = "process"
      BY <2>2 DEF DeleteExec, web, Inv, Request
    <3>. QED BY <1>1, <3>1
  <2>3. ASSUME NEW o \in Cards, NEW n \in Cards, RenameExec(o, n) PROVE Choosing'
    BY <1>1, <2>3 DEF RenameExec
  <2>4. CASE Move \/ Rollback
    <3>1. op' # "select"
      BY <2>4 DEF Move, Rollback, Goto, Return, web, Inv, Request, TypeOK
    <3>. QED BY <1>1, <3>1
  <2>5. CASE SelWrite \/ SelRemove \/ SelMove
    <3>1. (op' = op /\ UNCHANGED <<old, new>>) \/ op' = "process"
      BY <2>5 DEF SelWrite, SelRemove, SelMove, SelFails, Goto, Return, web
    <3>2. UNCHANGED <<final, active>>
      BY <2>5 DEF SelWrite, SelRemove, SelMove, disk, mem
    <3>. QED BY <1>1, <1>2, <3>1, <3>2
  <2>. QED BY <1>5, <2>1, <2>2, <2>3, <2>4, <2>5 DEF HTTPRequest
<1>6. CASE TFTPRequest
  <2>1. op' = "process"
    BY <1>6 DEF TFTPRequest, web, Inv, Request
  <2>. QED BY <1>1, <2>1
<1>7. CASE PowerCycle
  BY <1>1, <1>7 DEF PowerCycle, Boot, Return
<1>. QED BY <1>3, <1>4, <1>5, <1>6, <1>7 DEF Next

LEMMA StepIsShelf ==
  ASSUME Inv, Choosing, [Next]_vars
  PROVE  Shelf!Next
<1>1. Fine \/ Fault
  <2>1. CASE EditCard \/ FlushCardRAMIfNeeded \/ PowerCycle \/ UNCHANGED vars
    BY <2>1 DEF EditCard, FlushCardRAMIfNeeded, StartFlush, FlushTemp, FlushUnlink,
                FlushSwap, PowerCycle, vars, Fine
  <2>2. CASE HTTPRequest
    BY <2>2 DEF HTTPRequest, SelectExec, DeleteExec, RenameExec, Move, SelWrite,
                SelRemove, SelMove, Rollback, Fine
  <2>3. CASE TFTPRequest
    BY <2>3 DEF TFTPRequest, TFTPStep, FileOpen, FileOpenFails, FileOpens, FileCreate,
                Refuse, CreateTemp, CreateStage, FileWrite, WriteBlock, WriteShort,
                FileClose, CloseRead, CloseError, Publish, CloseStage, Remove, Fine
  <2>. QED BY <2>1, <2>2, <2>3 DEF Next
<1>2. \/ Shelf!Step
      \/ (Shelf!Accident \/ Shelf!Restart) /\ Fault
  <2>1. CASE EditCard
    BY <2>1, WriteIsWrite
  <2>2. CASE FlushCardRAMIfNeeded
    BY <2>2, StartIsSilent, TempIsPrepare, UnlinkIsSave, SwapIsClean
       DEF FlushCardRAMIfNeeded
  <2>3. CASE HTTPRequest
    BY <2>3, SelectIsAsked, RenameIsAsked, DeleteIsDelete, MoveIsRename,
       SelWriteIsSilent, SelRemoveIsSelect, SelMoveIsRename, RollbackIsAnswer
       DEF HTTPRequest
  <2>4. CASE TFTPRequest
    BY <2>4, DaemonIsShelf
  <2>5. CASE PowerCycle
    BY <2>5, PowerCycleIsRestart
  <2>6. CASE UNCHANGED vars
    <3>1. UNCHANGED <<final, temp, file, target, held, cur, active, ram, dirty, pc,
                      op, old, new>>
      BY <2>6 DEF vars, disk, tftp, mem, web
    <3>2. Stay
      BY <3>1 DEF Stay, OnShelf, FileOnShelf, Moving, Following, Chosen, Copied,
                  Arriving, Lost, Asked
    <3>. QED BY <3>2, Stays
  <2>. QED BY <2>1, <2>2, <2>3, <2>4, <2>5, <2>6 DEF Next
<1>. QED BY <1>1, <1>2 DEF Shelf!Next, Fine, Fault

LEMMA InitIsShelf == Init => Shelf!Init
<1> SUFFICES ASSUME Init PROVE Shelf!Init
  OBVIOUS
<1>1. /\ Inv /\ pc = "idle" /\ op = "process" /\ file = "none" /\ dirty = FALSE
      /\ active = Resolve(cur, final) /\ ram = Loaded(final[active])
      /\ cur # None => Loadable(final[cur])
      /\ faults = 0 /\ old = None /\ new = None
  BY InvInit DEF Init, Idle
<1>2. final \in [Name -> Content] /\ cur \in Cards \cup {None}
  BY <1>1, Types
<1>3. /\ OnShelf = [n \in Owned |-> final[n]] /\ Chosen = cur /\ Copied = {}
      /\ Arriving = None /\ Lost = FALSE /\ Asked = Shelf!NoTask
  BY <1>1 DEF OnShelf, FileOnShelf, Moving, Following, Chosen, Copied, Arriving, Lost,
              Asked, Shelf!NoTask
<1>4. [running |-> active, card |-> ram] = Shelf!Booted(Chosen, OnShelf)
  BY <1>1, <1>2, <1>3, BootIsBooted
<1>5. OnShelf \in [Cards \cup {Legacy} -> Content]
  BY <1>2, <1>3, Names
<1>6. Chosen # None => Loadable(OnShelf[Chosen])
  BY <1>1, <1>2, <1>3, Names
<1>. QED BY <1>1, <1>2, <1>3, <1>4, <1>5, <1>6, SameFiles DEF Shelf!Init

(* Whatever the pages, the daemon and the flush do in between, and whatever *)
(* fails, the collection is the shelf: the files, the choice and the card    *)
(* in memory change only as its users ask, and one failure costs one thing.  *)
THEOREM IsShelf == Spec => RefinesShelf
<1>1. Init => Inv /\ Choosing
  BY InvInit DEF Init, Choosing
<1>2. Inv /\ Choosing /\ [Next]_vars => Inv' /\ Choosing'
  BY InvStep, ChoosingStep
<1>3. Inv /\ Choosing /\ [Next]_vars => [Shelf!Next]_(Shelf!vars)
  BY StepIsShelf
<1>. QED BY <1>1, <1>2, <1>3, InitIsShelf, PTL DEF Spec, RefinesShelf, Shelf!Spec
=============================================================================
