---------------------------- MODULE Panel_proofs ----------------------------
(* What the pages keep of the remote keys (Remote), and every frame, page   *)
(* and MIDI message of the overlays (Panel), for any keys, any number of SR *)
(* expansions, any timeouts and any mix of devices.                         *)
EXTENDS Panel, TLAPS

(* The remote keys, whatever pages come between the frames.                 *)

LEMMA TakeTapsTyped ==
  ASSUME RemoteTypeOK, NEW gone, TakeTaps(gone) PROVE RemoteTypeOK'
  BY RemoteConstants DEF RemoteConstants, RemoteTypeOK, TakeTaps

LEMMA PagesTyped == RemoteTypeOK /\ RemotePage => RemoteTypeOK'
  BY RemoteConstants
     DEF RemoteConstants, RemoteTypeOK, RemotePage, Down, Up, Tap, Clear, Turn

(* The masks hold keys only and the dial runs no further ahead than its     *)
(* bound: every page and every frame keep to that.                          *)
THEOREM RemoteTypeCorrect == RemoteSpec => []RemoteTypeOK
<1>1. RemoteInit => RemoteTypeOK
  BY RemoteConstants DEF RemoteInit, RemoteTypeOK
<1>2. RemoteTypeOK /\ [RemoteNext]_remote => RemoteTypeOK'
  BY TakeTapsTyped, PagesTyped DEF RemoteNext, remote, RemoteTypeOK
<1>. QED BY <1>1, <1>2, PTL DEF RemoteSpec

(* A tap never leaves its key pressed. The invariant is inductive as it     *)
(* stands: what a frame holds for its second frame it releases in the next, *)
(* and a page that forgets a release forgets the key as well.               *)
THEOREM TapsEnd == RemoteSpec => []NoTapSticks
<1>1. RemoteInit => NoTapSticks
  BY DEF RemoteInit, NoTapSticks
<1>2. NoTapSticks /\ [RemoteNext]_remote => NoTapSticks'
  <2> SUFFICES ASSUME NoTapSticks, [RemoteNext]_remote PROVE NoTapSticks'
    OBVIOUS
  <2> USE DEF NoTapSticks
  <2>1. CASE RemotePage
    BY <2>1 DEF RemotePage, Down, Up, Tap, Clear, Turn
  <2>2. ASSUME NEW gone \in {{}, {Enter} \cap taps}, TakeTaps(gone)
        PROVE NoTapSticks'
    BY <2>2 DEF TakeTaps
  <2>3. CASE UNCHANGED remote
    BY <2>3 DEF remote
  <2>. QED BY <2>1, <2>2, <2>3 DEF RemoteNext
<1>. QED BY <1>1, <1>2, PTL DEF RemoteSpec

(* A tap under way, of a key that /rdown holds, is known: what the frames   *)
(* are about to release was tapped since.                                   *)
TapsKnown == down \cap (holding \cup releasing) \subseteq tapped

(* A key that /rdown holds is let go only by a tap of the same key.         *)
THEOREM HoldsLast == RemoteSpec => []HoldLostOnlyByTap
<1> DEFINE Inv == TapsKnown /\ HoldLostOnlyByTap
<1>1. RemoteInit => Inv
  BY DEF RemoteInit, HoldLostOnlyByTap, TapsKnown
<1>2. Inv /\ [RemoteNext]_remote => Inv'
  <2> SUFFICES ASSUME Inv, [RemoteNext]_remote PROVE Inv'
    OBVIOUS
  <2> USE DEF HoldLostOnlyByTap, TapsKnown
  <2>1. CASE RemotePage
    BY <2>1 DEF RemotePage, Down, Up, Tap, Clear, Turn
  <2>2. ASSUME NEW gone \in {{}, {Enter} \cap taps}, TakeTaps(gone)
        PROVE Inv'
    <3>1. TapsKnown'
      BY <2>2 DEF TakeTaps
    <3>2. HoldLostOnlyByTap'
      BY <2>2 DEF TakeTaps
    <3>. QED BY <3>1, <3>2
  <2>3. CASE UNCHANGED remote
    BY <2>3 DEF remote
  <2>. QED BY <2>1, <2>2, <2>3 DEF RemoteNext
<1>. QED BY <1>1, <1>2, PTL DEF RemoteSpec

----------------------------------------------------------------------------
(* The frames and the pages of the panel are those of Remote, so that both  *)
(* properties hold of the whole panel: an overlay takes nothing but the tap *)
(* of ENTER for itself.                                                     *)
THEOREM PanelUsesRemote ==
  PanelSpec => RemoteSpec /\ []NoTapSticks /\ []HoldLostOnlyByTap
<1>1. PanelInit => RemoteInit BY DEF PanelInit
<1>2. [PanelNext]_allPanel => [RemoteNext]_remote
  <2> SUFFICES ASSUME [PanelNext]_allPanel PROVE [RemoteNext]_remote
    OBVIOUS
  <2>1. CASE ReadInputs
    <3>1. \E gone \in {{}, {Enter} \cap taps} : TakeTaps(gone)
      BY <2>1 DEF ReadInputs
    <3>. QED BY <3>1 DEF RemoteNext
  <2>2. CASE Pages
    BY <2>2 DEF Pages, RemoteNext
  <2>3. CASE UNCHANGED remote
    BY <2>3
  <2>. QED
    BY <2>1, <2>2, <2>3 DEF PanelNext, Process, ParseMIDIData, ReadData,
       MainFrame, SyxFrame, PressButton, Dial, FirmwareDraws, Tick, MIDIInject,
       MIDIInjectWrite, MIDIHold, MIDIEnter, MIDIEnterLong, MIDIAllRelease,
       MIDIOverlay, MIDIDial, Message, allPanel
<1>. QED BY <1>1, <1>2, TapsEnd, HoldsLast, PTL DEF PanelSpec, RemoteSpec

----------------------------------------------------------------------------
(* The operators on the overlays.                                           *)

Scheduled(u) == u.restore => u.snap # None /\ u.seq > 0

(* What all of them have in common: none shows the firmware a DATA key,     *)
(* none injects one, and none but the long press from Patch Play opens the  *)
(* SysEx menu.                                                              *)
Keeps(u, v) ==
  /\ v \in Overlay
  /\ Scheduled(u) => Scheduled(v)
  /\ "DATA" \in v.matrix => "DATA" \in u.matrix
  /\ "DATA" \in v.injected => "DATA" \in u.injected
  /\ "SYX" \in v.menus => "SYX" \in u.menus

LEMMA KeepsTransitive ==
  ASSUME NEW u, NEW v, NEW w, Keeps(u, v), Keeps(v, w) PROVE Keeps(u, w)
  BY DEF Keeps

LEMMA KeepsItself == ASSUME NEW u \in Overlay PROVE Keeps(u, u)
  BY DEF Keeps

LEMMA SaveKeeps == ASSUME NEW u \in Overlay PROVE Keeps(u, Save(u))
  BY DEF Save, Keeps, Overlay, Scheduled, Screens, Native

LEMMA Bounds == 0 \in 0..NumSR /\ SeqFrames \in 0..SeqFrames
  BY OverlayConstants DEF OverlayConstants

LEMMA OpenSRKeeps == ASSUME NEW u \in Overlay PROVE Keeps(u, OpenSRMenu(u))
  BY Bounds DEF OpenSRMenu, Keeps, Overlay, Scheduled, Menus

LEMMA OpenByDataKeeps ==
  ASSUME NEW u \in Overlay PROVE Keeps(u, OpenByData(u))
<1> DEFINE v == Save(u)
<1>1. Keeps(u, v) BY SaveKeeps
<1> HIDE DEF v
<1>2. v \in Overlay BY <1>1 DEF Keeps
<1>3. Keeps(v, [v EXCEPT !.menus = @ \cup {"SR"}])
  BY <1>2 DEF Keeps, Overlay, Scheduled, Menus
<1>. QED BY <1>1, <1>3, KeepsTransitive DEF OpenByData, v

LEMMA PressTwice ==
  ASSUME NEW u \in Overlay
  PROVE  LET v == PressUtilityTwice(u) IN
         /\ v \in Overlay /\ v.seq = 1
         /\ v.menus = u.menus /\ v.snap = u.snap /\ v.restore = u.restore
         /\ v.matrix = u.matrix /\ v.injected = u.injected
         /\ v.rdWait = u.rdWait
<1>1. 1 \in 0..4 OBVIOUS
<1>. QED BY <1>1, Bounds DEF PressUtilityTwice, Overlay

LEMMA RequestCloseKeeps ==
  ASSUME NEW u \in Overlay PROVE Keeps(u, RequestCloseSRMenu(u))
<1> DEFINE v == [ScheduleRestore(u) EXCEPT
                   !.menus = @ \ {"SR"}, !.lcd = "blank", !.block = TRUE]
<1>1. /\ v \in Overlay /\ v.menus = u.menus \ {"SR"}
      /\ v.snap = u.snap /\ v.restore = (u.restore \/ u.snap # None)
      /\ v.matrix = u.matrix /\ v.injected = u.injected
  BY DEF ScheduleRestore, Overlay, Screens
<1> HIDE DEF v
<1>2. RequestCloseSRMenu(u) = PressUtilityTwice(v)
  BY DEF RequestCloseSRMenu, v
<1> DEFINE x == PressUtilityTwice(v)
<1>3. /\ x \in Overlay /\ x.seq = 1 /\ x.menus = v.menus /\ x.snap = v.snap
      /\ x.restore = v.restore /\ x.matrix = v.matrix
      /\ x.injected = v.injected
  BY <1>1, PressTwice
<1> HIDE DEF x
<1>4. Scheduled(u) => Scheduled(x)
  <2>1. x.seq > 0 BY <1>3
  <2>2. x.restore = (u.restore \/ u.snap # None) /\ x.snap = u.snap
    BY <1>1, <1>3, Zenon
  <2>3. Scheduled(u) /\ x.restore => x.snap # None
    BY <2>2, Zenon DEF Scheduled
  <2>. QED BY <2>1, <2>3 DEF Scheduled
<1>5. Keeps(u, x) BY <1>1, <1>3, <1>4 DEF Keeps
<1>. QED BY <1>2, <1>5 DEF x

LEMMA CloseSRKeeps ==
  ASSUME NEW u \in Overlay PROVE Keeps(u, CloseSRMenu(u))
  BY DEF CloseSRMenu, Keeps, Overlay, Scheduled, Screens, Pressed

LEMMA RD500Keeps ==
  ASSUME NEW u \in Overlay
  PROVE  /\ Keeps(u, OpenRD500Menu(u)) /\ Keeps(u, CloseRD500Menu(u))
         /\ Keeps(u, OpenRD500PatchBrowse(u))
         /\ Keeps(u, CloseRD500PatchBrowse(u))
<1>1. Keeps(u, OpenRD500Menu(u))
  BY DEF OpenRD500Menu, Keeps, Overlay, Scheduled, Menus
<1>2. Keeps(u, CloseRD500Menu(u))
  BY DEF CloseRD500Menu, Keeps, Overlay, Scheduled, Menus
<1>3. Keeps(u, OpenRD500PatchBrowse(u))
  BY DEF OpenRD500PatchBrowse, Keeps, Overlay, Scheduled, Menus
<1>4. Keeps(u, CloseRD500PatchBrowse(u))
  BY DEF CloseRD500PatchBrowse, Keeps, Overlay, Scheduled, Menus
<1>. QED BY <1>1, <1>2, <1>3, <1>4

LEMMA WaitKeeps ==
  ASSUME NEW u \in Overlay, NEW wait \in BOOLEAN
  PROVE  Keeps(u, [u EXCEPT !.rdWait = wait])
  BY DEF Keeps, Overlay, Scheduled

LEMMA LongBackKeeps ==
  ASSUME NEW u \in Overlay
  PROVE  Keeps(u, LongBack(u)) /\ LongBack(u).rdWait
<1> DEFINE v == [u EXCEPT !.rdWait = TRUE]
<1>1. Keeps(u, v) /\ v.rdWait BY WaitKeeps DEF Overlay
<1> HIDE DEF v
<1>2. v \in Overlay BY <1>1 DEF Keeps
<1>3. Keeps(v, CloseRD500PatchBrowse(v)) /\ Keeps(v, CloseRD500Menu(v))
  BY <1>2, RD500Keeps
<1>4. CloseRD500PatchBrowse(v).rdWait /\ CloseRD500Menu(v).rdWait
  BY <1>1, <1>2 DEF CloseRD500PatchBrowse, CloseRD500Menu, Overlay
<1>. QED BY <1>1, <1>3, <1>4, KeepsTransitive DEF LongBack, v

LEMMA ExitKeeps ==
  ASSUME NEW u \in Overlay, NEW comesBack \in BOOLEAN
  PROVE  /\ Keeps(u, ExitSYXMenu(u, comesBack))
         /\ "SYX" \notin ExitSYXMenu(u, comesBack).menus
         /\ ExitSYXMenu(u, comesBack).rdWait = u.rdWait
<1> DEFINE w == IF comesBack THEN ScheduleRestore(u) ELSE CancelSnapshot(u)
           v == [w EXCEPT !.menus = @ \ {"SYX"}, !.lcd = "blank"]
<1>1. /\ w \in Overlay /\ w.menus = u.menus /\ w.rdWait = u.rdWait
      /\ w.matrix = u.matrix /\ w.injected = u.injected
      /\ Scheduled(u) /\ w.restore => w.snap # None
  BY DEF ScheduleRestore, CancelSnapshot, Overlay, Scheduled
<1> HIDE DEF w
<1>2. /\ v \in Overlay /\ v.menus = w.menus \ {"SYX"} /\ v.rdWait = w.rdWait
      /\ v.matrix = w.matrix /\ v.injected = w.injected
      /\ v.restore = w.restore /\ v.snap = w.snap
  BY <1>1 DEF Overlay, Screens
<1>3. ExitSYXMenu(u, comesBack) = PressUtilityTwice(v)
  BY DEF ExitSYXMenu, w, v
<1> HIDE DEF v
<1>. QED BY <1>1, <1>2, <1>3, PressTwice DEF Keeps, Scheduled

LEMMA EnterKeeps == ASSUME NEW u \in Overlay PROVE Keeps(u, EnterEvent(u))
<1>1. Keeps(u, [u EXCEPT !.matrix = {"ENTER"}])
  BY DEF Keeps, Overlay, Scheduled, Pressed
<1>2. Keeps(u, EnterSR(u))
  BY RD500Keeps, RequestCloseKeeps, CloseSRKeeps DEF EnterSR
<1>. QED
  BY <1>1, <1>2, WaitKeeps, RD500Keeps, KeepsItself DEF EnterEvent

LEMMA TurnKeeps ==
  ASSUME NEW u \in Overlay, NEW d \in Int
  PROVE  /\ Keeps(u, TurnSR(u, d)) /\ TurnSR(u, d).rdWait = u.rdWait
         /\ TurnSR(u, d).menus = u.menus /\ TurnSR(u, d).matrix = u.matrix
<1>1. u.sr \in 0..NumSR /\ NumSR \in Nat
  BY OverlayConstants DEF OverlayConstants, Overlay
<1>2. (u.sr + d) % (NumSR + 1) \in 0..NumSR
  BY <1>1
<1>3. CASE "SR" \in u.menus
  <2> DEFINE n == (u.sr + d) % (NumSR + 1)
  <2>1. TurnSR(u, d) = [u EXCEPT !.sr = n] BY <1>3 DEF TurnSR
  <2>2. n \in 0..NumSR BY <1>2
  <2> HIDE DEF n
  <2>. QED BY <2>1, <2>2 DEF Keeps, Overlay, Scheduled
<1>4. CASE "SR" \notin u.menus
  BY <1>4, KeepsItself DEF TurnSR
<1>. QED BY <1>3, <1>4

LEMMA RestoreKeeps ==
  ASSUME NEW u \in Overlay
  PROVE  /\ Restore(u) \in Overlay /\ Restore(u).seq = u.seq
         /\ (u.restore => u.snap # None) => ~Restore(u).restore
         /\ Restore(u).menus = u.menus /\ Restore(u).matrix = u.matrix
         /\ Restore(u).injected = u.injected /\ Restore(u).rdWait = u.rdWait
  BY DEF Restore, Overlay, Screens, Native

LEMMA UtilityKeeps ==
  ASSUME NEW u \in Overlay
  PROVE  /\ Keeps(u, UtilityFrame(u)) /\ UtilityFrame(u).rdWait = u.rdWait
         /\ UtilityFrame(u).menus = u.menus
<1>1. CASE u.seq = 0
  BY <1>1, KeepsItself DEF UtilityFrame
<1>2. CASE u.seq # 0
  <2> DEFINE on == [u EXCEPT !.injected =
                     @ \cup (IF u.seq \in {1, 3} THEN {"UTILITY"} ELSE {}),
                   !.frames = IF @ > 0 THEN @ - 1 ELSE 0]
  <2>1. /\ on \in Overlay /\ on.seq = u.seq /\ on.restore = u.restore
        /\ on.snap = u.snap /\ on.menus = u.menus /\ on.matrix = u.matrix
        /\ on.rdWait = u.rdWait
        /\ "DATA" \in on.injected => "DATA" \in u.injected
    <3>1. (IF u.frames > 0 THEN u.frames - 1 ELSE 0) \in 0..SeqFrames
      BY OverlayConstants DEF OverlayConstants, Overlay
    <3> DEFINE n == IF u.frames > 0 THEN u.frames - 1 ELSE 0
               more == IF u.seq \in {1, 3} THEN {"UTILITY"} ELSE {}
    <3>2. /\ n \in 0..SeqFrames /\ more \subseteq Pressed \ {"DATA"}
          /\ on = [u EXCEPT !.injected = @ \cup more, !.frames = n]
      BY <3>1 DEF Pressed, Overlay
    <3> HIDE DEF n, more, on
    <3>. QED BY <3>2 DEF Overlay
  <2> HIDE DEF on
  <2>2. UtilityFrame(u) =
          IF on.frames # 0 THEN on
          ELSE IF u.seq < 4
               THEN [on EXCEPT !.seq = @ + 1, !.frames = SeqFrames]
               ELSE Restore([on EXCEPT !.seq = 0])
    BY <1>2 DEF UtilityFrame, on
  <2>3. CASE on.frames # 0
    BY <2>1, <2>2, <2>3 DEF Keeps, Scheduled
  <2>4. CASE on.frames = 0 /\ u.seq < 4
    <3> DEFINE m == u.seq + 1
    <3>1. m \in 0..4 /\ m > 0 BY <1>2, <2>4 DEF Overlay
    <3>2. UtilityFrame(u) = [on EXCEPT !.seq = m, !.frames = SeqFrames]
      BY <2>1, <2>2, <2>4 DEF Overlay
    <3> HIDE DEF m
    <3>. QED BY <2>1, <3>1, <3>2, Bounds DEF Keeps, Overlay, Scheduled
  <2>5. CASE on.frames = 0 /\ ~(u.seq < 4)
    <3> DEFINE v == [on EXCEPT !.seq = 0]
    <3>1. /\ v \in Overlay /\ v.restore = u.restore /\ v.snap = u.snap
          /\ v.menus = u.menus /\ v.matrix = u.matrix /\ v.rdWait = u.rdWait
          /\ v.injected = on.injected
      BY <2>1 DEF Overlay
    <3> HIDE DEF v
    <3>2. UtilityFrame(u) = Restore(v) BY <2>2, <2>5 DEF v
    <3>. QED BY <2>1, <3>1, <3>2, RestoreKeeps DEF Keeps, Scheduled
  <2>. QED BY <2>3, <2>4, <2>5
<1>. QED BY <1>1, <1>2

LEMMA DrawKeeps ==
  ASSUME NEW u \in Overlay
  PROVE  Keeps(u, Draw(u)) /\ Draw(u).menus = u.menus /\ Draw(u).rdWait = u.rdWait
  BY DEF Draw, Keeps, Overlay, Scheduled, Screens
----------------------------------------------------------------------------
(* The invariant of every device: the types, a restore that will happen,    *)
(* and what the firmware sees of DATA. A SysEx menu opens in a frame that    *)
(* hides DATA and leaves the matrix alone from then on.                     *)

DataRecord ==
  [prev : BOOLEAN, pending : BOOLEAN, pass : BOOLEAN, age : 0..DataLong]
SyxRecord  == [wait : BOOLEAN, root : BOOLEAN, on : Tracker]
MIDIRecord ==
  [held : SUBSET {"DATA"}, long : 0..HoldTicks, tap : 0..TapTicks,
   busy : BOOLEAN, write : SUBSET Pressed]
HoldRecord == [on : BOOLEAN, syx : 0..2, back : 0..2]

NoDataInjected == "DATA" \notin ui.injected \cup midi.write

Hidden ==
  (pc = "idle" \/ "SYX" \in ui.menus) /\ data.pending =>
    "DATA" \notin ui.matrix

PanelInv ==
  PanelTypeOK /\ Scheduled(ui) /\ NoDataInjected /\ Hidden

LEMMA PanelInvInit == PanelInit => PanelInv
<1> SUFFICES ASSUME PanelInit PROVE PanelInv
  OBVIOUS
<1>1. PICK s \in Scenarios, screen \in Firmware :
        /\ inputs = s.inputs
        /\ ui = [menus |-> {}, lcd |-> screen, snap |-> None,
                 restore |-> FALSE, matrix |-> {}, injected |-> {},
                 seq |-> 0, frames |-> 0, block |-> FALSE,
                 rdWait |-> FALSE, sr |-> s.sr, have |-> s.have]
  BY DEF PanelInit
<1>2. /\ s.inputs \subseteq {"buttons", "dial", "pages", "midi"}
      /\ s.have \subseteq {"sr", "rd500"} /\ s.sr \in 0..NumSR
      /\ screen \in Native
  BY PanelConstants DEF PanelConstants
<1>3. 0 \in 0..SeqFrames /\ 0 \in 0..4 /\ MaxCalls \in 0..MaxCalls
      /\ 0 \in 0..Long /\ 0 \in 0..DataLong /\ 0 \in 0..HoldTicks
      /\ 0 \in 0..TapTicks /\ 0 \in 0..2 /\ 0 \in -MaxTurn..MaxTurn
  BY PanelConstants, OverlayConstants, RemoteConstants
     DEF PanelConstants, OverlayConstants, RemoteConstants
<1>4. ui \in Overlay
  BY <1>1, <1>2, <1>3 DEF Overlay, Screens
<1>5. Idle \in Tracker
  BY <1>3 DEF Idle, Tracker
<1>6. PanelTypeOK
  BY <1>1, <1>2, <1>3, <1>4, <1>5
     DEF PanelInit, PanelTypeOK, RemoteInit, RemoteTypeOK
<1>7. Scheduled(ui) /\ NoDataInjected /\ Hidden
  BY <1>1 DEF PanelInit, Scheduled, NoDataInjected, Hidden
<1>. QED BY <1>6, <1>7 DEF PanelInv

(* A step that does to the overlays what the operators do keeps the part of *)
(* the invariant that is about them.                                        *)
LEMMA OverlayStep ==
  ASSUME PanelInv, Keeps(ui, ui'), pc' = pc \/ pc = "idle" \/ "SYX" \in ui.menus,
         data'.pending = data.pending, midi'.write \subseteq midi.write
  PROVE  ui' \in Overlay /\ Scheduled(ui') /\ NoDataInjected' /\ Hidden'
  BY DEF PanelInv, Keeps, NoDataInjected, Hidden

LEMMA MIDIKeeps == PanelInv /\ ParseMIDIData => PanelInv'
<1> SUFFICES ASSUME PanelInv, ParseMIDIData PROVE PanelInv'
  OBVIOUS
<1>1. /\ UNCHANGED <<inputs, pc, pin, button, data, enter, rd, syx, hold, remote>>
      /\ left' \in 0..MaxCalls
  <2>1. left \in 0..MaxCalls /\ MaxCalls \in Nat
    BY PanelConstants DEF PanelConstants, PanelInv, PanelTypeOK
  <2>2. CASE Message
    BY <2>1, <2>2 DEF Message
  <2>3. CASE MIDIInjectWrite
    BY <2>1, <2>3 DEF MIDIInjectWrite
  <2>. QED
    BY <2>2, <2>3 DEF ParseMIDIData, MIDIInject, MIDIHold, MIDIEnter,
       MIDIEnterLong, MIDIAllRelease, MIDIOverlay, MIDIDial
<1>2. ui \in Overlay BY DEF PanelInv, PanelTypeOK
<1>3. midi \in MIDIRecord BY DEF PanelInv, PanelTypeOK, MIDIRecord
<1>4. HoldTicks \in 0..HoldTicks /\ TapTicks \in 0..TapTicks /\ 0 \in 0..HoldTicks
      /\ 0 \in 0..TapTicks
  BY PanelConstants DEF PanelConstants
<1> SUFFICES /\ ui' \in Overlay /\ Scheduled(ui') /\ NoDataInjected' /\ Hidden'
             /\ midi' \in MIDIRecord
  BY <1>1 DEF PanelInv, PanelTypeOK, MIDIRecord, remote, RemoteTypeOK
<1>5. CASE MIDIInject
  <2>1. PICK k \in {"UTILITY", "ENTER"}, on \in BOOLEAN :
          midi' = [midi EXCEPT !.busy = TRUE, !.write =
                     IF on THEN ui.injected \cup {k} ELSE ui.injected \ {k}]
    BY <1>5 DEF MIDIInject
  <2>2. midi' \in MIDIRecord /\ "DATA" \notin midi'.write
    BY <1>2, <1>3, <2>1 DEF PanelInv, NoDataInjected, MIDIRecord, Overlay, Pressed
  <2>3. ui' = ui BY <1>5 DEF MIDIInject
  <2>. QED
    BY <1>1, <1>2, <2>2, <2>3 DEF PanelInv, NoDataInjected, Hidden
<1>6. CASE MIDIInjectWrite
  <2>1. ui' = [ui EXCEPT !.injected = midi.write]
        /\ midi' = [midi EXCEPT !.busy = FALSE, !.write = {}]
    BY <1>6 DEF MIDIInjectWrite
  <2>2. Keeps(ui, ui') /\ midi' \in MIDIRecord /\ midi'.write = {}
    BY <1>2, <1>3, <2>1
       DEF PanelInv, NoDataInjected, MIDIRecord, Keeps, Overlay, Scheduled
  <2>. QED BY <1>1, <2>2, OverlayStep
<1>7. CASE MIDIHold \/ MIDIEnterLong
  <2>1. ui' = ui BY <1>7 DEF MIDIHold, MIDIEnterLong
  <2>2. midi' \in MIDIRecord /\ midi'.write = midi.write
    BY <1>3, <1>4, <1>7 DEF MIDIRecord, MIDIHold, MIDIEnterLong
  <2>. QED BY <1>1, <1>2, <2>1, <2>2, KeepsItself, OverlayStep
<1>8. CASE MIDIEnter
  <2>1. Keeps(ui, ui')
    BY <1>2, <1>8, EnterKeeps, KeepsItself DEF MIDIEnter
  <2>2. midi' \in MIDIRecord /\ midi'.write = midi.write
    BY <1>3, <1>4, <1>8 DEF MIDIRecord, MIDIEnter
  <2>. QED BY <1>1, <2>1, <2>2, OverlayStep
<1>9. CASE MIDIAllRelease
  <2>1. /\ ui' = [ui EXCEPT !.injected = {}, !.matrix = @ \ {"DATA", "ENTER"}]
        /\ midi' = [midi EXCEPT !.held = {}, !.long = 0, !.tap = 0]
    BY <1>9 DEF MIDIAllRelease
  <2>2. Keeps(ui, ui')
    BY <1>2, <2>1 DEF Keeps, Overlay, Scheduled
  <2>3. midi' \in MIDIRecord /\ midi'.write = midi.write
    BY <1>3, <1>4, <2>1 DEF MIDIRecord
  <2>. QED BY <1>1, <2>2, <2>3, OverlayStep
<1>10. CASE MIDIOverlay \/ MIDIDial
  <2>1. Keeps(ui, ui')
    BY <1>2, <1>10, RequestCloseKeeps, OpenSRKeeps, TurnKeeps, KeepsItself
       DEF MIDIOverlay, MIDIDial, TurnRemote
  <2>2. midi' = midi BY <1>10 DEF MIDIOverlay, MIDIDial
  <2>. QED BY <1>1, <1>3, <2>1, <2>2, OverlayStep
<1>. QED
  BY <1>5, <1>6, <1>7, <1>8, <1>9, <1>10 DEF ParseMIDIData
LEMMA TypesOfPanel ==
  ASSUME PanelInv
  PROVE  /\ ui \in Overlay /\ data \in DataRecord /\ enter \in Tracker
         /\ rd \in Tracker /\ syx \in SyxRecord /\ midi \in MIDIRecord
         /\ hold \in HoldRecord /\ RemoteTypeOK /\ pin \subseteq {"DATA", "ENTER"}
         /\ button \in {"up", "held", "spent"} /\ left \in 0..MaxCalls
         /\ inputs \subseteq {"buttons", "dial", "pages", "midi"}
  BY DEF PanelInv, PanelTypeOK, DataRecord, SyxRecord, MIDIRecord, HoldRecord

LEMMA PanelTyped ==
  ASSUME ui \in Overlay, data \in DataRecord, enter \in Tracker,
         rd \in Tracker, syx \in SyxRecord, midi \in MIDIRecord,
         hold \in HoldRecord, RemoteTypeOK, pin \subseteq {"DATA", "ENTER"},
         button \in {"up", "held", "spent"}, left \in 0..MaxCalls,
         inputs \subseteq {"buttons", "dial", "pages", "midi"},
         pc \in {"idle", "data", "draw"}
  PROVE  PanelTypeOK
  BY DEF PanelTypeOK, DataRecord, SyxRecord, MIDIRecord, HoldRecord

LEMMA Nothing == 0 \in 0..Long /\ 0 \in 0..DataLong
  BY PanelConstants DEF PanelConstants

LEMMA StartTyped ==
  ASSUME NEW t, NEW on \in BOOLEAN
  PROVE  Start(t, on) \in Tracker /\ Idle \in Tracker
         /\ [Idle EXCEPT !.prev = TRUE] \in Tracker
  BY Nothing DEF Start, Idle, Tracker

LEMMA SeenTyped ==
  ASSUME hold \in HoldRecord, NEW now \in BOOLEAN, NEW inSyx \in BOOLEAN,
         NEW back \in BOOLEAN, Seen(now, inSyx, back)
  PROVE  /\ hold' \in HoldRecord /\ hold'.on = now
         /\ ~inSyx => hold'.syx = IF hold.on THEN hold.syx ELSE 0
         /\ inSyx => hold'.syx <= IF hold.on THEN hold.syx + 1 ELSE 1
         /\ ~back => hold'.back = IF hold.on THEN hold.back ELSE 0
         /\ back => hold'.back <= IF hold.on THEN hold.back + 1 ELSE 1
<1> DEFINE s == IF hold.on THEN hold.syx ELSE 0
           b == IF hold.on THEN hold.back ELSE 0
           s1 == IF inSyx /\ s < 2 THEN s + 1 ELSE s
           b1 == IF back /\ b < 2 THEN b + 1 ELSE b
<1>1. s \in 0..2 /\ b \in 0..2 BY DEF HoldRecord
<1>2. hold' = [on |-> now, syx |-> s1, back |-> b1]
  BY DEF Seen, HoldRecord
<1>3. s1 \in 0..2 /\ b1 \in 0..2 BY <1>1
<1>4. /\ hold' \in HoldRecord /\ hold'.on = now /\ hold'.syx = s1
      /\ hold'.back = b1
  <2> HIDE DEF s1, b1
  <2>. QED BY <1>2, <1>3 DEF HoldRecord
<1>. QED BY <1>1, <1>3, <1>4

LEMMA ReadInputsStep == PanelInv /\ ReadInputs => PanelInv'
<1> SUFFICES ASSUME PanelInv, ReadInputs PROVE PanelInv'
  OBVIOUS
<1> USE TypesOfPanel
<1> DEFINE fresh == [ui EXCEPT !.injected = {}]
<1>1. PICK s \in KeySteps(button, "ENTER" \in pin) :
        LET u == IF s.event = "click" THEN EnterEvent(fresh) ELSE fresh
            gone == IF u.menus \cap Overlaid # {} THEN {Enter} \cap taps
                    ELSE {}
            v == IF gone # {} THEN EnterEvent(u) ELSE u
        IN /\ button' = s.stage
           /\ TakeTaps(gone)
           /\ ui' = TurnRemote(v, turn)
  BY DEF ReadInputs
<1>2. s.stage \in {"up", "held", "spent"}
  BY <1>1 DEF KeySteps, Step
<1> DEFINE u == IF s.event = "click" THEN EnterEvent(fresh) ELSE fresh
           gone == IF u.menus \cap Overlaid # {} THEN {Enter} \cap taps ELSE {}
           v == IF gone # {} THEN EnterEvent(u) ELSE u
<1>3. Keeps(ui, fresh) BY DEF Keeps, Overlay, Scheduled
<1>4. Keeps(fresh, u) BY <1>3, EnterKeeps, KeepsItself DEF Keeps
<1>5. Keeps(u, v) BY <1>4, EnterKeeps, KeepsItself DEF Keeps
<1>6. ui' = TurnRemote(v, turn) /\ TakeTaps(gone) BY <1>1
<1> HIDE DEF fresh, u, gone, v
<1>7. turn \in Int
  BY RemoteConstants DEF RemoteConstants, RemoteTypeOK
<1>8. Keeps(v, ui')
  BY <1>5, <1>6, <1>7, TurnKeeps, KeepsItself DEF Keeps, TurnRemote
<1>9. Keeps(ui, ui')
  BY <1>3, <1>4, <1>5, <1>8, KeepsTransitive
<1>10. /\ UNCHANGED <<inputs, left, pin, data, enter, rd, syx, midi, hold>>
       /\ pc = "idle" /\ pc' = "data"
  BY DEF ReadInputs
<1>11. /\ ui' \in Overlay /\ Scheduled(ui') /\ NoDataInjected' /\ Hidden'
  BY <1>9, <1>10, OverlayStep
<1>12. RemoteTypeOK' BY <1>6, TakeTapsTyped
<1>13. button' \in {"up", "held", "spent"} BY <1>1, <1>2
<1>14. PanelTypeOK'
  BY <1>10, <1>11, <1>12, <1>13 DEF PanelInv, PanelTypeOK
<1>. QED BY <1>11, <1>14 DEF PanelInv

LEMMA ReadDataStep == PanelInv /\ ReadData => PanelInv'
<1> SUFFICES ASSUME PanelInv, ReadData PROVE PanelInv'
  OBVIOUS
<1> USE TypesOfPanel
<1> DEFINE now == "DATA" \in pin \cup mask
           d == DataPressed(now)
           u == IF now /\ ~data.prev /\ "SR" \in ui.menus
                THEN RequestCloseSRMenu(ui)
                ELSE IF \/ now /\ ~data.prev /\ ~CanUseDataLongPress
                        \/ ~now /\ data.prev /\ d.pending
                     THEN OpenByData(ui) ELSE ui
           released == ~now /\ data.prev
<1>1. /\ data' = [prev |-> now,
                  pending |-> d.pending /\ ~released,
                  pass |-> d.pass /\ ~released,
                  age |-> IF d.pending /\ ~released THEN d.age ELSE 0]
      /\ ui' = UtilityFrame(u)
  BY DEF ReadData
<1>2. d \in DataRecord /\ (d.pending => data.pending \/ CanUseDataLongPress)
  BY Nothing DEF DataPressed, DataRecord
<1>3. Keeps(ui, u) BY OpenByDataKeeps, RequestCloseKeeps, KeepsItself
<1> HIDE DEF d, u
<1>4. data' \in DataRecord /\ (data'.pending => d.pending)
  BY <1>1, <1>2, Nothing DEF DataRecord
<1>5. Keeps(ui, ui')
  BY <1>1, <1>3, UtilityKeeps, KeepsTransitive DEF Keeps
<1>6. /\ UNCHANGED <<inputs, left, pin, button, enter, rd, syx, midi, hold, remote>>
      /\ pc = "data" /\ pc' = "draw"
  BY DEF ReadData
<1>7. /\ ui' \in Overlay /\ Scheduled(ui') /\ NoDataInjected'
  BY <1>5, <1>6 DEF Keeps, PanelInv, NoDataInjected
<1>8. Hidden'
  BY <1>2, <1>4, <1>5, <1>6 DEF Keeps, PanelInv, Hidden, CanUseDataLongPress
<1>9. PanelTypeOK'
  BY <1>4, <1>6, <1>7
     DEF PanelInv, PanelTypeOK, DataRecord, remote, RemoteTypeOK
<1>. QED BY <1>7, <1>8, <1>9 DEF PanelInv
LEMMA MainFrameStep == PanelInv /\ MainFrame => PanelInv'
<1> SUFFICES ASSUME PanelInv, MainFrame PROVE PanelInv'
  OBVIOUS
<1> USE TypesOfPanel
<1> DEFINE now == "ENTER" \in Held
           u1 == Draw(ui)
           e == IF now /\ ~enter.prev THEN Start(enter, CanOpenSyxMenu(u1))
                ELSE enter
           opens == now /\ Expired(e)
           u2 == IF opens THEN [Save(u1) EXCEPT !.menus = @ \cup {"SYX"}] ELSE u1
           inRD == u2.menus \cap {"RD500", "Browse"} # {}
           r == IF u2.rdWait THEN [Idle EXCEPT !.prev = TRUE]
                ELSE IF ~rd.prev THEN Start(rd, TRUE) ELSE rd
           back == inRD /\ now /\ Expired(r)
           u3 == IF back THEN LongBack(u2)
                 ELSE IF inRD /\ ~now THEN [u2 EXCEPT !.rdWait = FALSE] ELSE u2
<1>1. /\ pc' = "idle"
      /\ enter' = IF ~now THEN Idle
                  ELSE IF opens THEN [e EXCEPT !.fired = TRUE, !.age = 0] ELSE e
      /\ OpenSYX(opens)
      /\ rd' = IF ~inRD \/ ~now THEN Idle
               ELSE IF back THEN [Idle EXCEPT !.prev = TRUE] ELSE r
      /\ ui' = [u3 EXCEPT !.matrix = UnblockedKeys \cup u3.injected,
                          !.block = @ /\ data.prev]
      /\ Seen(now, opens, back)
      /\ UNCHANGED <<inputs, left, pin, button, data, midi, remote>>
  BY DEF MainFrame
<1>2. Keeps(ui, u1) BY DrawKeeps
<1>3. e \in Tracker
  BY StartTyped DEF CanOpenSyxMenu
<1>4. opens \in BOOLEAN /\ now \in BOOLEAN
  BY <1>3 DEF Expired
<1> HIDE DEF u1, now, e, opens
<1> DEFINE Good(w) == w \in Overlay /\ Scheduled(w) /\ "DATA" \notin w.injected
<1>5. Good(u1)
  BY <1>2 DEF Keeps, PanelInv, NoDataInjected
<1>6. Good(u2)
  <2>1. Good(Save(u1)) BY <1>5, SaveKeeps DEF Keeps
  <2> DEFINE w == Save(u1)
  <2> HIDE DEF w
  <2>2. Good([w EXCEPT !.menus = @ \cup {"SYX"}])
    BY <2>1 DEF w, Overlay, Scheduled, Menus
  <2>. QED BY <1>5, <2>1, <2>2 DEF w
<1> HIDE DEF u2
<1>7. r \in Tracker
  BY StartTyped
<1>8. inRD \in BOOLEAN /\ back \in BOOLEAN
  BY <1>4, <1>7 DEF Expired
<1> HIDE DEF inRD, r, back
<1>9. Good(u3)
  BY <1>6, LongBackKeeps, WaitKeeps DEF Keeps
<1> HIDE DEF u3
<1>10. UnblockedKeys \subseteq Pressed /\ (data.pending => "DATA" \notin UnblockedKeys)
  BY PanelConstants
     DEF PanelConstants, UnblockedKeys, Held, MIDIHeld, MIDIRecord,
         RemoteTypeOK, Pressed
<1>11. Good(ui') /\ ui'.matrix = UnblockedKeys \cup u3.injected
  <2> DEFINE k == UnblockedKeys \cup u3.injected
             b == u3.block /\ data.prev
  <2>1. ui' = [u3 EXCEPT !.matrix = k, !.block = b] BY <1>1
  <2>2. k \subseteq Pressed /\ b \in BOOLEAN
    BY <1>9, <1>10 DEF Overlay, DataRecord
  <2> HIDE DEF k, b
  <2>3. Good(ui') /\ ui'.matrix = k
    BY <1>9, <2>1, <2>2 DEF Overlay, Scheduled
  <2>. QED BY <2>3 DEF k
<1>12. NoDataInjected' BY <1>1, <1>11 DEF PanelInv, NoDataInjected
<1>13. Hidden' BY <1>1, <1>9, <1>10, <1>11 DEF Hidden
<1>14. hold' \in HoldRecord BY <1>1, <1>4, <1>8, SeenTyped
<1>15. enter' \in Tracker
  <2>1. [e EXCEPT !.fired = TRUE, !.age = 0] \in Tracker
    BY <1>3, Nothing DEF Tracker
  <2>. QED BY <1>1, <1>3, <2>1, StartTyped
<1>16. rd' \in Tracker BY <1>1, <1>7, StartTyped
<1>17. syx' \in SyxRecord
  <2>1. ASSUME NEW root \in BOOLEAN
        PROVE  [syx EXCEPT !.wait = TRUE, !.root = root] \in SyxRecord
    BY DEF SyxRecord
  <2>2. syx.root \in BOOLEAN BY DEF SyxRecord
  <2>. QED BY <1>1, <2>1, <2>2 DEF OpenSYX
<1>18. RemoteTypeOK' BY <1>1 DEF remote, RemoteTypeOK
<1>19. PanelTypeOK'
  BY <1>1, <1>11, <1>14, <1>15, <1>16, <1>17, <1>18
     DEF PanelInv, PanelTypeOK, HoldRecord, SyxRecord
<1>. QED BY <1>11, <1>12, <1>13, <1>19 DEF PanelInv

LEMMA SyxFrameStep == PanelInv /\ SyxFrame => PanelInv'
<1> SUFFICES ASSUME PanelInv, SyxFrame PROVE PanelInv'
  OBVIOUS
<1> USE TypesOfPanel
<1> DEFINE now == "ENTER" \in Held
           s == IF now /\ ~syx.on.prev THEN Start(syx.on, TRUE) ELSE syx.on
           long == now /\ Expired(s)
           u == [ui EXCEPT !.lcd = "overlay"]
           after == IF ~now THEN Idle
                    ELSE IF long THEN [Start(s, FALSE) EXCEPT !.fired = TRUE]
                    ELSE s
           waiting == [syx EXCEPT !.wait = now,
                         !.on = IF now THEN [@ EXCEPT !.prev = TRUE] ELSE Idle]
<1>1. /\ UNCHANGED <<inputs, left, pin, button, data, enter, rd, midi, remote>>
      /\ pc' = "idle" /\ "SYX" \in ui.menus
  BY DEF SyxFrame
<1>2. \E did \in BOOLEAN : Seen(now, did, FALSE)
  BY DEF SyxFrame
<1>3. ui' \in {u, ExitSYXMenu(u, TRUE), ExitSYXMenu(u, FALSE)}
  BY DEF SyxFrame
<1>4. Keeps(ui, u) BY DEF Keeps, Overlay, Scheduled, Screens
<1> HIDE DEF u
<1>5. Keeps(ui, ui')
  <2>1. u \in Overlay BY <1>4 DEF Keeps
  <2>2. \A c \in BOOLEAN : Keeps(u, ExitSYXMenu(u, c))
    BY <2>1, ExitKeeps
  <2>3. Keeps(u, ui')
    BY <1>3, <2>1, <2>2, KeepsItself
  <2>. QED BY <1>4, <2>3, KeepsTransitive
<1>6. syx.on \in Tracker BY DEF SyxRecord
<1>7. s \in Tracker BY <1>6, StartTyped
<1>8. [Start(s, FALSE) EXCEPT !.fired = TRUE] \in Tracker
  BY <1>7, StartTyped DEF Tracker
<1>9. after \in Tracker BY <1>7, <1>8, StartTyped
<1> HIDE DEF s, long, after
<1>10. waiting \in SyxRecord
  <2>1. [syx.on EXCEPT !.prev = TRUE] \in Tracker BY <1>6 DEF Tracker
  <2> DEFINE on == IF now THEN [syx.on EXCEPT !.prev = TRUE] ELSE Idle
  <2>2. now \in BOOLEAN OBVIOUS
  <2> HIDE DEF now
  <2>3. on \in Tracker BY <2>1, StartTyped
  <2>4. waiting = [syx EXCEPT !.wait = now, !.on = on] BY DEF SyxRecord
  <2> HIDE DEF on, waiting
  <2>. QED BY <2>2, <2>3, <2>4 DEF SyxRecord
<1>11. syx' = waiting \/ syx' = [syx EXCEPT !.on = after]
       \/ \E root \in BOOLEAN : syx' = [syx EXCEPT !.on = after, !.root = root]
  BY DEF SyxFrame, s, long, after
<1> HIDE DEF waiting
<1>12. syx' \in SyxRecord
  BY <1>9, <1>10, <1>11 DEF SyxRecord
<1>13. /\ ui' \in Overlay /\ Scheduled(ui') /\ NoDataInjected' /\ Hidden'
  BY <1>1, <1>5, OverlayStep
<1>14. hold' \in HoldRecord
  <2>1. PICK did \in BOOLEAN : Seen(now, did, FALSE) BY <1>2
  <2>2. now \in BOOLEAN OBVIOUS
  <2> HIDE DEF now
  <2>. QED BY <2>1, <2>2, SeenTyped
<1>15. PanelTypeOK'
  BY <1>1, <1>12, <1>13, <1>14
     DEF PanelInv, PanelTypeOK, remote, RemoteTypeOK, SyxRecord, HoldRecord
<1>. QED BY <1>13, <1>15 DEF PanelInv

LEMMA OlderTyped ==
  /\ \A t \in Tracker : Older(t, Long) \in Tracker
  /\ \A d \in DataRecord : Older(d, DataLong) \in DataRecord
<1>1. /\ \A n \in 0..Long : (IF n < Long THEN n + 1 ELSE n) \in 0..Long
      /\ \A n \in 0..DataLong :
           (IF n < DataLong THEN n + 1 ELSE n) \in 0..DataLong
  BY PanelConstants DEF PanelConstants
<1>2. ASSUME NEW t \in Tracker PROVE Older(t, Long) \in Tracker
  <2> DEFINE n == IF t.age < Long THEN t.age + 1 ELSE t.age
  <2>1. n \in 0..Long BY <1>1 DEF Tracker
  <2>2. Older(t, Long) = [t EXCEPT !.age = n] BY DEF Older
  <2> HIDE DEF n
  <2>. QED BY <2>1, <2>2 DEF Tracker
<1>3. ASSUME NEW d \in DataRecord PROVE Older(d, DataLong) \in DataRecord
  <2> DEFINE n == IF d.age < DataLong THEN d.age + 1 ELSE d.age
  <2>1. n \in 0..DataLong BY <1>1 DEF DataRecord
  <2>2. Older(d, DataLong) = [d EXCEPT !.age = n] BY DEF Older
  <2> HIDE DEF n
  <2>. QED BY <2>1, <2>2 DEF DataRecord
<1>. QED BY <1>2, <1>3

LEMMA TickStep == PanelInv /\ Tick => PanelInv'
<1> SUFFICES ASSUME PanelInv, Tick PROVE PanelInv'
  OBVIOUS
<1> USE TypesOfPanel
<1>1. UNCHANGED <<inputs, left, pc, ui, pin, button, hold, remote>>
  BY DEF Tick
<1>2. data' \in DataRecord /\ data'.pending = data.pending
  BY OlderTyped DEF Tick, Older, DataRecord
<1>3. enter' \in Tracker /\ rd' \in Tracker
  BY OlderTyped DEF Tick
<1>4. syx' \in SyxRecord
  <2>1. Older(syx.on, Long) \in Tracker BY OlderTyped DEF SyxRecord
  <2>2. syx' = syx \/ syx' = [syx EXCEPT !.on = Older(syx.on, Long)]
    BY DEF Tick
  <2>. QED BY <2>1, <2>2 DEF SyxRecord
<1>5. midi' \in MIDIRecord /\ midi'.write = midi.write
  <2> DEFINE l == IF midi.long > 0 THEN midi.long - 1 ELSE 0
             t == IF midi.tap > 0 THEN midi.tap - 1 ELSE 0
  <2>1. l \in 0..HoldTicks /\ t \in 0..TapTicks
    BY PanelConstants DEF PanelConstants, MIDIRecord
  <2>2. midi' = [midi EXCEPT !.long = l, !.tap = t] BY DEF Tick
  <2> HIDE DEF l, t
  <2>. QED BY <2>1, <2>2 DEF MIDIRecord
<1>6. /\ ui' \in Overlay /\ Scheduled(ui') /\ NoDataInjected' /\ Hidden'
  BY <1>1, <1>2, <1>5 DEF PanelInv, NoDataInjected, Hidden
<1>7. PanelTypeOK'
  BY <1>1, <1>2, <1>3, <1>4, <1>5, <1>6
     DEF PanelInv, PanelTypeOK, DataRecord, SyxRecord, MIDIRecord, remote,
         RemoteTypeOK
<1>. QED BY <1>6, <1>7 DEF PanelInv

LEMMA OutsideStep ==
  PanelInv /\ (PressButton \/ Dial \/ Pages \/ FirmwareDraws) => PanelInv'
<1> SUFFICES ASSUME PanelInv, PressButton \/ Dial \/ Pages \/ FirmwareDraws
             PROVE  PanelInv'
  OBVIOUS
<1> USE TypesOfPanel
<1>1. UNCHANGED <<inputs, pc, button, data, enter, rd, syx, midi, hold>>
  BY DEF PressButton, Dial, Pages, FirmwareDraws
<1>2. pin' \subseteq {"DATA", "ENTER"}
  BY DEF PressButton, Dial, Pages, FirmwareDraws
<1>3. left' \in 0..MaxCalls
  <2>1. CASE Pages
    BY <2>1, PanelConstants DEF PanelConstants, Pages
  <2>. QED BY <2>1 DEF PressButton, Dial, FirmwareDraws
<1>4. RemoteTypeOK'
  BY PagesTyped DEF PressButton, Dial, Pages, FirmwareDraws, remote, RemoteTypeOK
<1>5. Keeps(ui, ui')
  <2>1. CASE Dial
    BY <2>1, TurnKeeps, KeepsItself DEF Dial, TurnKnob
  <2>2. CASE FirmwareDraws
    BY <2>2, PanelConstants
       DEF PanelConstants, FirmwareDraws, Keeps, Overlay, Scheduled, Screens
  <2>3. CASE PressButton \/ Pages
    BY <2>3, KeepsItself DEF PressButton, Pages
  <2>. QED BY <2>1, <2>2, <2>3
<1>6. /\ ui' \in Overlay /\ Scheduled(ui') /\ NoDataInjected' /\ Hidden'
  BY <1>1, <1>5, OverlayStep
<1>7. PanelTypeOK'
  BY <1>1, <1>2, <1>3, <1>4, <1>6 DEF PanelInv, PanelTypeOK
<1>. QED BY <1>6, <1>7 DEF PanelInv

LEMMA PanelInvStep == PanelInv /\ [PanelNext]_allPanel => PanelInv'
<1> SUFFICES ASSUME PanelInv, [PanelNext]_allPanel PROVE PanelInv'
  OBVIOUS
<1>1. CASE UNCHANGED allPanel
  BY <1>1 DEF allPanel, panel, PanelInv, PanelTypeOK, NoDataInjected, Hidden,
     remote, RemoteTypeOK
<1>. QED
  BY <1>1, ReadInputsStep, ReadDataStep, MainFrameStep, SyxFrameStep,
     MIDIKeeps, TickStep, OutsideStep DEF PanelNext, Process

(* The types of the panel, for any device and any number of expansions.     *)
THEOREM PanelTypeCorrect == PanelSpec => []PanelTypeOK
<1>1. PanelInv => PanelTypeOK BY DEF PanelInv
<1>. QED BY PanelInvInit, PanelInvStep, <1>1, PTL DEF PanelSpec

(* However menus are opened and closed, by the keys, HTTP pages or MIDI at  *)
(* any step of a frame: a picture that waits to come back is there, and the *)
(* sequence that brings it back is running.                                 *)
THEOREM RestoresHappen == PanelSpec => []RestoreScheduled
<1>1. PanelInv => RestoreScheduled
  BY DEF PanelInv, Scheduled, RestoreScheduled
<1>. QED BY PanelInvInit, PanelInvStep, <1>1, PTL DEF PanelSpec

(* A DATA press that may still open the SR menu never reaches the firmware. *)
THEOREM PendingDataHidden == PanelSpec => []DataHidden
<1>1. PanelInv => DataHidden
  BY DEF PanelInv, Hidden, DataHidden
<1>. QED BY PanelInvInit, PanelInvStep, <1>1, PTL DEF PanelSpec
----------------------------------------------------------------------------
(* One step for each hold of ENTER, when only the keys and the dial are     *)
(* used.                                                                    *)

NothingHeld ==
  /\ midi.held = {} /\ midi.long = 0 /\ midi.tap = 0 /\ ~midi.busy
  /\ mask = {} /\ taps = {} /\ holding = {} /\ releasing = {} /\ turn = 0

(* The long press that opened the SysEx menu is spent as long as that menu  *)
(* is open. Whoever caused something in this hold of ENTER is kept from     *)
(* doing more: by the wait for the release, or because what counts the hold *)
(* has fired.                                                               *)
SpentWhileOpen == "SYX" \in ui.menus => enter.prev /\ enter.fired

SyxSpent ==
  hold.on /\ hold.syx = 1 =>
    IF "SYX" \in ui.menus
    THEN syx.wait \/ (syx.on.prev /\ ~syx.on.track)
    ELSE enter.prev /\ (enter.fired \/ ~enter.track)

BackSpent ==
  hold.on /\ hold.back = 1 => ui.rdWait \/ (pc # "idle" /\ "ENTER" \notin pin)

OneInv ==
  /\ NothingHeld /\ hold.syx <= 1 /\ hold.back <= 1
  /\ SpentWhileOpen /\ SyxSpent /\ BackSpent

KeysAlone == inputs \subseteq {"buttons", "dial"}

LEMMA OneInvInit == PanelInit => OneInv
  BY DEF PanelInit, RemoteInit, OneInv, NothingHeld, SpentWhileOpen, SyxSpent, BackSpent

LEMMA HeldAlone == ASSUME NothingHeld PROVE Held = pin
  BY DEF NothingHeld, Held, MIDIHeld

(* A step that opens no SysEx menu, counts nothing and lets the wait of the *)
(* RD-500 menus last.                                                       *)
LEMMA OneInvKept ==
  ASSUME OneInv, NothingHeld', hold' = hold,
         "SYX" \in ui'.menus => "SYX" \in ui.menus,
         enter'.prev = enter.prev, enter'.fired = enter.fired,
         enter'.track = enter.track, syx'.wait = syx.wait,
         syx'.on.prev = syx.on.prev, syx'.on.track = syx.on.track,
         BackSpent'
  PROVE  OneInv'
  BY DEF OneInv, SpentWhileOpen, SyxSpent

(* What leaves the wait of the RD-500 menus alone.                          *)
LEMMA WaitLasts ==
  ASSUME NEW u \in Overlay
  PROVE  /\ Save(u).rdWait = u.rdWait
         /\ OpenByData(u).rdWait = u.rdWait
         /\ RequestCloseSRMenu(u).rdWait = u.rdWait
<1>1. Save(u) \in Overlay BY SaveKeeps DEF Keeps
<1>2. Save(u).rdWait = u.rdWait BY DEF Save, Overlay
<1>3. OpenByData(u).rdWait = u.rdWait
  <2> DEFINE w == Save(u)
  <2>1. OpenByData(u) = [w EXCEPT !.menus = @ \cup {"SR"}] BY DEF OpenByData
  <2> HIDE DEF w
  <2>. QED BY <1>1, <1>2, <2>1 DEF w, Overlay
<1>4. RequestCloseSRMenu(u).rdWait = u.rdWait
  BY DEF RequestCloseSRMenu, ScheduleRestore, PressUtilityTwice, Overlay
<1>. QED BY <1>2, <1>3, <1>4

LEMMA OneReadInputs ==
  ASSUME PanelInv, PanelInv', OneInv, ReadInputs PROVE OneInv'
<1> USE TypesOfPanel
<1> DEFINE fresh == [ui EXCEPT !.injected = {}]
<1>1. PICK s \in KeySteps(button, "ENTER" \in pin) :
        LET u == IF s.event = "click" THEN EnterEvent(fresh) ELSE fresh
            gone == IF u.menus \cap Overlaid # {} THEN {Enter} \cap taps
                    ELSE {}
            v == IF gone # {} THEN EnterEvent(u) ELSE u
        IN /\ TakeTaps(gone)
           /\ ui' = TurnRemote(v, turn)
  BY DEF ReadInputs
<1>2. NothingHeld BY DEF OneInv
<1> DEFINE u == IF s.event = "click" THEN EnterEvent(fresh) ELSE fresh
<1>3. ui' = TurnRemote(u, 0) /\ TakeTaps({})
  BY <1>1, <1>2 DEF NothingHeld
<1>4. fresh \in Overlay /\ Keeps(ui, fresh) /\ fresh.rdWait = ui.rdWait
  BY DEF Keeps, Overlay, Scheduled
<1> HIDE DEF fresh
<1>5. Keeps(ui, u) /\ u \in Overlay
  BY <1>4, EnterKeeps, KeepsTransitive DEF Keeps
<1> HIDE DEF u
<1>6. ui'.rdWait = u.rdWait /\ ("SYX" \in ui'.menus => "SYX" \in ui.menus)
  BY <1>3, <1>5, TurnKeeps DEF TurnRemote, Keeps
<1>7. NothingHeld'
  BY <1>2, <1>3 DEF NothingHeld, TakeTaps, ReadInputs
<1>8. UNCHANGED <<pin, enter, syx, hold>> /\ pc' = "data" /\ pc = "idle"
  BY DEF ReadInputs
<1>9. BackSpent'
  <2>1. CASE s.event = "click"
    <3>1. "ENTER" \notin pin BY <1>1, <2>1 DEF KeySteps, Step
    <3>. QED BY <1>8, <3>1 DEF BackSpent
  <2>2. CASE s.event # "click"
    <3>1. u = fresh BY <2>2 DEF u
    <3>. QED BY <1>4, <1>6, <1>8, <3>1 DEF OneInv, BackSpent
  <2>. QED BY <2>1, <2>2
<1>. QED BY <1>6, <1>7, <1>8, <1>9, OneInvKept

LEMMA OneReadData ==
  ASSUME PanelInv, OneInv, ReadData PROVE OneInv'
<1> USE TypesOfPanel
<1>1. PICK u \in {ui, RequestCloseSRMenu(ui), OpenByData(ui)} :
        ui' = UtilityFrame(u)
  BY DEF ReadData
<1>2. Keeps(ui, u) /\ u.rdWait = ui.rdWait
  BY WaitLasts, OpenByDataKeeps, RequestCloseKeeps, KeepsItself
<1>3. ui'.rdWait = ui.rdWait /\ ("SYX" \in ui'.menus => "SYX" \in ui.menus)
  BY <1>1, <1>2, UtilityKeeps DEF Keeps
<1>4. UNCHANGED <<pin, enter, syx, hold, midi, remote>> /\ pc' = "draw"
      /\ pc = "data"
  BY DEF ReadData
<1>5. NothingHeld' BY <1>4 DEF OneInv, NothingHeld, remote
<1>6. BackSpent' BY <1>3, <1>4 DEF OneInv, BackSpent
<1>. QED BY <1>3, <1>4, <1>5, <1>6, OneInvKept

LEMMA OneMainFrame ==
  ASSUME PanelInv, OneInv, MainFrame PROVE OneInv'
<1> USE TypesOfPanel
<1> DEFINE now == "ENTER" \in pin
           u1 == Draw(ui)
           e == IF now /\ ~enter.prev THEN Start(enter, CanOpenSyxMenu(u1))
                ELSE enter
           opens == now /\ Expired(e)
           u2 == IF opens THEN [Save(u1) EXCEPT !.menus = @ \cup {"SYX"}] ELSE u1
           inRD == u2.menus \cap {"RD500", "Browse"} # {}
           r == IF u2.rdWait THEN [Idle EXCEPT !.prev = TRUE]
                ELSE IF ~rd.prev THEN Start(rd, TRUE) ELSE rd
           back == inRD /\ now /\ Expired(r)
           u3 == IF back THEN LongBack(u2)
                 ELSE IF inRD /\ ~now THEN [u2 EXCEPT !.rdWait = FALSE] ELSE u2
<1>1. Held = pin BY HeldAlone DEF OneInv
<1>2. /\ pc' = "idle" /\ "SYX" \notin ui.menus
      /\ enter' = IF ~now THEN Idle
                  ELSE IF opens THEN [e EXCEPT !.fired = TRUE, !.age = 0] ELSE e
      /\ OpenSYX(opens)
      /\ ui' = [u3 EXCEPT !.matrix = UnblockedKeys \cup u3.injected,
                          !.block = @ /\ data.prev]
      /\ Seen(now, opens, back)
      /\ UNCHANGED <<pin, midi, remote>>
  BY <1>1 DEF MainFrame
<1>3. Keeps(ui, u1) /\ u1.rdWait = ui.rdWait /\ u1.menus = ui.menus
  BY DrawKeeps
<1>4. e \in Tracker /\ (now => e.prev)
  BY StartTyped DEF CanOpenSyxMenu, Start
<1>5. opens \in BOOLEAN /\ now \in BOOLEAN
  BY <1>4 DEF Expired
<1>6. hold.on /\ hold.syx = 1 => ~opens /\ (now => e = enter)
  BY <1>2 DEF OneInv, SyxSpent, Expired
<1>7. opens => now
  OBVIOUS
<1> HIDE DEF u1, now, e, opens
<1>8. u2 \in Overlay /\ u2.rdWait = ui.rdWait /\ (~opens => "SYX" \notin u2.menus)
  <2> DEFINE w == Save(u1)
  <2>1. w \in Overlay /\ w.rdWait = ui.rdWait
    BY <1>3, SaveKeeps, WaitLasts DEF Keeps
  <2> HIDE DEF w
  <2>2. LET x == [w EXCEPT !.menus = @ \cup {"SYX"}]
        IN x \in Overlay /\ x.rdWait = ui.rdWait
    BY <2>1 DEF Overlay, Menus
  <2>. QED BY <1>2, <1>3, <2>2 DEF w, Keeps
<1> HIDE DEF u2
<1>9. r \in Tracker /\ (u2.rdWait => ~r.track)
  BY StartTyped DEF Idle
<1>10. inRD \in BOOLEAN /\ back \in BOOLEAN
  BY <1>5, <1>9 DEF Expired
<1>11. hold.on /\ hold.back = 1 /\ now => ui.rdWait /\ ~back
  BY <1>8, <1>9 DEF OneInv, BackSpent, Expired, now
<1>12. back => now
  OBVIOUS
<1> HIDE DEF inRD, r, back
<1>13. /\ u3 \in Overlay
       /\ ~opens => "SYX" \notin u3.menus
       /\ back => u3.rdWait
       /\ now /\ ~back => u3.rdWait = ui.rdWait
  <2>1. CASE back
    BY <1>8, <2>1, LongBackKeeps DEF Keeps
  <2>2. CASE ~back
    BY <1>8, <2>2, WaitKeeps DEF Keeps
  <2>. QED BY <2>1, <2>2
<1> HIDE DEF u3
<1>14. ui'.rdWait = u3.rdWait /\ ui'.menus = u3.menus
  BY <1>2, <1>13 DEF Overlay
<1>15. /\ hold' \in HoldRecord /\ hold'.on = now
       /\ ~opens => hold'.syx = IF hold.on THEN hold.syx ELSE 0
       /\ opens => hold'.syx <= IF hold.on THEN hold.syx + 1 ELSE 1
       /\ ~back => hold'.back = IF hold.on THEN hold.back ELSE 0
       /\ back => hold'.back <= IF hold.on THEN hold.back + 1 ELSE 1
  BY <1>2, <1>5, <1>10, SeenTyped
<1>16. hold.syx \in {0, 1} /\ hold.back \in {0, 1}
  BY DEF OneInv, HoldRecord
<1>17. hold'.syx <= 1
  BY <1>6, <1>15, <1>16
<1>18. hold'.back <= 1
  BY <1>11, <1>12, <1>15, <1>16
<1>19. NothingHeld' BY <1>2 DEF OneInv, NothingHeld, remote
<1>20. opens => enter'.prev /\ enter'.fired /\ syx'.wait
  <2>1. opens => enter' = [e EXCEPT !.fired = TRUE, !.age = 0]
    BY <1>2, <1>7
  <2>2. opens => enter'.prev /\ enter'.fired
    BY <1>4, <1>7, <2>1 DEF Tracker
  <2>3. opens => syx'.wait
    BY <1>2 DEF OpenSYX, SyxRecord
  <2>. QED BY <2>2, <2>3
<1>21. SpentWhileOpen'
  BY <1>13, <1>14, <1>20 DEF SpentWhileOpen
<1>22. SyxSpent'
  <2> SUFFICES ASSUME hold'.on, hold'.syx = 1 PROVE
        IF "SYX" \in ui'.menus
        THEN syx'.wait \/ (syx'.on.prev /\ ~syx'.on.track)
        ELSE enter'.prev /\ (enter'.fired \/ ~enter'.track)
    BY DEF SyxSpent
  <2>1. now BY <1>15
  <2>2. CASE opens
    BY <1>20, <2>2
  <2>3. CASE ~opens
    <3>1. hold.on /\ hold.syx = 1 BY <1>15, <2>3
    <3>2. enter' = enter BY <1>2, <1>6, <2>1, <2>3, <3>1
    <3>3. "SYX" \notin ui'.menus BY <1>13, <1>14, <2>3
    <3>. QED BY <1>2, <3>1, <3>2, <3>3 DEF OneInv, SyxSpent
  <2>. QED BY <2>2, <2>3
<1>23. BackSpent'
  <2> SUFFICES ASSUME hold'.on, hold'.back = 1 PROVE ui'.rdWait
    BY DEF BackSpent
  <2>1. now BY <1>15
  <2>2. CASE back
    BY <1>13, <1>14, <2>2
  <2>3. CASE ~back
    BY <1>11, <1>13, <1>14, <1>15, <2>1, <2>3
  <2>. QED BY <2>2, <2>3
<1>. QED BY <1>17, <1>18, <1>19, <1>21, <1>22, <1>23 DEF OneInv

LEMMA OneSyxFrame ==
  ASSUME PanelInv, OneInv, SyxFrame PROVE OneInv'
<1> USE TypesOfPanel
<1> DEFINE now == "ENTER" \in pin
           s == IF now /\ ~syx.on.prev THEN Start(syx.on, TRUE) ELSE syx.on
           long == now /\ Expired(s)
           short == ~now /\ s.track /\ ~s.fired
           u == [ui EXCEPT !.lcd = "overlay"]
           after == IF ~now THEN Idle
                    ELSE IF long THEN [Start(s, FALSE) EXCEPT !.fired = TRUE]
                    ELSE s
           waiting == [syx EXCEPT !.wait = now,
                         !.on = IF now THEN [@ EXCEPT !.prev = TRUE] ELSE Idle]
<1>1. Held = pin BY HeldAlone DEF OneInv
<1>2. /\ UNCHANGED <<pin, enter, midi, remote>>
      /\ pc = "draw" /\ pc' = "idle" /\ "SYX" \in ui.menus
  BY DEF SyxFrame
<1>3. /\ ui' \in {u, ExitSYXMenu(u, TRUE), ExitSYXMenu(u, FALSE)}
      /\ \/ /\ syx.wait /\ syx' = waiting /\ ui' = u
            /\ Seen(now, FALSE, FALSE)
         \/ /\ ~syx.wait /\ long /\ Seen(now, TRUE, FALSE)
            /\ syx' = [syx EXCEPT !.on = after, !.root = TRUE]
         \/ /\ ~syx.wait /\ short
            /\ Seen(now, FALSE, FALSE) \/ Seen(now, TRUE, FALSE)
         \/ /\ ~syx.wait /\ ~long /\ ~short /\ ui' = u
            /\ syx' = [syx EXCEPT !.on = after] /\ Seen(now, FALSE, FALSE)
  BY <1>1 DEF SyxFrame
<1>4. u \in Overlay /\ u.rdWait = ui.rdWait /\ u.menus = ui.menus
  BY DEF Overlay, Screens
<1> HIDE DEF u
<1>5. ui'.rdWait = ui.rdWait
  BY <1>3, <1>4, ExitKeeps
<1>6. syx.on \in Tracker /\ s \in Tracker
  BY StartTyped DEF SyxRecord
<1>7. hold.on /\ hold.syx = 1 /\ ~syx.wait => s = syx.on /\ ~long /\ ~short
  BY <1>2 DEF OneInv, SyxSpent, Expired
<1>8. long => now /\ after.prev /\ ~after.track
  BY DEF Start
<1>9. short => ~now
  OBVIOUS
<1>10. now /\ ~long => after = s
  OBVIOUS
<1>11. now => waiting.wait
  BY DEF SyxRecord
<1>12. now \in BOOLEAN
  OBVIOUS
<1> HIDE DEF now, s, long, short, after, waiting
<1>13. hold.syx \in {0, 1} /\ hold.back \in {0, 1}
  BY DEF OneInv, HoldRecord
<1>14. /\ hold'.on = now
       /\ hold'.back = IF hold.on THEN hold.back ELSE 0
       /\ \/ hold'.syx = IF hold.on THEN hold.syx ELSE 0
          \/ /\ ~syx.wait /\ (long \/ short)
             /\ hold'.syx <= IF hold.on THEN hold.syx + 1 ELSE 1
       /\ hold'.syx \in 0..2
  <2>1. PICK did \in BOOLEAN : Seen(now, did, FALSE) /\ (did => ~syx.wait /\ (long \/ short))
    BY <1>3
  <2>. QED BY <1>12, <2>1, SeenTyped DEF HoldRecord
<1>15. hold'.syx <= 1 /\ hold'.back <= 1
  BY <1>7, <1>13, <1>14
<1>16. NothingHeld' BY <1>2 DEF OneInv, NothingHeld, remote
<1>17. SpentWhileOpen'
  BY <1>2 DEF OneInv, SpentWhileOpen
<1>18. BackSpent'
  <2> SUFFICES ASSUME hold'.on, hold'.back = 1 PROVE ui'.rdWait
    BY DEF BackSpent
  <2>1. now /\ hold.on /\ hold.back = 1 BY <1>14
  <2>2. ui.rdWait BY <2>1 DEF OneInv, BackSpent, now
  <2>. QED BY <1>5, <2>2
<1>19. SyxSpent'
  <2> SUFFICES ASSUME hold'.on, hold'.syx = 1, "SYX" \in ui'.menus
               PROVE  syx'.wait \/ (syx'.on.prev /\ ~syx'.on.track)
    BY <1>2 DEF OneInv, SpentWhileOpen, SyxSpent
  <2>1. now BY <1>14
  <2>2. CASE syx.wait
    BY <1>3, <1>11, <2>1, <2>2
  <2>3. CASE ~syx.wait /\ long
    <3>1. syx' = [syx EXCEPT !.on = after, !.root = TRUE]
      BY <1>3, <1>9, <2>1, <2>3
    <3>2. syx'.on = after BY <3>1 DEF SyxRecord
    <3>. QED BY <1>8, <2>3, <3>2
  <2>4. CASE ~syx.wait /\ ~long
    <3>1. ~short BY <1>9, <2>1
    <3>2. hold.on /\ hold.syx = 1 BY <1>14, <2>4, <3>1
    <3>3. syx' = [syx EXCEPT !.on = after] BY <1>3, <2>4, <3>1
    <3>4. syx'.on = after BY <3>3 DEF SyxRecord
    <3>5. after = syx.on BY <1>7, <1>10, <2>1, <2>4, <3>2
    <3>. QED BY <1>2, <2>4, <3>2, <3>4, <3>5 DEF OneInv, SyxSpent
  <2>. QED BY <2>2, <2>3, <2>4
<1>. QED BY <1>15, <1>16, <1>17, <1>18, <1>19 DEF OneInv

LEMMA OneOutside ==
  ASSUME PanelInv, OneInv, PressButton \/ Dial \/ FirmwareDraws \/ Tick
  PROVE  OneInv'
<1> USE TypesOfPanel
<1>1. UNCHANGED <<hold, pc, remote>>
  BY DEF PressButton, Dial, FirmwareDraws, Tick
<1>2. NothingHeld'
  <2>1. CASE Tick
    <3>1. /\ midi' = [midi EXCEPT !.long = IF @ > 0 THEN @ - 1 ELSE 0,
                          !.tap = IF @ > 0 THEN @ - 1 ELSE 0]
          /\ midi.long = 0 /\ midi.tap = 0
      BY <2>1 DEF Tick, OneInv, NothingHeld
    <3>2. midi' = [midi EXCEPT !.long = 0, !.tap = 0] BY <3>1
    <3>. QED BY <1>1, <3>2 DEF MIDIRecord, OneInv, NothingHeld, remote
  <2>. QED
    BY <1>1, <2>1 DEF PressButton, Dial, FirmwareDraws, OneInv, NothingHeld, remote
<1>3. ui'.menus = ui.menus /\ ui'.rdWait = ui.rdWait
  <2>1. CASE Dial
    BY <2>1, TurnKeeps DEF Dial, TurnKnob
  <2>2. CASE FirmwareDraws
    BY <2>2 DEF FirmwareDraws, Overlay
  <2>. QED BY <2>1, <2>2 DEF PressButton, Tick
<1>4. /\ enter'.prev = enter.prev /\ enter'.fired = enter.fired
      /\ enter'.track = enter.track /\ syx'.wait = syx.wait
      /\ syx'.on.prev = syx.on.prev /\ syx'.on.track = syx.on.track
  <2>1. CASE Tick
    <3>1. enter' = enter \/ enter' = Older(enter, Long)
      BY <2>1 DEF Tick
    <3>2. ASSUME NEW t \in Tracker
          PROVE  LET o == Older(t, Long)
                 IN o.prev = t.prev /\ o.fired = t.fired /\ o.track = t.track
      BY DEF Older, Tracker
    <3>3. syx' = syx \/ syx' = [syx EXCEPT !.on = Older(syx.on, Long)]
      BY <2>1 DEF Tick
    <3>4. syx'.wait = syx.wait /\ (syx'.on = syx.on \/ syx'.on = Older(syx.on, Long))
      BY <3>3 DEF SyxRecord
    <3>5. syx.on \in Tracker BY DEF SyxRecord
    <3>. QED BY <3>1, <3>2, <3>4, <3>5
  <2>. QED BY <2>1 DEF PressButton, Dial, FirmwareDraws
<1>5. BackSpent'
  <2>1. pc = "idle" \/ pin' = pin
    BY DEF PressButton, Dial, FirmwareDraws, Tick
  <2>. QED BY <1>1, <1>3, <2>1 DEF OneInv, BackSpent
<1>. QED BY <1>1, <1>2, <1>3, <1>4, <1>5, OneInvKept

LEMMA OneInvStep ==
  ASSUME PanelInv, PanelInv', KeysAlone => OneInv, [PanelNext]_allPanel
  PROVE  (KeysAlone => OneInv)'
<1>1. inputs' = inputs
  BY DEF PanelNext, Process, ParseMIDIData, ReadInputs, ReadData, MainFrame,
     SyxFrame, PressButton, Dial, Pages, FirmwareDraws, Tick, MIDIInject,
     MIDIInjectWrite, MIDIHold, MIDIEnter, MIDIEnterLong, MIDIAllRelease,
     MIDIOverlay, MIDIDial, Message, allPanel, panel
<1> SUFFICES ASSUME KeysAlone PROVE OneInv'
  BY <1>1 DEF KeysAlone
<1>2. OneInv OBVIOUS
<1>3. ~ParseMIDIData /\ ~Pages
  BY <1>2 DEF KeysAlone, OneInv, NothingHeld, ParseMIDIData, Pages, MIDIInject,
     MIDIInjectWrite, MIDIHold, MIDIEnter, MIDIEnterLong, MIDIAllRelease,
     MIDIOverlay, MIDIDial, Message
<1>4. CASE UNCHANGED allPanel
  BY <1>2, <1>4 DEF allPanel, panel, remote, OneInv, NothingHeld, SpentWhileOpen,
     SyxSpent, BackSpent
<1>. QED
  BY <1>2, <1>3, <1>4, OneReadInputs, OneReadData, OneMainFrame, OneSyxFrame,
     OneOutside DEF PanelNext, Process

(* "One longpress must perform only ONE back step": whatever the timeouts   *)
(* and whenever the key bounces, one hold of the ENTER button does one      *)
(* thing in the SysEx menu and goes one step back in the RD-500 menus.      *)
THEOREM HoldsCountOnce == PanelSpec => []OneStepPerHold
<1> DEFINE Inv == PanelInv /\ (KeysAlone => OneInv)
<1>1. PanelInit => Inv BY PanelInvInit, OneInvInit
<1>2. Inv /\ [PanelNext]_allPanel => Inv'
  BY PanelInvStep, OneInvStep
<1>3. Inv => OneStepPerHold
  BY DEF KeysAlone, OneInv, OneStepPerHold
<1>. QED BY <1>1, <1>2, <1>3, PTL DEF PanelSpec
=============================================================================
