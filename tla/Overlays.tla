------------------------------ MODULE Overlays ------------------------------
(* The menus CMiniJV880 draws over the firmware's screen and what they do   *)
(* to the LCD, the button matrix and the injected buttons                   *)
(* (src/minijv880.cpp, src/minijv880.h, src/userinterface.cpp). Operators   *)
(* on one record; Panel says who calls them and when.                       *)
(*                                                                          *)
(* Screens are told apart as far as the code does: Patch or Performance     *)
(* Play (the Write and Copy pages name their mode and count as it), a page  *)
(* of the firmware's menus, and what the overlays leave. Which RD-500 bank  *)
(* or SysEx file the dial points at changes nothing here and is left out.   *)
EXTENDS Integers

CONSTANTS
  NumSR,      \* g_SRNames.size(); the entry after the last is RD-500
  SeqFrames,  \* frames of each step of the UTILITY sequence (2 in the code)
  None        \* no snapshot: s_LCDOverlaySnapshotValid is false

ASSUME OverlayConstants == NumSR \in Nat /\ SeqFrames \in Nat \ {0}

Native  == {"patch", "perf", "menu"}
Screens == Native \cup {"blank", "overlay"}
Menus   == {"SR", "RD500", "Browse", "SYX"}
Pressed == {"DATA", "ENTER", "UTILITY"}

Overlay ==
  [menus : SUBSET Menus,           \* m_bSRMenuActive and its three siblings
   lcd : Screens,                  \* mcu.lcd.LCD_Data
   snap : Native \cup {"blank", "overlay", None},
   restore : BOOLEAN,              \* s_LCDOverlayRestorePending
   matrix : SUBSET Pressed,        \* mcu.mcu_button_pressed
   injected : SUBSET Pressed,         \* m_InjectedButtonMask
   seq : 0..4, frames : 0..SeqFrames,      \* m_UtilitySeqState, m_UtilitySeqFrames
   block : BOOLEAN,                \* m_BlockDataUntilRelease
   rdWait : BOOLEAN,               \* m_bRD500WaitEnterRelease
   sr : 0..NumSR,                  \* m_nSRIndex
   have : SUBSET {"sr", "rd500"}]  \* the files found on the card

Save(u) ==
  IF u.snap # None THEN u ELSE [u EXCEPT !.snap = u.lcd, !.restore = FALSE]

ScheduleRestore(u) == [u EXCEPT !.restore = @ \/ u.snap # None]

CancelSnapshot(u) == [u EXCEPT !.snap = None, !.restore = FALSE]

Restore(u) ==
  IF u.snap = None \/ ~u.restore THEN u
  ELSE [u EXCEPT !.lcd = u.snap, !.snap = None, !.restore = FALSE]

PressUtilityTwice(u) == [u EXCEPT !.seq = 1, !.frames = SeqFrames]

----------------------------------------------------------------------------

OpenSRMenu(u) ==
  [u EXCEPT !.menus = @ \cup {"SR"}, !.sr = 0, !.matrix = {}]

\* The title is blanked; one UTILITY press makes the firmware draw again.
CloseSRMenu(u) ==
  [u EXCEPT !.menus = @ \ {"SR"}, !.lcd = "blank", !.injected = {"UTILITY"}]

\* Also what a second DATA press does.
RequestCloseSRMenu(u) ==
  PressUtilityTwice([ScheduleRestore(u) EXCEPT
    !.menus = @ \ {"SR"}, !.lcd = "blank", !.block = TRUE])

OpenRD500Menu(u) ==
  [u EXCEPT !.menus = (@ \ {"SR"}) \cup {"RD500"}, !.matrix = {}]

CloseRD500Menu(u) ==
  [u EXCEPT !.menus = (@ \ {"RD500"}) \cup {"SR"}, !.matrix = {}]

OpenRD500PatchBrowse(u) ==
  [u EXCEPT !.menus = (@ \ {"RD500"}) \cup {"Browse"}, !.matrix = {}]

CloseRD500PatchBrowse(u) ==
  [u EXCEPT !.menus = (@ \ {"Browse"}) \cup {"RD500"}, !.matrix = {}]

\* One long press in the RD-500 menus: one step back, then wait for release.
LongBack(u) ==
  IF "Browse" \in u.menus
  THEN CloseRD500PatchBrowse([u EXCEPT !.rdWait = TRUE])
  ELSE CloseRD500Menu([u EXCEPT !.rdWait = TRUE])

\* Leaving the SysEx menu: by a long press the screen comes back, after a
\* load the firmware draws a new one.
ExitSYXMenu(u, comesBack) ==
  LET v == IF comesBack THEN ScheduleRestore(u) ELSE CancelSnapshot(u) IN
  PressUtilityTwice([v EXCEPT !.menus = @ \ {"SYX"}, !.lcd = "blank"])

----------------------------------------------------------------------------

\* ENTER in the SR list: the RD-500 entry, an error to acknowledge, or an
\* expansion applied under the engine pause (EnginePause).
EnterSR(u) ==
  IF u.sr = NumSR THEN OpenRD500Menu(u)
  ELSE IF "sr" \notin u.have THEN RequestCloseSRMenu(u) ELSE CloseSRMenu(u)

\* UIButtonsEventHandler for ENTER; DATA has no event of its own and the other
\* buttons only press their key. In the patch browser the selected patch is
\* applied, which leaves the menus as they are.
EnterEvent(u) ==
  IF u.rdWait THEN [u EXCEPT !.rdWait = FALSE]
  ELSE IF "SR" \in u.menus THEN EnterSR(u)
  ELSE IF "RD500" \in u.menus
       THEN IF "rd500" \in u.have THEN OpenRD500PatchBrowse(u) ELSE u
  ELSE IF "Browse" \in u.menus THEN u
  ELSE [u EXCEPT !.matrix = {"ENTER"}]

\* Mutant: the list does not wrap.
TurnSRUnwrapped(u, d) ==
  IF "SR" \in u.menus THEN [u EXCEPT !.sr = @ + d] ELSE u

\* The dial, turned by the knob (which asks for the SR menu first), over HTTP
\* or by MIDI. Only the SR list's place matters here.
TurnSR(u, d) ==
  IF "SR" \in u.menus THEN [u EXCEPT !.sr = (@ + d) % (NumSR + 1)] ELSE u

TurnKnob(u, d) == IF "SYX" \in u.menus THEN u ELSE TurnSR(u, d)

TurnRemote(u, d) ==
  IF u.menus \cap {"SYX", "Browse", "RD500"} # {} THEN u ELSE TurnSR(u, d)

----------------------------------------------------------------------------

\* Mutant: the end of the sequence does not bring the screen back.
UtilityFrameOnly(u) ==
  IF u.seq = 0 THEN u
  ELSE LET on == [u EXCEPT !.frames = IF @ > 0 THEN @ - 1 ELSE 0]
       IN IF on.frames # 0 THEN on
          ELSE IF u.seq < 4 THEN [on EXCEPT !.seq = @ + 1, !.frames = SeqFrames]
          ELSE [on EXCEPT !.seq = 0]

\* One frame of the UTILITY sequence: on, off, on, off, SeqFrames each; then
\* the screen comes back.
UtilityFrame(u) ==
  IF u.seq = 0 THEN u
  ELSE LET on == [u EXCEPT !.injected =
                    @ \cup (IF u.seq \in {1, 3} THEN {"UTILITY"} ELSE {}),
                  !.frames = IF @ > 0 THEN @ - 1 ELSE 0]
       IN IF on.frames # 0 THEN on
          ELSE IF u.seq < 4 THEN [on EXCEPT !.seq = @ + 1, !.frames = SeqFrames]
          ELSE Restore([on EXCEPT !.seq = 0])

\* What section 6 of Process draws.
Draw(u) == IF u.menus \ {"SYX"} = {} THEN u ELSE [u EXCEPT !.lcd = "overlay"]
=============================================================================
