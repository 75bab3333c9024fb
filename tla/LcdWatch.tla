------------------------------ MODULE LcdWatch ------------------------------
(* What a frame of CMiniJV880::Process reads off the LCD                    *)
(* (src/minijv880.cpp): the text it reports on the serial line, once it has *)
(* been stable and not too often, and, unless the SYX menu is open, the     *)
(* play mode, which it corrects when the firmware leaves a menu in another  *)
(* one. The LCD itself, written by the firmware on another core and by the  *)
(* menus, shows anything at any frame.                                      *)
EXTENDS Integers

CONSTANTS
  StableFrames,  \* 4 in the code
  EmitFrames,    \* 16 in the code
  Unknown        \* EPlayMode::Unknown

ASSUME LcdConstants == StableFrames \in Nat /\ EmitFrames \in Nat

Modes == {"patch", "perf"}
Shown == {"patch", "perf", "edit", "other"}

VARIABLES
  lcdPage,  \* LCD_Data, as far as it is told apart here
  srOpen,   \* m_bSRMenuActive
  current,  \* m_CurrentPlayMode
  base,     \* m_BaseModeBeforeMenu
  inMenu,   \* m_bWasInFwMenu
  press,    \* m_PatchPerfSeqState and m_PatchPerfSeqFrames
  cand,     \* s_candidate1, s_candidate2, s_candidateCursorPos
  emitted,  \* s_emitted1, s_emitted2, s_emittedCursorPos
  stable,   \* s_stableFrames
  since,    \* s_framesSinceEmit
  quiet     \* ghost: frames that saw this page since it appeared

lcd == <<lcdPage, srOpen, current, base, inMenu, press, cand, emitted, stable,
         since, quiet>>

\* The frames after which nothing may be left to report.
Enough == IF StableFrames < EmitFrames THEN EmitFrames ELSE StableFrames + 1

UpTo(n, limit) == IF n < limit THEN n + 1 ELSE n

LcdTypeOK ==
  /\ lcdPage \in Shown /\ srOpen \in BOOLEAN
  /\ current \in Modes \cup {Unknown} /\ base \in Modes \cup {Unknown}
  /\ inMenu \in BOOLEAN
  /\ press \in [state : 0..2, frames : 0..2]
  /\ cand \in Shown \cup {Unknown} /\ emitted \in Shown \cup {Unknown}
  /\ stable \in 0..StableFrames /\ since \in 0..EmitFrames
  /\ quiet \in 0..Enough

LcdInit ==
  /\ lcdPage \in Shown /\ srOpen = FALSE
  /\ current = Unknown /\ base = Unknown /\ inMenu = FALSE
  /\ press = [state |-> 0, frames |-> 0]
  /\ cand = Unknown /\ emitted = Unknown
  /\ stable = 0 /\ since = EmitFrames
  /\ quiet = 0

DetectPlayModeFromLCD == IF lcdPage \in Modes THEN lcdPage ELSE Unknown

\* The PATCH/PERF key is held two frames, then kept up for two.
PressFrame ==
  IF press.state = 0 THEN press
  ELSE IF press.frames > 1 THEN [press EXCEPT !.frames = @ - 1]
  ELSE IF press.state = 1 THEN [state |-> 2, frames |-> 2]
  ELSE [state |-> 0, frames |-> 0]

PlayModeTrackingTick ==
  LET now == DetectPlayModeFromLCD
      menu == lcdPage = "edit"
      enters == menu /\ ~inMenu
      wrong == /\ ~menu /\ inMenu
               /\ base # Unknown /\ now # Unknown /\ now # base
  IN IF srOpen
     THEN press' = PressFrame /\ UNCHANGED <<current, base, inMenu>>
     ELSE /\ inMenu' = menu
          /\ base' = IF enters /\ current # Unknown THEN current ELSE base
          /\ current' = IF ~menu /\ now # Unknown THEN now ELSE current
          /\ press' = IF wrong THEN [state |-> 1, frames |-> 2]
                      ELSE PressFrame

\* Mutant: a page is only looked at in the frame it becomes stable.
EmitOnce ==
  LET same == lcdPage = cand
      s == IF same THEN UpTo(stable, StableFrames) ELSE 0
      n == UpTo(since, EmitFrames)
      emits == /\ s = StableFrames /\ stable < StableFrames
               /\ n >= EmitFrames /\ lcdPage # emitted
  IN /\ cand' = lcdPage /\ stable' = s
     /\ emitted' = IF emits THEN lcdPage ELSE emitted
     /\ since' = IF emits THEN 0 ELSE n

MaybeEmitLCDChangeSerialEvent ==
  LET same == lcdPage = cand
      s == IF same THEN UpTo(stable, StableFrames) ELSE 0
      n == UpTo(since, EmitFrames)
      emits == s >= StableFrames /\ n >= EmitFrames /\ lcdPage # emitted
  IN /\ cand' = lcdPage /\ stable' = s
     /\ emitted' = IF emits THEN lcdPage ELSE emitted
     /\ since' = IF emits THEN 0 ELSE n

LcdFrame ==
  /\ PlayModeTrackingTick
  /\ MaybeEmitLCDChangeSerialEvent
  /\ quiet' = UpTo(quiet, Enough)
  /\ UNCHANGED <<lcdPage, srOpen>>

\* With the SYX menu open Process has kept the PATCH/PERF key going, reports,
\* and returns before it looks at the play mode.
LcdSyxFrame ==
  /\ press' = PressFrame
  /\ MaybeEmitLCDChangeSerialEvent
  /\ quiet' = UpTo(quiet, Enough)
  /\ UNCHANGED <<lcdPage, srOpen, current, base, inMenu>>

LcdChanges ==
  /\ lcdPage' \in Shown \ {lcdPage}
  /\ quiet' = 0
  /\ UNCHANGED <<srOpen, current, base, inMenu, press, cand, emitted, stable,
                 since>>

SRMenu ==
  /\ srOpen' = ~srOpen
  /\ UNCHANGED <<lcdPage, current, base, inMenu, press, cand, emitted, stable,
                 since, quiet>>

LcdNext == LcdFrame \/ LcdSyxFrame \/ LcdChanges \/ SRMenu

LcdSpec == LcdInit /\ [][LcdNext]_lcd

----------------------------------------------------------------------------

(* The throttle loses nothing: a page that stays is reported at the latest  *)
(* after the frames both limits ask for, however often and however fast the *)
(* pages changed before.                                                    *)
ReadbackCatchesUp == quiet = Enough => emitted = lcdPage
=============================================================================
