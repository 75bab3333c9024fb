------------------------------ MODULE UIButton ------------------------------
(* One GPIO button of CUIButtons: debouncing, clicks and long presses       *)
(* (src/uibuttons.cpp). Pure operators on the button's record, its timeouts *)
(* counted in calls of ReadTrigger as in the code, and what Panel keeps of  *)
(* it (KeySteps, which Controls shows to be enough).                        *)
EXTENDS Integers

CONSTANTS
  Debounce,     \* DEBOUNCE_TIME
  DoubleClick,  \* m_doubleClickTimeout
  LongPress     \* m_longPressTimeout

ASSUME ButtonTimes ==
  /\ Debounce \in Nat /\ DoubleClick \in Nat /\ LongPress \in Nat
  /\ 0 < DoubleClick /\ DoubleClick <= LongPress

IsButton(b) ==
  b \in [down : BOOLEAN, timer : 0..LongPress, bounce : 0..Debounce,
         clicks : 0..2, double : BOOLEAN]  \* a double click event is bound

NewButton(double) ==
  [down |-> FALSE, timer |-> LongPress, bounce |-> Debounce, clicks |-> 0,
   double |-> double]

(* Mutant: a press that ran into the long press timeout keeps its click,   *)
(* which its release then reports a second time.                           *)
KeepsClick(b) == [b EXCEPT !.timer = LongPress]

Reset(b) == [b EXCEPT !.timer = LongPress, !.clicks = 0]

(* What the handler of a button whose double click is not bound can see of *)
(* it: up, held, or held for so long that its release will be no click.    *)
Stage(b) ==
  IF ~b.down THEN "up" ELSE IF b.clicks = 0 THEN "spent" ELSE "held"

Step(to, event) == [stage |-> to, event |-> event]

(* One read of such a button, or none: the timeouts and the debouncing are *)
(* counted in reads, so that they may pass at any of them.                 *)
KeySteps(stage, pin) ==
  {Step(stage, "none")}
    \cup (IF stage = "up" /\ pin THEN {Step("held", "none")} ELSE {})
    \cup (IF stage = "held" THEN {Step("spent", "long")} ELSE {})
    \cup (IF stage = "held" /\ ~pin THEN {Step("up", "click")} ELSE {})
    \cup (IF stage = "spent" /\ ~pin THEN {Step("up", "none")} ELSE {})

Read(b, trigger) == [button |-> b, trigger |-> trigger]

(* The timer reached a timeout: one click of a released button, a long     *)
(* press of a held one, or nothing more to wait for.                       *)
Expire(b) ==
  LET t == [b EXCEPT !.timer = @ + 1] IN
  IF t.timer = DoubleClick /\ ~b.down /\ b.clicks = 1
  THEN Read(Reset(b), "click")
  ELSE IF t.timer = LongPress
       THEN Read(Reset(b),
                 IF b.down /\ b.clicks = 1 THEN "long" ELSE "none")
       ELSE Read(t, "none")

Press(b) ==
  Read([b EXCEPT !.down = TRUE, !.bounce = 0,
                 !.timer = IF b.clicks = 0 THEN 0 ELSE @,
                 !.clicks = IF @ < 2 THEN @ + 1 ELSE @],
       "none")

Release(b) ==
  LET r == [b EXCEPT !.down = FALSE, !.bounce = 0] IN
  IF /\ b.clicks = 1
     /\ ~b.double \/ (b.timer >= DoubleClick /\ b.timer < LongPress)
  THEN Read(Reset(r), "click")
  ELSE IF b.clicks = 2
       THEN Read(Reset(r), "double")
       ELSE Read(r, "none")

(* CUIButton::ReadTrigger: a timeout that reports returns at once, without *)
(* looking at the pin; nothing is read while the contacts may bounce.      *)
ReadTrigger(b, pin) ==
  LET e == IF b.timer < LongPress THEN Expire(b) ELSE Read(b, "none") IN
  IF e.trigger # "none" THEN e
  ELSE IF e.button.bounce < Debounce
       THEN Read([e.button EXCEPT !.bounce = @ + 1], "none")
       ELSE IF pin = e.button.down THEN e
            ELSE IF pin THEN Press(e.button) ELSE Release(e.button)
=============================================================================
