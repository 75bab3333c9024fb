------------------------------ MODULE Controls ------------------------------
(* A GPIO button and the DATA dial with the contacts that drive them: the   *)
(* button's pin is read by CUIButtons::Update, the dial's by an interrupt   *)
(* for each edge, one of which may be lost on the way from one rest         *)
(* position to the next.                                                    *)
EXTENDS Integers, UIButton, RobustEncoder

VARIABLES
  key,      \* CUIButton
  contact,  \* the button is pressed
  owed,     \* ghost: presses the code has seen that caused no event so far
  dial,     \* CRobustEncoder
  place,    \* the dial, in quarter steps from its last rest
  missed,   \* ghost: edges lost since then
  report    \* ghost: the last return to rest, its event and what happened

controls == <<key, contact, owed, dial, place, missed, report>>

\* The levels of the pins after n quarter steps from rest.
CodeAt(n) == Wiring[(n % 4) + 1]

ControlsTypeOK ==
  /\ IsButton(key)
  /\ contact \in BOOLEAN
  /\ owed \in -1..2
  /\ dial \in [code : Codes, acc : -8..8]
  /\ place \in -8..8 /\ missed \in 0..1
  /\ report \in [event : {"none", "cw", "ccw"}, turned : -8..8,
                 missed : 0..1]

ControlsInit ==
  /\ \E double \in BOOLEAN : key = NewButton(double)
  /\ contact = FALSE /\ owed = 0
  /\ dial = NewEncoder(3) /\ place = 0 /\ missed = 0
  /\ report = [event |-> "none", turned |-> 0, missed |-> 0]

Contact ==
  /\ contact' = ~contact
  /\ UNCHANGED <<key, owed, dial, place, missed, report>>

\* One CUIButtons::Update. A double click settles two presses, a press that
\* came to nothing is forgotten when the next one starts to count.
UpdateButton ==
  LET r == ReadTrigger(key, contact)
      seen == r.button.down /\ ~key.down
      open == IF seen /\ key.clicks = 0 THEN 0 ELSE owed
  IN /\ key' = r.button
     /\ owed' = CASE r.trigger = "none" -> IF seen /\ open < 2 THEN open + 1
                                           ELSE open
                  [] r.trigger = "double" -> owed - 2
                  [] OTHER -> owed - 1
     /\ UNCHANGED <<contact, dial, place, missed, report>>

\* The interrupt sees the pins; back at rest the account is closed.
Edge ==
  \E d \in {-1, 1} :
    LET r == Sample(dial, CodeAt(place + d)) IN
    /\ dial' = r.encoder
    /\ IF (place + d) % 4 = 0
       THEN /\ report' = [event |-> r.event, turned |-> place + d,
                          missed |-> missed]
            /\ place' = 0 /\ missed' = 0
       ELSE place' = place + d /\ UNCHANGED <<missed, report>>
    /\ UNCHANGED <<key, contact, owed>>

LostEdge ==
  /\ missed = 0 /\ missed' = 1
  /\ \E d \in {-1, 1} : place' = place + d
  /\ UNCHANGED <<key, contact, owed, dial, report>>

ControlsNext == Contact \/ UpdateButton \/ Edge \/ LostEdge

ControlsSpec == ControlsInit /\ [][ControlsNext]_controls

----------------------------------------------------------------------------

(* A press causes at most one event: a long press is not followed by a      *)
(* click when it is released, a double click is not two clicks more.        *)
OneEventPerPress == owed >= 0

(* Panel takes of a button without a double click no more than its Stage:   *)
(* each read of the real one is a step, and an event, of that.              *)
PanelSeesTheKey ==
  [][key' # key /\ ~key.double =>
       Step(Stage(key'), ReadTrigger(key, contact).trigger)
         \in KeySteps(Stage(key), contact)]_controls

(* The dial reports a step only for a whole detent in that direction, also  *)
(* when an edge was lost; with every edge seen it reports each detent.      *)
NoFalseDetent ==
  /\ report.event = "cw" => report.turned >= 4
  /\ report.event = "ccw" => report.turned <= -4
  /\ report.missed = 0 /\ report.turned = 4 => report.event = "cw"
  /\ report.missed = 0 /\ report.turned = -4 => report.event = "ccw"
=============================================================================
