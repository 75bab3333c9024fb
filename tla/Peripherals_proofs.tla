-------------------------- MODULE Peripherals_proofs --------------------------
(* What the devices around the processor keep for every value of their      *)
(* constants: a button and the dial (Controls), the text read off the LCD  *)
(* (LcdWatch), and the requests of the timers, the converter and the gate   *)
(* array (Timers, GateArray), which are in step with their flags.           *)
EXTENDS Controls, LcdWatch, Sci, Timers, GateArray, SequenceTheorems, TLAPS

(* The button, for any timeouts and any bouncing.                           *)

(* What the code knows of a press: a press it counts is owed an event, its  *)
(* timer runs; a released button waits for its double click or counts       *)
(* nothing, and the latter at once when no double click is bound.           *)
Counting(b) ==
  /\ IsButton(b)
  /\ b.clicks > 0 => b.timer < LongPress
  /\ ~b.down => b.clicks = 0 \/ (b.clicks = 1 /\ b.double /\ b.timer < DoubleClick)
  /\ ~b.double => b.clicks < 2

KeyInv ==
  /\ Counting(key) /\ contact \in BOOLEAN
  /\ owed \in 0..2 /\ owed >= key.clicks

Buttons ==
  [down : BOOLEAN, timer : 0..LongPress, bounce : 0..Debounce,
   clicks : 0..2, double : BOOLEAN]

LEMMA ButtonsAre == \A b : IsButton(b) <=> b \in Buttons
  BY DEF IsButton, Buttons

LEMMA Limits ==
  /\ Debounce \in Nat /\ DoubleClick \in Nat /\ LongPress \in Nat
  /\ 0 < DoubleClick /\ DoubleClick <= LongPress
  /\ 0 \in 0..Debounce /\ LongPress \in 0..LongPress
  BY ButtonTimes DEF ButtonTimes

LEMMA ResetButton ==
  ASSUME NEW b \in Buttons
  PROVE  /\ Reset(b) \in Buttons
         /\ Reset(b).clicks = 0 /\ Reset(b).timer = LongPress
         /\ Reset(b).down = b.down /\ Reset(b).double = b.double
<1>1. LongPress \in 0..LongPress /\ 0 \in 0..2 BY Limits
<1>. QED BY <1>1 DEF Reset, Buttons

LEMMA ExpireCounts ==
  ASSUME NEW b, Counting(b), b.timer < LongPress
  PROVE  LET e == Expire(b) IN
         /\ Counting(e.button) /\ e.button.down = b.down
         /\ e.button.double = b.double
         /\ e.trigger \in {"none", "click", "long"}
         /\ e.trigger # "none" => b.clicks = 1 /\ e.button.clicks = 0
         /\ e.trigger = "click" => ~b.down
         /\ e.trigger = "long" => b.down
         /\ e.trigger = "none" =>
              \/ e.button.clicks = b.clicks
              \/ e.button.clicks = 0 /\ b.clicks = 2 /\ b.down
<1> DEFINE n == b.timer + 1
           t == [b EXCEPT !.timer = @ + 1]
           z == Reset(b)
<1>1. b \in Buttons BY ButtonsAre DEF Counting
<1>2. b.timer \in 0..LongPress /\ n \in 0..LongPress
  BY <1>1, Limits DEF Buttons
<1>3. /\ t \in Buttons /\ t.timer = n /\ t.down = b.down
      /\ t.clicks = b.clicks /\ t.double = b.double
  <2>1. t = [b EXCEPT !.timer = n] OBVIOUS
  <2> HIDE DEF n, t
  <2>. QED BY <1>1, <1>2, <2>1 DEF Buttons
<1>4. Expire(b) =
        IF t.timer = DoubleClick /\ ~b.down /\ b.clicks = 1
        THEN Read(z, "click")
        ELSE IF t.timer = LongPress
             THEN Read(z, IF b.down /\ b.clicks = 1 THEN "long" ELSE "none")
             ELSE Read(t, "none")
  BY DEF Expire
<1>5. /\ z \in Buttons /\ z.clicks = 0 /\ z.timer = LongPress
      /\ z.down = b.down /\ z.double = b.double
  BY <1>1, ResetButton
<1> HIDE DEF t, z
<1>6. Counting(z)
  BY <1>5, ButtonsAre DEF Counting
<1>7. ASSUME t.timer # LongPress,
             ~(t.timer = DoubleClick /\ ~b.down /\ b.clicks = 1)
      PROVE  Counting(t)
  <2>1. n < LongPress BY <1>2, <1>3, <1>7, Limits
  <2>2. ~b.down /\ b.clicks = 1 => n < DoubleClick
    BY <1>2, <1>3, <1>7, Limits DEF Counting
  <2>. QED BY <1>3, <2>1, <2>2, ButtonsAre DEF Counting
<1>8. b.clicks \in 0..2 BY <1>1 DEF Buttons
<1>9. CASE t.timer = DoubleClick /\ ~b.down /\ b.clicks = 1
  BY <1>3, <1>4, <1>5, <1>6, <1>9 DEF Read
<1>10. CASE ~(t.timer = DoubleClick /\ ~b.down /\ b.clicks = 1) /\ t.timer = LongPress
  <2>1. ~(b.down /\ b.clicks = 1) => b.clicks = 0 \/ (b.clicks = 2 /\ b.down)
    <3>1. b.timer + 1 = LongPress BY <1>2, <1>3, <1>10
    <3>2. ASSUME ~b.down, b.clicks = 1 PROVE FALSE
      <4>1. b.timer < DoubleClick BY <3>2 DEF Counting
      <4>2. DoubleClick = LongPress BY <1>2, <3>1, <4>1, Limits
      <4>. QED BY <1>10, <3>2, <4>2
    <3>3. b.clicks = 2 => b.down BY DEF Counting
    <3>4. b.clicks \in {0, 1, 2} BY <1>8
    <3>. QED BY <3>2, <3>3, <3>4
  <2>. QED BY <1>3, <1>4, <1>5, <1>6, <1>10, <2>1 DEF Read
<1>11. CASE ~(t.timer = DoubleClick /\ ~b.down /\ b.clicks = 1) /\ t.timer # LongPress
  BY <1>3, <1>4, <1>7, <1>11 DEF Read
<1>. QED BY <1>9, <1>10, <1>11

LEMMA PressCounts ==
  ASSUME NEW b, Counting(b), ~b.down
  PROVE  LET p == Press(b) IN
         /\ Counting(p.button) /\ p.button.down /\ p.trigger = "none"
         /\ p.button.double = b.double
         /\ p.button.clicks = b.clicks + 1 /\ b.clicks \in 0..1
<1> DEFINE n == IF b.clicks = 0 THEN 0 ELSE b.timer
           c == IF b.clicks < 2 THEN b.clicks + 1 ELSE b.clicks
           p == [b EXCEPT !.down = TRUE, !.bounce = 0,
                          !.timer = IF b.clicks = 0 THEN 0 ELSE @,
                          !.clicks = IF @ < 2 THEN @ + 1 ELSE @]
<1>1. b \in Buttons BY ButtonsAre DEF Counting
<1>2. b.clicks \in 0..1
  BY <1>1 DEF Counting, Buttons
<1>3. /\ n \in 0..LongPress /\ n < LongPress /\ 0 \in 0..Debounce
  BY <1>1, <1>2, Limits DEF Counting, Buttons
<1>4. c \in 0..2 /\ c = b.clicks + 1 /\ c > 0 /\ (~b.double => c = 1)
  BY <1>2 DEF Counting
<1>5. Press(b) = Read(p, "none") BY DEF Press
<1>6. p = [b EXCEPT !.down = TRUE, !.bounce = 0, !.timer = n, !.clicks = c]
  OBVIOUS
<1> HIDE DEF n, c, p
<1>7. p \in Buttons
  BY <1>1, <1>3, <1>4, <1>6 DEF Buttons
<1>8. /\ p.down /\ p.timer = n /\ p.clicks = c /\ p.double = b.double
  BY <1>1, <1>6 DEF Buttons
<1>9. Counting(p)
  BY <1>3, <1>4, <1>7, <1>8, ButtonsAre DEF Counting
<1>. QED BY <1>2, <1>4, <1>5, <1>8, <1>9 DEF Read

LEMMA ReleaseCounts ==
  ASSUME NEW b, Counting(b), b.down
  PROVE  LET r == Release(b) IN
         /\ Counting(r.button) /\ ~r.button.down
         /\ r.button.double = b.double
         /\ r.trigger \in {"none", "click", "double"}
         /\ r.trigger = "none" => r.button.clicks = b.clicks
         /\ r.trigger = "click" => b.clicks = 1 /\ r.button.clicks = 0
         /\ r.trigger = "double" => b.clicks = 2 /\ r.button.clicks = 0
         /\ ~b.double => r.trigger = IF b.clicks = 1 THEN "click" ELSE "none"
<1> DEFINE r == [b EXCEPT !.down = FALSE, !.bounce = 0]
           z == Reset(r)
           counts == /\ b.clicks = 1
                     /\ ~b.double \/ (b.timer >= DoubleClick /\ b.timer < LongPress)
<1>1. b \in Buttons BY ButtonsAre DEF Counting
<1>2. /\ r \in Buttons /\ ~r.down /\ r.timer = b.timer /\ r.clicks = b.clicks
      /\ r.double = b.double
  <2>1. 0 \in 0..Debounce BY Limits
  <2>. QED BY <1>1, <2>1 DEF Buttons
<1>3. Release(b) = IF counts THEN Read(z, "click")
                   ELSE IF b.clicks = 2 THEN Read(z, "double") ELSE Read(r, "none")
  BY DEF Release
<1>4. z \in Buttons /\ z.clicks = 0 /\ ~z.down /\ z.double = b.double
      /\ z.timer = LongPress
  BY <1>2, ResetButton
<1> HIDE DEF r, z
<1>5. Counting(z) BY <1>4, ButtonsAre DEF Counting
<1>6. b.clicks \in 0..2 /\ b.timer \in 0..LongPress BY <1>1 DEF Buttons
<1>7. ASSUME ~counts, b.clicks # 2 PROVE Counting(r)
  <2>1. b.clicks = 0 \/ (b.clicks = 1 /\ b.double /\ b.timer < DoubleClick)
    BY <1>6, <1>7, Limits DEF Counting
  <2>. QED BY <1>2, <2>1, ButtonsAre DEF Counting
<1>8. CASE counts
  BY <1>3, <1>4, <1>5, <1>8 DEF Read
<1>9. CASE ~counts /\ b.clicks = 2
  BY <1>3, <1>4, <1>5, <1>9 DEF Read, Counting
<1>10. CASE ~counts /\ b.clicks # 2
  BY <1>2, <1>3, <1>7, <1>10 DEF Read
<1>. QED BY <1>8, <1>9, <1>10

(* One read of the button: a timeout, or nothing, or an edge of the pin,    *)
(* before which a count may have run out.                                   *)
LEMMA ReadCounts ==
  ASSUME NEW b, Counting(b), NEW pin \in BOOLEAN
  PROVE  LET r == ReadTrigger(b, pin)
             k == r.button
         IN /\ Counting(k) /\ k.double = b.double
            /\ \/ /\ r.trigger = "click" /\ ~b.down /\ ~k.down
                  /\ b.clicks = 1 /\ k.clicks = 0
               \/ /\ r.trigger = "long" /\ b.down /\ k.down
                  /\ b.clicks = 1 /\ k.clicks = 0
               \/ /\ r.trigger = "none" /\ k.down = b.down
                  /\ \/ k.clicks = b.clicks
                     \/ k.clicks = 0 /\ b.clicks = 2 /\ b.down
               \/ /\ r.trigger = "none" /\ pin /\ ~b.down /\ k.down
                  /\ k.clicks = b.clicks + 1
               \/ /\ ~pin /\ b.down /\ ~k.down
                  /\ \/ r.trigger = "none" /\ k.clicks <= b.clicks
                     \/ r.trigger = "click" /\ b.clicks = 1 /\ k.clicks = 0
                     \/ r.trigger = "double" /\ b.clicks = 2 /\ k.clicks = 0
                  /\ ~b.double =>
                       r.trigger = IF b.clicks = 1 THEN "click" ELSE "none"
<1> DEFINE e == IF b.timer < LongPress THEN Expire(b) ELSE Read(b, "none")
           x == [e.button EXCEPT !.bounce = @ + 1]
<1>1. /\ Counting(e.button) /\ e.button.down = b.down
      /\ e.button.double = b.double
      /\ e.trigger \in {"none", "click", "long"}
      /\ e.trigger # "none" => b.clicks = 1 /\ e.button.clicks = 0
      /\ e.trigger = "click" => ~b.down
      /\ e.trigger = "long" => b.down
      /\ e.trigger = "none" =>
           \/ e.button.clicks = b.clicks
           \/ e.button.clicks = 0 /\ b.clicks = 2 /\ b.down
  <2>1. CASE b.timer < LongPress
    BY <2>1, ExpireCounts
  <2>2. CASE ~(b.timer < LongPress)
    BY <2>2 DEF Read
  <2>. QED BY <2>1, <2>2
<1>2. ReadTrigger(b, pin) =
        IF e.trigger # "none" THEN e
        ELSE IF e.button.bounce < Debounce THEN Read(x, "none")
             ELSE IF pin = e.button.down THEN e
                  ELSE IF pin THEN Press(e.button) ELSE Release(e.button)
  BY DEF ReadTrigger
<1> HIDE DEF e
<1>3. ASSUME e.button.bounce < Debounce
      PROVE  Counting(x) /\ x.down = e.button.down
             /\ x.clicks = e.button.clicks /\ x.double = e.button.double
  <2> DEFINE n == e.button.bounce + 1
  <2>1. n \in 0..Debounce
    BY <1>1, <1>3, ButtonTimes DEF ButtonTimes, Counting, IsButton
  <2> HIDE DEF n
  <2>2. x = [e.button EXCEPT !.bounce = n] BY DEF n
  <2>. QED BY <1>1, <2>1, <2>2 DEF Counting, IsButton
<1> HIDE DEF x
<1>4. b.clicks \in 0..2 /\ b.down \in BOOLEAN
  BY DEF Counting, IsButton
<1>5. CASE e.trigger # "none"
  BY <1>1, <1>2, <1>5
<1>6. CASE e.trigger = "none" /\ e.button.bounce < Debounce
  BY <1>1, <1>2, <1>3, <1>6 DEF Read
<1>7. CASE e.trigger = "none" /\ ~(e.button.bounce < Debounce) /\ pin = e.button.down
  BY <1>1, <1>2, <1>7
<1>8. CASE /\ e.trigger = "none" /\ ~(e.button.bounce < Debounce)
           /\ pin # e.button.down /\ pin
  <2>1. ReadTrigger(b, pin) = Press(e.button) /\ ~b.down
    BY <1>1, <1>2, <1>4, <1>8
  <2>2. e.button.clicks = b.clicks BY <1>1, <1>8, <2>1
  <2>. QED BY <1>1, <1>8, <2>1, <2>2, PressCounts
<1>9. CASE /\ e.trigger = "none" /\ ~(e.button.bounce < Debounce)
           /\ pin # e.button.down /\ ~pin
  <2>1. ReadTrigger(b, pin) = Release(e.button) /\ b.down
    BY <1>1, <1>2, <1>4, <1>9
  <2>2. e.button.clicks <= b.clicks
        /\ (e.button.clicks # 0 => e.button.clicks = b.clicks)
        /\ (~b.double => e.button.clicks = b.clicks)
    BY <1>1, <1>4, <1>9 DEF Counting
  <2> DEFINE q == Release(e.button)
  <2>3. /\ Counting(q.button) /\ ~q.button.down
        /\ q.button.double = b.double
        /\ q.trigger \in {"none", "click", "double"}
        /\ q.trigger = "none" => q.button.clicks = e.button.clicks
        /\ q.trigger = "click" => e.button.clicks = 1 /\ q.button.clicks = 0
        /\ q.trigger = "double" => e.button.clicks = 2 /\ q.button.clicks = 0
        /\ ~b.double =>
             q.trigger = IF e.button.clicks = 1 THEN "click" ELSE "none"
    BY <1>1, <2>1, ReleaseCounts
  <2> HIDE DEF q
  <2>4. /\ q.trigger = "none" => q.button.clicks <= b.clicks
        /\ q.trigger = "click" => b.clicks = 1 /\ q.button.clicks = 0
        /\ q.trigger = "double" => b.clicks = 2 /\ q.button.clicks = 0
        /\ ~b.double => q.trigger = IF b.clicks = 1 THEN "click" ELSE "none"
    BY <2>2, <2>3
  <2>5. ReadTrigger(b, pin) = q /\ b.down BY <2>1 DEF q
  <2>. QED BY <1>9, <2>3, <2>4, <2>5
<1>. QED BY <1>5, <1>6, <1>7, <1>8, <1>9

LEMMA KeyInvInit == ControlsInit => KeyInv
<1>1. ASSUME NEW double \in BOOLEAN
      PROVE  Counting(NewButton(double)) /\ NewButton(double).clicks = 0
  <2>1. /\ Debounce \in 0..Debounce /\ LongPress \in 0..LongPress
    BY Limits
  <2>. QED BY <2>1 DEF NewButton, Counting, IsButton
<1> SUFFICES ASSUME ControlsInit PROVE KeyInv
  OBVIOUS
<1>2. PICK double \in BOOLEAN : key = NewButton(double)
  BY DEF ControlsInit
<1>3. Counting(key) /\ key.clicks = 0 BY <1>1, <1>2
<1>4. contact = FALSE /\ owed = 0 BY DEF ControlsInit
<1>5. owed \in 0..2 /\ owed >= key.clicks BY <1>3, <1>4
<1>6. contact \in BOOLEAN BY <1>4
<1>. QED BY <1>3, <1>5, <1>6 DEF KeyInv

LEMMA KeyInvStep == KeyInv /\ [ControlsNext]_controls => KeyInv'
<1> SUFFICES ASSUME KeyInv, [ControlsNext]_controls PROVE KeyInv'
  OBVIOUS
<1>1. CASE UpdateButton
  <2> DEFINE r == ReadTrigger(key, contact)
             seen == r.button.down /\ ~key.down
             open == IF seen /\ key.clicks = 0 THEN 0 ELSE owed
  <2>1. /\ key' = r.button
        /\ owed' = CASE r.trigger = "none" -> IF seen /\ open < 2 THEN open + 1
                                              ELSE open
                     [] r.trigger = "double" -> owed - 2
                     [] OTHER -> owed - 1
    BY <1>1 DEF UpdateButton
  <2>2. Counting(key) /\ contact \in BOOLEAN /\ contact' = contact
    BY <1>1 DEF KeyInv, UpdateButton
  <2> HIDE DEF r
  <2>3. Counting(key') BY <2>1, <2>2, ReadCounts DEF r
  <2>4. /\ key.clicks \in 0..2 /\ key'.clicks \in 0..2 /\ owed \in 0..2
        /\ owed >= key.clicks
    BY <2>3 DEF KeyInv, Counting, IsButton
  <2>5. \/ r.trigger \in {"click", "long"} /\ key.clicks = 1 /\ key'.clicks = 0
        \/ r.trigger = "double" /\ key.clicks = 2 /\ key'.clicks = 0
        \/ r.trigger = "none" /\ ~seen /\ key'.clicks <= key.clicks
        \/ r.trigger = "none" /\ seen /\ key'.clicks = key.clicks + 1
    BY <2>1, <2>2, <2>4, ReadCounts DEF r
  <2> HIDE DEF seen
  <2>6. owed' \in 0..2 /\ owed' >= key'.clicks
    BY <2>1, <2>4, <2>5
  <2>. QED BY <2>2, <2>3, <2>6 DEF KeyInv
<1>2. CASE Contact \/ Edge \/ LostEdge \/ UNCHANGED controls
  <2>1. UNCHANGED <<key, owed>> /\ contact' \in BOOLEAN
    BY <1>2 DEF KeyInv, Contact, Edge, LostEdge, controls
  <2>. QED BY <2>1 DEF KeyInv
<1>. QED BY <1>1, <1>2 DEF ControlsNext

(* A press causes at most one event, for any debouncing and any timeouts:   *)
(* what the code counts of it is never more than what it is owed.           *)
THEOREM EventsAreOwed == ControlsSpec => []OneEventPerPress
<1>1. KeyInv => OneEventPerPress
  BY DEF KeyInv, OneEventPerPress
<1>. QED BY KeyInvInit, KeyInvStep, <1>1, PTL DEF ControlsSpec

LEMMA StageOfRead ==
  ASSUME NEW b, Counting(b), ~b.double, NEW pin \in BOOLEAN
  PROVE  LET r == ReadTrigger(b, pin)
         IN Step(Stage(r.button), r.trigger) \in KeySteps(Stage(b), pin)
<1> DEFINE r == ReadTrigger(b, pin)
           k == r.button
<1>1. /\ b.clicks \in {0, 1} /\ k.clicks \in {0, 1} /\ ~k.double
      /\ ~b.down => b.clicks = 0
      /\ ~k.down => k.clicks = 0
  BY ReadCounts DEF Counting, IsButton
<1>2. \/ r.trigger = "long" /\ b.down /\ k.down /\ b.clicks = 1 /\ k.clicks = 0
      \/ r.trigger = "none" /\ k.down = b.down /\ k.clicks = b.clicks
      \/ r.trigger = "none" /\ pin /\ ~b.down /\ k.down /\ k.clicks = 1
      \/ r.trigger = "none" /\ ~pin /\ b.down /\ ~k.down /\ b.clicks = 0
      \/ r.trigger = "click" /\ ~pin /\ b.down /\ ~k.down /\ b.clicks = 1
  BY <1>1, ReadCounts
<1> HIDE DEF r, k
<1>3. Step(Stage(k), r.trigger) \in KeySteps(Stage(b), pin)
  BY <1>1, <1>2 DEF Stage, KeySteps, Step
<1>. QED BY <1>3 DEF r, k

(* Panel takes of a button no more than its Stage, and may: whatever the    *)
(* timeouts are, each read of the button is a step of that.                 *)
THEOREM StageIsEnough == ControlsSpec => PanelSeesTheKey
<1>1. KeyInv /\ [ControlsNext]_controls =>
        [key' # key /\ ~key.double =>
           Step(Stage(key'), ReadTrigger(key, contact).trigger)
             \in KeySteps(Stage(key), contact)]_controls
  <2> SUFFICES ASSUME KeyInv, ControlsNext, key' # key, ~key.double
               PROVE  Step(Stage(key'), ReadTrigger(key, contact).trigger)
                        \in KeySteps(Stage(key), contact)
    OBVIOUS
  <2>1. key' = ReadTrigger(key, contact).button
    BY DEF ControlsNext, Contact, UpdateButton, Edge, LostEdge
  <2>. QED BY <2>1, StageOfRead DEF KeyInv
<1>. QED BY KeyInvInit, KeyInvStep, <1>1, PTL DEF ControlsSpec, PanelSeesTheKey

----------------------------------------------------------------------------
(* The dial, for any sequence of edges, one of them lost between any two    *)
(* rest positions.                                                          *)

LEMMA CodesHavePlaces == \A i \in 1..4 : PlaceOf(Wiring[i]) = i
<1> TAKE i \in 1..4
<1>1. \A j \in 1..4 : Wiring[j] = Wiring[i] => j = i
  BY DEF Wiring
<1>. QED BY <1>1 DEF PlaceOf

(* What the decoder makes of the dial when it moves by d from where it was  *)
(* last seen: two places are no step.                                       *)
LEMMA Steps ==
  ASSUME NEW n \in Int, NEW d \in -2..2
  PROVE  Delta(CodeAt(n), CodeAt(n + d)) = IF d \in -1..1 THEN d ELSE 0
<1>1. (n % 4) + 1 \in 1..4 /\ ((n + d) % 4) + 1 \in 1..4
  OBVIOUS
<1>2. /\ PlaceOf(CodeAt(n)) = (n % 4) + 1
      /\ PlaceOf(CodeAt(n + d)) = ((n + d) % 4) + 1
  BY <1>1, CodesHavePlaces DEF CodeAt
<1>3. ((((n + d) % 4) + 1) - ((n % 4) + 1)) % 4 =
        IF d >= 0 THEN d ELSE 4 + d
  OBVIOUS
<1>. QED BY <1>2, <1>3 DEF Delta

(* The pins tell a rest position.                                           *)
LEMMA RestCode ==
  ASSUME NEW n \in Int PROVE CodeAt(n) = 3 <=> n % 4 = 0
<1>1. n % 4 \in 0..3 OBVIOUS
<1>. QED BY <1>1 DEF CodeAt, Wiring

(* What the decoder knows: with no edge lost, where the dial is; right      *)
(* after one, where it was before; later it may be two steps off, and knows *)
(* the pins again. Past the next rest, which it missed, it is two behind.   *)
Follows ==
  \/ /\ missed = 0 /\ place \in -3..3
     /\ dial = [code |-> CodeAt(place), acc |-> place]
  \/ \E q \in -3..3 : /\ missed = 1 /\ place \in {q - 1, q + 1}
                      /\ dial = [code |-> CodeAt(q), acc |-> q]
  \/ \E k \in {-2, 0, 2} : /\ missed = 1 /\ place \in -7..7
                           /\ place \notin {-4, 0, 4}
                           /\ place > 4 => k = 2
                           /\ place < -4 => k = -2
                           /\ dial = [code |-> CodeAt(place), acc |-> place - k]

LEMMA FollowsInit == ControlsInit => Follows
<1>1. CodeAt(0) = 3 BY RestCode
<1>. QED BY <1>1 DEF ControlsInit, Follows, NewEncoder

LEMMA EdgeFollows ==
  ASSUME Follows, Edge
  PROVE  Follows' /\ (report' = report \/ NoFalseDetent')
<1>1. PICK d \in {-1, 1} :
        LET r == Sample(dial, CodeAt(place + d)) IN
        /\ dial' = r.encoder
        /\ IF (place + d) % 4 = 0
           THEN /\ report' = [event |-> r.event, turned |-> place + d,
                              missed |-> missed]
                /\ place' = 0 /\ missed' = 0
           ELSE place' = place + d /\ UNCHANGED <<missed, report>>
  BY DEF Edge
<1>2. PICK q \in -7..7, a \in Int :
        /\ dial = [code |-> CodeAt(q), acc |-> a]
        /\ place \in -7..7
        /\ \/ missed = 0 /\ q = place /\ a = q /\ q \in -3..3
           \/ missed = 1 /\ place \in {q - 1, q + 1} /\ a = q /\ q \in -3..3
           \/ /\ missed = 1 /\ place = q /\ q \notin {-4, 0, 4}
              /\ a \in {q - 2, q, q + 2}
              /\ (q > 4 => a = q - 2) /\ (q < -4 => a = q + 2)
  BY DEF Follows
<1> DEFINE to == place + d
           b == a + (IF to - q \in -1..1 THEN to - q ELSE 0)
<1>3. to - q \in -2..2 /\ q + (to - q) = to /\ to \in Int
  BY <1>2
<1>4. Delta(CodeAt(q), CodeAt(to)) = IF to - q \in -1..1 THEN to - q ELSE 0
  BY <1>3, Steps
<1>5. dial.acc + Delta(dial.code, CodeAt(to)) = b
  BY <1>2, <1>4
<1>6. CASE to % 4 = 0
  <2>1. CodeAt(to) = 3 BY <1>3, <1>6, RestCode
  <2>2. dial' = NewEncoder(3) /\ place' = 0 /\ missed' = 0
    BY <1>1, <1>6, <2>1 DEF Sample
  <2>3. report' = [event |-> IF b >= 3 THEN "cw"
                             ELSE IF b <= -3 THEN "ccw" ELSE "none",
                   turned |-> to, missed |-> missed]
    BY <1>1, <1>5, <1>6, <2>1 DEF Sample
  <2>4. CodeAt(0) = 3 BY RestCode
  <2>5. Follows' BY <2>2, <2>4 DEF Follows, NewEncoder
  <2>6. /\ b >= 3 => to >= 4
        /\ b <= -3 => to <= -4
        /\ missed = 0 /\ to \in {-4, 4} => b = to
    BY <1>2, <1>6
  <2>7. NoFalseDetent' BY <2>3, <2>6 DEF NoFalseDetent
  <2>. QED BY <2>5, <2>7
<1>7. CASE to % 4 # 0
  <2>1. CodeAt(to) # 3 BY <1>3, <1>7, RestCode
  <2>2. dial' = [code |-> CodeAt(to), acc |-> b] /\ place' = to
        /\ missed' = missed /\ report' = report
    BY <1>1, <1>5, <1>7, <2>1 DEF Sample
  <2>3. /\ missed = 0 => to \in -3..3 /\ b = to
        /\ missed = 1 => /\ to \in -7..7 /\ to \notin {-4, 0, 4}
                         /\ \E k \in {-2, 0, 2} :
                              /\ b = to - k
                              /\ to > 4 => k = 2
                              /\ to < -4 => k = -2
    BY <1>2, <1>7
  <2>. QED BY <1>2, <2>2, <2>3 DEF Follows
<1>. QED BY <1>6, <1>7, <1>3

LEMMA LostEdgeFollows ==
  ASSUME Follows, LostEdge PROVE Follows' /\ report' = report
<1>1. missed = 0 /\ missed' = 1 /\ dial' = dial /\ report' = report
      /\ place' \in {place - 1, place + 1}
  BY DEF LostEdge, Follows
<1>2. place \in -3..3 /\ dial = [code |-> CodeAt(place), acc |-> place]
  BY <1>1 DEF Follows
<1>. QED BY <1>1, <1>2 DEF Follows

(* The dial reports a step only for a whole detent in that direction, and   *)
(* every detent of which it saw every edge (CRobustEncoder's table and the  *)
(* threshold at the rest position).                                         *)
THEOREM NoDetentInvented == ControlsSpec => []NoFalseDetent
<1> DEFINE Inv == Follows /\ NoFalseDetent
<1>1. ControlsInit => Inv
  BY FollowsInit DEF ControlsInit, NoFalseDetent
<1>2. Inv /\ [ControlsNext]_controls => Inv'
  <2> SUFFICES ASSUME Inv, [ControlsNext]_controls PROVE Inv'
    OBVIOUS
  <2>1. CASE Edge
    BY <2>1, EdgeFollows DEF NoFalseDetent
  <2>2. CASE LostEdge
    BY <2>2, LostEdgeFollows DEF NoFalseDetent
  <2>3. CASE Contact \/ UpdateButton \/ UNCHANGED controls
    <3>1. UNCHANGED <<dial, place, missed, report>>
      BY <2>3 DEF Contact, UpdateButton, controls
    <3>. QED BY <3>1 DEF Follows, NoFalseDetent
  <2>. QED BY <2>1, <2>2, <2>3 DEF ControlsNext
<1>. QED BY <1>1, <1>2, PTL DEF ControlsSpec

(* The button, the dial and the ghosts keep their types: the accumulator of *)
(* the decoder never holds more than one turn from rest to rest.            *)
Reported ==
  report \in [event : {"none", "cw", "ccw"}, turned : -8..8, missed : 0..1]

LEMMA ReportedStep ==
  ASSUME Follows, Reported, [ControlsNext]_controls PROVE Reported'
<1>1. CASE Edge
  <2>1. PICK d \in {-1, 1} :
          LET r == Sample(dial, CodeAt(place + d))
          IN \/ report' = [event |-> r.event, turned |-> place + d,
                           missed |-> missed]
             \/ report' = report
    BY <1>1 DEF Edge
  <2>2. \A e, c : Sample(e, c).event \in {"none", "cw", "ccw"}
    BY DEF Sample
  <2>3. place \in -7..7 /\ missed \in 0..1
    BY DEF Follows
  <2>4. place + d \in -8..8
    BY <2>3
  <2> DEFINE e == Sample(dial, CodeAt(place + d)).event
  <2>5. e \in {"none", "cw", "ccw"} /\
        (report' = [event |-> e, turned |-> place + d, missed |-> missed]
           \/ report' = report)
    BY <2>1, <2>2
  <2> HIDE DEF e
  <2>. QED BY <2>3, <2>4, <2>5 DEF Reported
<1>2. CASE Contact \/ UpdateButton \/ LostEdge \/ UNCHANGED controls
  BY <1>2 DEF Reported, Contact, UpdateButton, LostEdge, controls
<1>. QED BY <1>1, <1>2 DEF ControlsNext

ControlsInv == KeyInv /\ Follows /\ Reported

LEMMA CodesInRange == \A n \in Int : CodeAt(n) \in Codes
<1> TAKE n \in Int
<1>1. n % 4 \in 0..3 OBVIOUS
<1>. QED BY <1>1 DEF CodeAt, Wiring, Codes

LEMMA ControlsInvTypeOK == ControlsInv => ControlsTypeOK
<1> SUFFICES ASSUME ControlsInv PROVE ControlsTypeOK
  OBVIOUS
<1>1. IsButton(key) /\ contact \in BOOLEAN /\ owed \in -1..2
  BY DEF ControlsInv, KeyInv, Counting
<1>2. \A n \in Int : CodeAt(n) \in Codes
  BY CodesInRange
<1>3. place \in -8..8 /\ missed \in 0..1
  BY DEF ControlsInv, Follows
<1>4. dial \in [code : Codes, acc : -8..8]
  <2>1. ASSUME NEW n \in Int, NEW a \in -8..8,
               dial = [code |-> CodeAt(n), acc |-> a]
        PROVE  dial \in [code : Codes, acc : -8..8]
    <3>1. CodeAt(n) \in Codes
      BY <1>2
    <3>. QED BY <2>1, <3>1
  <2>2. CASE /\ place \in -3..3
             /\ dial = [code |-> CodeAt(place), acc |-> place]
    <3>1. place \in Int /\ place \in -8..8
      BY <2>2
    <3>. QED BY <2>1, <2>2, <3>1
  <2>3. ASSUME NEW q \in -3..3, dial = [code |-> CodeAt(q), acc |-> q]
        PROVE  dial \in [code : Codes, acc : -8..8]
    <3>1. q \in Int /\ q \in -8..8
      OBVIOUS
    <3>. QED BY <2>1, <2>3, <3>1
  <2>4. ASSUME NEW k \in {-2, 0, 2}, place \in -7..7,
               place > 4 => k = 2, place < -4 => k = -2,
               dial = [code |-> CodeAt(place), acc |-> place - k]
        PROVE  dial \in [code : Codes, acc : -8..8]
    <3>1. place \in Int /\ place - k \in -8..8
      BY <2>4
    <3>. QED BY <2>1, <2>4, <3>1
  <2>. QED BY <2>2, <2>3, <2>4 DEF ControlsInv, Follows
<1>. QED BY <1>1, <1>3, <1>4 DEF ControlsTypeOK, ControlsInv, Reported

LEMMA ControlsInvInit == ControlsInit => ControlsInv
<1>1. ControlsInit => Reported
  BY DEF ControlsInit, Reported
<1>. QED BY <1>1, KeyInvInit, FollowsInit DEF ControlsInv

LEMMA ControlsInvStep == ControlsInv /\ [ControlsNext]_controls => ControlsInv'
<1> SUFFICES ASSUME ControlsInv, [ControlsNext]_controls PROVE ControlsInv'
  OBVIOUS
<1>1. KeyInv' /\ Reported'
  BY KeyInvStep, ReportedStep DEF ControlsInv
<1>2. Follows'
  <2>1. CASE Edge
    BY <2>1, EdgeFollows DEF ControlsInv
  <2>2. CASE LostEdge
    BY <2>2, LostEdgeFollows DEF ControlsInv
  <2>3. CASE Contact \/ UpdateButton \/ UNCHANGED controls
    <3>1. UNCHANGED <<dial, place, missed>>
      BY <2>3 DEF Contact, UpdateButton, controls
    <3>. QED BY <3>1 DEF ControlsInv, Follows
  <2>. QED BY <2>1, <2>2, <2>3 DEF ControlsNext
<1>. QED BY <1>1, <1>2 DEF ControlsInv

----------------------------------------------------------------------------
(* The LCD, for any number of frames its text has to be stable and any      *)
(* number between two reports.                                              *)

Counters ==
  /\ stable \in 0..StableFrames /\ since \in 0..EmitFrames
  /\ quiet \in 0..Enough

(* While a page stays, both counters go up with the frames that saw it,     *)
(* until it is reported; it is reported in the frame where neither of them  *)
(* is in the way.                                                           *)
Progress ==
  quiet > 0 =>
    /\ cand = lcdPage
    /\ stable < StableFrames => stable >= quiet - 1
    /\ emitted # lcdPage =>
         /\ since < EmitFrames => since >= quiet
         /\ stable < StableFrames \/ since < EmitFrames

LcdInv == Counters /\ Progress

LEMMA EnoughIsEnough ==
  Enough \in Nat /\ Enough >= EmitFrames /\ Enough >= StableFrames + 1
  BY LcdConstants DEF LcdConstants, Enough

LEMMA LcdInvInit == LcdInit => LcdInv
  BY LcdConstants, EnoughIsEnough
     DEF LcdConstants, LcdInit, LcdInv, Counters, Progress

LEMMA LcdFrameStep == LcdInv /\ (LcdFrame \/ LcdSyxFrame) => LcdInv'
<1> SUFFICES ASSUME LcdInv, LcdFrame \/ LcdSyxFrame PROVE LcdInv'
  OBVIOUS
<1> DEFINE s == IF lcdPage = cand THEN UpTo(stable, StableFrames) ELSE 0
           n == UpTo(since, EmitFrames)
           emits == s >= StableFrames /\ n >= EmitFrames /\ lcdPage # emitted
<1>1. /\ cand' = lcdPage /\ stable' = s /\ lcdPage' = lcdPage
      /\ emitted' = IF emits THEN lcdPage ELSE emitted
      /\ since' = IF emits THEN 0 ELSE n
      /\ quiet' = UpTo(quiet, Enough)
  BY DEF LcdFrame, LcdSyxFrame, MaybeEmitLCDChangeSerialEvent
<1>2. /\ StableFrames \in Nat /\ EmitFrames \in Nat /\ Enough \in Nat
      /\ stable \in 0..StableFrames /\ since \in 0..EmitFrames
      /\ quiet \in 0..Enough /\ Enough >= StableFrames + 1
      /\ Enough >= EmitFrames
  BY LcdConstants, EnoughIsEnough DEF LcdConstants, LcdInv, Counters
<1>3. /\ s = IF lcdPage = cand
             THEN (IF stable < StableFrames THEN stable + 1 ELSE StableFrames)
             ELSE 0
      /\ n = IF since < EmitFrames THEN since + 1 ELSE EmitFrames
      /\ quiet' = IF quiet < Enough THEN quiet + 1 ELSE Enough
  BY <1>1, <1>2 DEF UpTo
<1> HIDE DEF s, n
<1>4. s \in 0..StableFrames /\ n \in 0..EmitFrames /\ quiet' \in 1..Enough
  BY <1>2, <1>3
<1>5. Counters'
  BY <1>1, <1>2, <1>4 DEF Counters, Enough
<1>6. stable' < StableFrames => stable' >= quiet' - 1
  BY <1>1, <1>2, <1>3, <1>4 DEF LcdInv, Progress
<1>7. ASSUME emitted' # lcdPage'
      PROVE  /\ since' < EmitFrames => since' >= quiet'
             /\ stable' < StableFrames \/ since' < EmitFrames
  <2>1. ~emits /\ emitted # lcdPage /\ since' = n
    BY <1>1, <1>7
  <2>2. stable' < StableFrames \/ since' < EmitFrames
    BY <1>1, <1>2, <1>4, <2>1
  <2>3. since' < EmitFrames => since' >= quiet'
    BY <1>2, <1>3, <2>1 DEF LcdInv, Progress
  <2>. QED BY <2>2, <2>3
<1>. QED BY <1>1, <1>5, <1>6, <1>7 DEF LcdInv, Progress

LEMMA LcdInvStep == LcdInv /\ [LcdNext]_lcd => LcdInv'
<1> SUFFICES ASSUME LcdInv, [LcdNext]_lcd PROVE LcdInv'
  OBVIOUS
<1> USE LcdConstants, EnoughIsEnough DEF LcdConstants, LcdInv, Counters, Progress
<1>1. CASE LcdChanges
  BY <1>1 DEF LcdChanges, Enough
<1>2. CASE SRMenu
  BY <1>2 DEF SRMenu, Enough
<1>3. CASE UNCHANGED lcd
  BY <1>3 DEF lcd, Enough
<1>. QED BY <1>1, <1>2, <1>3, LcdFrameStep DEF LcdNext

(* What the frames keep of the text, the play mode and the PATCH/PERF press *)
(* stays in its type with the counters.                                     *)
Watched ==
  /\ lcdPage \in Shown /\ srOpen \in BOOLEAN
  /\ current \in Modes \cup {Unknown} /\ base \in Modes \cup {Unknown}
  /\ inMenu \in BOOLEAN
  /\ press \in [state : 0..2, frames : 0..2]
  /\ cand \in Shown \cup {Unknown} /\ emitted \in Shown \cup {Unknown}

LEMMA WatchedInit == LcdInit => Watched
<1> SUFFICES ASSUME LcdInit PROVE Watched
  OBVIOUS
<1>1. press \in [state : 0..2, frames : 0..2]
  BY DEF LcdInit
<1>2. inMenu \in BOOLEAN /\ srOpen \in BOOLEAN
  BY DEF LcdInit
<1>. QED BY <1>1, <1>2 DEF LcdInit, Watched

LEMMA PressFrameType ==
  ASSUME press \in [state : 0..2, frames : 0..2]
  PROVE  PressFrame \in [state : 0..2, frames : 0..2]
<1>1. CASE press.frames > 1
  <2>1. press.frames - 1 \in 0..2
    BY <1>1
  <2>. QED BY <2>1 DEF PressFrame
<1>. QED BY <1>1 DEF PressFrame

LEMMA WatchedStep == Watched /\ [LcdNext]_lcd => Watched'
<1> SUFFICES ASSUME Watched, [LcdNext]_lcd PROVE Watched'
  OBVIOUS
<1>1. CASE LcdFrame
  <2>1. press' \in [state : 0..2, frames : 0..2]
    <3>1. [state |-> 1, frames |-> 2] \in [state : 0..2, frames : 0..2]
      OBVIOUS
    <3>2. press' \in {[state |-> 1, frames |-> 2], PressFrame}
      BY <1>1 DEF LcdFrame, PlayModeTrackingTick
    <3>. QED BY <3>1, <3>2, PressFrameType DEF Watched
  <2>2. /\ current' \in Modes \cup {Unknown} /\ base' \in Modes \cup {Unknown}
        /\ inMenu' \in BOOLEAN
    BY <1>1 DEF Watched, LcdFrame, PlayModeTrackingTick, DetectPlayModeFromLCD
  <2>3. UNCHANGED <<lcdPage, srOpen>> /\ cand' = lcdPage
        /\ emitted' \in {lcdPage, emitted}
    BY <1>1 DEF LcdFrame, MaybeEmitLCDChangeSerialEvent
  <2>. QED BY <2>1, <2>2, <2>3 DEF Watched
<1>2. CASE LcdSyxFrame
  <2>1. UNCHANGED <<lcdPage, srOpen, current, base, inMenu>> /\ cand' = lcdPage
        /\ emitted' \in {lcdPage, emitted} /\ press' = PressFrame
    BY <1>2 DEF LcdSyxFrame, MaybeEmitLCDChangeSerialEvent
  <2>. QED BY <2>1, PressFrameType DEF Watched
<1>3. CASE LcdChanges \/ SRMenu \/ UNCHANGED lcd
  BY <1>3 DEF Watched, LcdChanges, SRMenu, lcd
<1>. QED BY <1>1, <1>2, <1>3 DEF LcdNext

LEMMA LcdInvTypeOK == LcdInv /\ Watched => LcdTypeOK
  BY DEF LcdInv, Counters, Watched, LcdTypeOK

(* A page that stays is reported at the latest after the frames that both   *)
(* limits ask for, whatever the two limits are and however often pages      *)
(* changed before.                                                          *)
THEOREM ReadbackNeverLost == LcdSpec => []ReadbackCatchesUp
<1>1. LcdInv => ReadbackCatchesUp
  BY LcdConstants, EnoughIsEnough
     DEF LcdConstants, LcdInv, Counters, Progress, ReadbackCatchesUp
<1>. QED BY LcdInvInit, LcdInvStep, <1>1, PTL DEF LcdSpec

----------------------------------------------------------------------------
(* The clock and the firmware take turns in any order, and no flag is down  *)
(* while its interrupt is asked for.                                        *)
TimersInv == TimersTypeOK /\ TimerRequests

LEMMA TimersInvInit == TimersInit => TimersInv
  BY TimerConstants
     DEF TimersInit, TimersInv, TimersTypeOK, TimerRequests, Restored

LEMMA ClockStep == TimersInv /\ TIMER_Clock => TimersInv'
<1> SUFFICES ASSUME TimersInv, TIMER_Clock PROVE TimersInv'
  OBVIOUS
<1> USE TimerConstants DEF TimersInv, TimersTypeOK, TimerRequests
<1>1. ASSUME NEW t \in Frt
      PROVE  /\ frt'[t] \in [frc : 0..Counts - 1, ocra : Compare \cup {0},
                             ocfa : BOOLEAN, rd : BOOLEAN, ociea : BOOLEAN,
                             asks : BOOLEAN]
             /\ frt'[t].asks => frt'[t].ocfa
  <2>1. (frt[t].frc + 6) % Counts \in 0..Counts - 1 /\ 0 \in 0..Counts - 1
    OBVIOUS
  <2>2. frt'[t] =
          [frt[t] EXCEPT !.frc = IF Match(t) THEN 0 ELSE (@ + 6) % Counts,
                         !.ocfa = @ \/ Match(t),
                         !.asks = @ \/ (frt[t].ociea /\ Match(t))]
    BY DEF TIMER_Clock
  <2> DEFINE hit == Match(t)
  <2>3. hit \in BOOLEAN
    BY DEF Match
  <2> HIDE DEF hit
  <2>4. frt'[t] =
          [frt[t] EXCEPT !.frc = IF hit THEN 0 ELSE (@ + 6) % Counts,
                         !.ocfa = @ \/ hit,
                         !.asks = @ \/ (frt[t].ociea /\ hit)]
    BY <2>2 DEF hit
  <2>5. /\ (frt[t].ocfa \/ hit) \in BOOLEAN
        /\ (frt[t].asks \/ (frt[t].ociea /\ hit)) \in BOOLEAN
    OBVIOUS
  <2>6. /\ frt'[t].ocfa = (frt[t].ocfa \/ hit)
        /\ frt'[t].asks = (frt[t].asks \/ (frt[t].ociea /\ hit))
    BY <2>4
  <2>7. frt[t].asks => frt[t].ocfa
    OBVIOUS
  <2>8. frt'[t].asks => frt'[t].ocfa
    BY <2>6, <2>7
  <2>9. PICK n \in 0..Counts - 1, up, asks \in BOOLEAN :
          frt'[t] = [frt[t] EXCEPT !.frc = n, !.ocfa = up, !.asks = asks]
    <3> DEFINE up == frt[t].ocfa \/ hit
               asks == frt[t].asks \/ (frt[t].ociea /\ hit)
               n == IF hit THEN 0 ELSE (frt[t].frc + 6) % Counts
    <3>1. up \in BOOLEAN /\ asks \in BOOLEAN /\ n \in 0..Counts - 1
      BY <2>1, <2>5
    <3>2. frt'[t] = [frt[t] EXCEPT !.frc = n, !.ocfa = up, !.asks = asks]
      BY <2>4, Zenon
    <3> HIDE DEF up, asks, n
    <3>. QED BY <3>1, <3>2, Zenon
  <2>10. frt'[t] \in [frc : 0..Counts - 1, ocra : Compare \cup {0},
                      ocfa : BOOLEAN, rd : BOOLEAN, ociea : BOOLEAN,
                      asks : BOOLEAN]
    BY <2>9
  <2>. QED BY <2>8, <2>10
<1>2. DOMAIN frt' = Frt /\ frt' = [t \in Frt |-> frt'[t]]
  BY DEF TIMER_Clock
<1>3. frt' \in [Frt -> [frc : 0..Counts - 1, ocra : Compare \cup {0},
                        ocfa : BOOLEAN, rd : BOOLEAN, ociea : BOOLEAN,
                        asks : BOOLEAN]]
  BY <1>1, <1>2
<1>4. /\ tmr' \in [on : BOOLEAN, ie : BOOLEAN, cmfa : BOOLEAN, asks : BOOLEAN]
      /\ tmr'.asks => tmr'.cmfa
  BY DEF TIMER_Clock
<1>. QED BY <1>1, <1>3, <1>4 DEF TIMER_Clock

LEMMA RegistersStep == TimersInv /\ Registers => TimersInv'
<1> SUFFICES ASSUME TimersInv, Registers PROVE TimersInv'
  OBVIOUS
<1> USE TimerConstants DEF TimersInv, TimersTypeOK, TimerRequests
<1>1. ASSUME NEW t \in Frt, TIMER_Write(t), UNCHANGED <<tmr, adc, used>>
      PROVE  TimersInv'
  <2>1. ASSUME NEW on \in BOOLEAN, frt' = [frt EXCEPT ![t].ociea = on],
               temp' = temp
        PROVE  TimersInv'
    BY <1>1, <2>1
  <2>2. CASE /\ frt' = [frt EXCEPT ![t] = IF frt[t].rd THEN ClearOCFA(t) ELSE @]
             /\ temp' = temp
    <3> DEFINE f == IF frt[t].rd THEN ClearOCFA(t) ELSE frt[t]
    <3>1. /\ f \in [frc : 0..Counts - 1, ocra : Compare \cup {0},
                    ocfa : BOOLEAN, rd : BOOLEAN, ociea : BOOLEAN,
                    asks : BOOLEAN]
          /\ f.asks => f.ocfa
      BY DEF ClearOCFA
    <3>2. frt' = [frt EXCEPT ![t] = f] BY <2>2
    <3> HIDE DEF f
    <3>3. TimersTypeOK' BY <1>1, <2>2, <3>1, <3>2
    <3>4. TimerRequests' BY <1>1, <2>2, <3>1, <3>2
    <3>. QED BY <3>3, <3>4
  <2>3. CASE temp' \in Compare /\ frt' = frt
    BY <1>1, <2>3
  <2>4. CASE frt' = [frt EXCEPT ![t].ocra = temp] /\ temp' = temp
    BY <1>1, <2>4
  <2>. QED BY <1>1, <2>1, <2>2, <2>3, <2>4 DEF TIMER_Write
<1>2. ASSUME NEW t \in Frt, TIMER_Read(t), UNCHANGED <<tmr, adc, used>>
      PROVE  TimersInv'
  BY <1>2 DEF TIMER_Read
<1>3. CASE TIMER2_Write /\ UNCHANGED <<frt, temp, adc, used>>
  <2>1. /\ tmr' \in [on : BOOLEAN, ie : BOOLEAN, cmfa : BOOLEAN, asks : BOOLEAN]
        /\ tmr'.asks => tmr'.cmfa
    BY <1>3 DEF TIMER2_Write
  <2>. QED BY <1>3, <2>1
<1>4. CASE WriteADCSR /\ UNCHANGED <<frt, temp, tmr, used>>
  <2>1. PICK run, scan, ie, clear \in BOOLEAN :
          adc' = [adc EXCEPT !.runs = run, !.scan = scan, !.ie = ie,
                             !.adf = @ /\ ~clear,
                             !.asks = @ /\ ~clear /\ ie]
    BY <1>4 DEF WriteADCSR
  <2>2. /\ (adc.adf /\ ~clear) \in BOOLEAN
        /\ (adc.asks /\ ~clear /\ ie) \in BOOLEAN
    OBVIOUS
  <2>3. adc' = [runs |-> run, scan |-> scan, ie |-> ie,
                adf |-> adc.adf /\ ~clear, rd |-> adc.rd,
                asks |-> adc.asks /\ ~clear /\ ie]
    BY <2>1
  <2>4. adc.rd \in BOOLEAN
    OBVIOUS
  <2>5. adc' \in [runs : BOOLEAN, scan : BOOLEAN, ie : BOOLEAN, adf : BOOLEAN,
                  rd : BOOLEAN, asks : BOOLEAN]
    BY <2>2, <2>3, <2>4, Zenon
  <2>6. /\ adc'.asks = (adc.asks /\ ~clear /\ ie)
        /\ adc'.adf = (adc.adf /\ ~clear)
    BY <2>3
  <2>7. adc'.asks => adc'.adf
    BY <2>6
  <2>. QED BY <1>4, <2>5, <2>7
<1>5. CASE ReadADCSR /\ UNCHANGED <<frt, temp, tmr, used>>
  BY <1>5 DEF ReadADCSR
<1>. QED BY <1>1, <1>2, <1>3, <1>4, <1>5 DEF Registers

LEMMA TimersInvStep == TimersInv /\ [TimersNext]_timerVars => TimersInv'
<1> SUFFICES ASSUME TimersInv, [TimersNext]_timerVars PROVE TimersInv'
  OBVIOUS
<1>1. CASE MCU_UpdateAnalog
  BY <1>1 DEF MCU_UpdateAnalog, TimersInv, TimersTypeOK, TimerRequests
<1>2. CASE UNCHANGED timerVars
  BY <1>2 DEF timerVars, TimersInv, TimersTypeOK, TimerRequests
<1>. QED BY <1>1, <1>2, ClockStep, RegistersStep DEF TimersNext

(* A timer or the converter asks for its interrupt only while its flag is   *)
(* up: a handler that clears the flag is not entered again for one match.   *)
THEOREM TimersAskWithFlag == TimersSpec => []TimerRequests
<1>1. TimersInv => TimerRequests
  BY DEF TimersInv
<1>. QED BY TimersInvInit, TimersInvStep, <1>1, PTL DEF TimersSpec

----------------------------------------------------------------------------

(* As long as nothing has overlapped one thing is under way at most, and a  *)
(* call or a read that is about to end leaves the request as the trigger is. *)
OneAtATime ==
  /\ reading # "idle" => \A c \in Callers : IsAt(c, "idle")
  /\ \A c, d \in Callers : ~IsAt(c, "idle") /\ ~IsAt(d, "idle") => c = d

InStep ==
  /\ \A c \in Callers : IsAt(c, "ask") => (call[c].asks <=> ga.trigger # 0)
  /\ reading = "withdraw" => ga.trigger = 0
  /\ reading = "idle" /\ (\A c \in Callers : IsAt(c, "idle")) =>
       (ga.asks <=> ga.trigger # 0)

GateInv == GateTypeOK /\ (~mixed => OneAtATime /\ InStep)

LEMMA LinesNumbered == \A c \in Callers : LineOf[c] \in Lines /\ LineOf[c] # 0
  BY GateConstants DEF Lines

LEMMA GateInvInit == GateInit => GateInv
<1> SUFFICES ASSUME GateInit PROVE GateInv
  OBVIOUS
<1> USE DEF GateInit
<1>1. ga \in [level : [Lines -> 0..1], enable : SUBSET Lines,
             trigger : Lines \cup {0}, asks : BOOLEAN]
  OBVIOUS
<1>2. \A c \in Callers :
        call[c] = [pc |-> "idle", value |-> 0, asks |-> FALSE]
  OBVIOUS
<1>3. GateTypeOK
  <2>1. [pc |-> "idle", value |-> 0, asks |-> FALSE] \in
          [pc : {"idle", "trigger", "level", "request", "ask"},
           value : 0..1, asks : BOOLEAN]
    OBVIOUS
  <2>. QED BY <1>1, <2>1 DEF GateTypeOK
<1>4. OneAtATime
  BY <1>2 DEF OneAtATime, IsAt
<1>5. InStep
  BY <1>2 DEF InStep, IsAt
<1>. QED BY <1>3, <1>4, <1>5 DEF GateInv

LEMMA CallStep ==
  ASSUME GateInv, NEW c \in Callers, MCU_GA_SetGAInt(c)
  PROVE  GateInv'
<1> USE LinesNumbered DEF GateInv, GateTypeOK
<1>1. call[c] \in [pc : {"idle", "trigger", "level", "request", "ask"},
                   value : 0..1, asks : BOOLEAN]
  OBVIOUS
<1>2. CASE BeginCall(c)
  <2> DEFINE over == Overlap(c)
  <2>0. (mixed \/ over) \in BOOLEAN
    OBVIOUS
  <2>1. /\ call'[c].pc = "trigger" /\ GateTypeOK'
        /\ \A d \in Callers \ {c} : call'[d] = call[d]
        /\ UNCHANGED <<ga, reading>>
    <3> HIDE DEF over
    <3>1. mixed' = (mixed \/ over)
      BY <1>2 DEF BeginCall, over
    <3>2. mixed' \in BOOLEAN
      BY <2>0, <3>1
    <3>3. PICK v \in 0..1 :
            call' = [call EXCEPT ![c].pc = "trigger", ![c].value = v]
      BY <1>2 DEF BeginCall
    <3>4. call'[c] = [call[c] EXCEPT !.pc = "trigger", !.value = v]
          /\ call'[c].pc = "trigger"
          /\ \A d \in Callers \ {c} : call'[d] = call[d]
      BY <1>1, <3>3
    <3>5. call' \in [Callers ->
                      [pc : {"idle", "trigger", "level", "request", "ask"},
                       value : 0..1, asks : BOOLEAN]]
      BY <1>1, <3>3
    <3>6. UNCHANGED <<ga, reading>>
      BY <1>2 DEF BeginCall
    <3>. QED BY <3>2, <3>4, <3>5, <3>6
  <2>2. ASSUME ~mixed'
        PROVE  /\ ~mixed /\ reading = "idle"
               /\ \A d \in Callers \ {c} : call[d].pc = "idle"
    BY <1>2, <2>2 DEF BeginCall, Overlap
  <2>3. ASSUME ~mixed' PROVE OneAtATime' /\ InStep'
    BY <2>1, <2>2, <2>3 DEF OneAtATime, InStep, IsAt
  <2>. QED BY <2>1, <2>3
<1>3. CASE Trigger(c)
  <2>1. ga' \in [level : [Lines -> 0..1], enable : SUBSET Lines,
                 trigger : Lines \cup {0}, asks : BOOLEAN]
    BY <1>3 DEF Trigger
  <2>. QED BY <1>1, <1>3, <2>1 DEF Trigger, GoesTo, OneAtATime, InStep, IsAt
<1>4. CASE SetLevel(c)
  BY <1>1, <1>4 DEF SetLevel, GoesTo, OneAtATime, InStep, IsAt
<1>5. CASE Look(c)
  BY <1>1, <1>5 DEF Look, OneAtATime, InStep, IsAt
<1>6. CASE SetRequest(c)
  BY <1>1, <1>6 DEF SetRequest, GoesTo, OneAtATime, InStep, IsAt
<1>. QED BY <1>2, <1>3, <1>4, <1>5, <1>6 DEF MCU_GA_SetGAInt

LEMMA GateInvStep == GateInv /\ [GateNext]_gateVars => GateInv'
<1> SUFFICES ASSUME GateInv, [GateNext]_gateVars PROVE GateInv'
  OBVIOUS
<1> USE DEF GateInv, GateTypeOK, OneAtATime, InStep, IsAt
<1>1. CASE TakeTrigger
  BY <1>1 DEF TakeTrigger, ClearTrigger
<1>2. CASE WriteEnable
  BY <1>2 DEF WriteEnable
<1>3. CASE UNCHANGED gateVars
  BY <1>3 DEF gateVars
<1>. QED BY <1>1, <1>2, <1>3, CallStep DEF GateNext

(* While no two calls have overlapped, a trigger that is set has asked for  *)
(* IRQ0, and there is no request without one.                               *)
THEOREM TriggersAsk == GateSpec => []GateRequests
<1>1. GateInv => GateRequests
  BY DEF GateInv, InStep, IsAt, GateRequests
<1>. QED BY GateInvInit, GateInvStep, <1>1, PTL DEF GateSpec
----------------------------------------------------------------------------
(* MIDI input keeps the order of the bytes for a ring of any size, whatever *)
(* the receiver, the transmitter and resets do in between.                  *)

Slots == 0..Ring - 1

LEMMA RingArithmetic ==
  ASSUME NEW r \in Slots, NEW w \in Slots
  PROVE  /\ Next1(r) = IF r = Ring - 1 THEN 0 ELSE r + 1
         /\ (w - r) % Ring = IF r <= w THEN w - r ELSE w - r + Ring
         /\ \A k \in 1..Ring : (r + k - 1) % Ring =
              IF r + k - 1 < Ring THEN r + k - 1 ELSE r + k - 1 - Ring
<1> USE SciConstants DEF SciConstants, Slots
<1>1. \A a \in 0..Ring - 1 : a % Ring = a
  OBVIOUS
<1>2. \A a \in Ring..2 * Ring - 1 : a % Ring = a - Ring
  OBVIOUS
<1>3. \A a \in (1 - Ring)..(-1) : a % Ring = a + Ring
  OBVIOUS
<1>4. Next1(r) = IF r = Ring - 1 THEN 0 ELSE r + 1
  BY <1>1, <1>2 DEF Next1
<1>5. (w - r) % Ring = IF r <= w THEN w - r ELSE w - r + Ring
  BY <1>1, <1>3
<1>6. ASSUME NEW k \in 1..Ring
      PROVE  (r + k - 1) % Ring =
               IF r + k - 1 < Ring THEN r + k - 1 ELSE r + k - 1 - Ring
  BY <1>1, <1>2
<1>. QED BY <1>4, <1>5, <1>6

Filled == (ring.write - ring.read) % Ring
SlotOf(k) == (ring.read + k - 1) % Ring
Waits == "RDRF" \in sci.ssr /\ "RDRF" \notin firmware
Base == Len(got) + (IF Waits THEN 1 ELSE 0)
Late == \E c \in Producers : post[c].pc = "moved"

(* How the registers go together, whatever the producers do.                *)
SerialRegisters ==
  /\ "RDRF" \in firmware => "RDRF" \in sci.ssr
  /\ "RX" \in sci.asks => "RDRF" \in sci.ssr
  /\ "TX" \in sci.asks => "TIE" \in sci.scr /\ "TDRE" \in sci.ssr

(* One producer at a time, whose byte goes where the pointer is.            *)
Alone ==
  /\ \A c, d \in Producers : Busy(c) /\ Busy(d) => c = d
  /\ \A c \in Producers :
       /\ post[c].pc \in {"begun", "stored"} => post[c].at = ring.write
       /\ post[c].pc = "stored" => ring.data[post[c].at] = post[c].byte
       /\ post[c].pc = "moved" => /\ ring.write = Next1(post[c].at)
                                  /\ ring.write # ring.read

(* Nothing comes before the receiver's interrupt is enabled, and then every *)
(* byte asks for it.                                                        *)
Heard ==
  /\ "RIE" \notin sci.scr => /\ ~ring.ready /\ ring.write = ring.read
                             /\ "RDRF" \notin sci.ssr
                             /\ \A c \in Producers : ~Busy(c)
  /\ "RIE" \in sci.scr => ("RDRF" \in sci.ssr => "RX" \in sci.asks)

(* Byte by byte, what was sent is what was read, waits or is in the ring;   *)
(* only the last may be missing, if the pointer was seen to move first.     *)
InOrder ==
  /\ Len(sent) = Base + Filled
  /\ \A k \in 1..Len(got) : got[k] = sent[k]
  /\ Waits => sci.rdr = sent[Base]
  /\ \A k \in 1..Filled : ring.data[SlotOf(k)] = sent[Base + k] \/ (k = Filled /\ Late)
  /\ \A c \in Producers : post[c].pc = "moved" => post[c].byte = sent[Base + Filled]

Ordered == Alone /\ Heard /\ InOrder

SciInv == SciTypeOK /\ SerialRegisters /\ (~crossed => Ordered)

----------------------------------------------------------------------------
(* Types.                                                                   *)

LEMMA NextSlot == \A k \in Slots : Next1(k) \in Slots
<1> TAKE k \in Slots
<1>1. Next1(k) = IF k = Ring - 1 THEN 0 ELSE k + 1
  BY RingArithmetic
<1>. QED BY <1>1, SciConstants DEF Slots

LEMMA NotPostingType == NotPosting \in Posts
<1>1. 0 \in 0..Ring - 1 /\ 0 \in 0..MaxBytes
  BY SciConstants DEF SciConstants
<1>. QED BY <1>1 DEF NotPosting, Posts

LEMMA PostBeginType ==
  ASSUME SciTypeOK, NEW c \in Producers, BeginPost(c) PROVE SciTypeOK'
<1> USE SciConstants DEF SciConstants, SciTypeOK
<1>1. [pc |-> "begun", at |-> ring.write, byte |-> posted + 1] \in Posts
  BY DEF BeginPost, Posts, Buffers
<1>2. crossed' \in BOOLEAN
  BY DEF BeginPost
<1>. QED BY <1>1, <1>2 DEF BeginPost

LEMMA PostStoreType ==
  ASSUME SciTypeOK, NEW c \in Producers, StoreByte(c) PROVE SciTypeOK'
<1> USE SciConstants DEF SciConstants, SciTypeOK
<1>1. post[c] \in Posts
  OBVIOUS
<1>2. [post[c] EXCEPT !.pc = "stored"] \in Posts
  BY <1>1 DEF Posts
<1>3. post' \in [Producers -> Posts]
  BY <1>2, NotPostingType DEF StoreByte
<1>4. [ring.data EXCEPT ![post[c].at] = post[c].byte]
        \in [0..Ring - 1 -> 0..MaxBytes]
  BY <1>1 DEF Posts, Buffers
<1>5. ring' \in Buffers
  BY <1>4 DEF StoreByte, Buffers
<1>. QED BY <1>3, <1>5 DEF StoreByte

LEMMA PostMoveType ==
  ASSUME SciTypeOK, NEW c \in Producers, MovePointer(c) PROVE SciTypeOK'
<1> USE SciConstants DEF SciConstants, SciTypeOK
<1>1. post[c] \in Posts
  OBVIOUS
<1>2. [post[c] EXCEPT !.pc = "moved"] \in Posts
  BY <1>1 DEF Posts
<1>3. post' \in [Producers -> Posts]
  BY <1>2, NotPostingType DEF MovePointer
<1>4. PICK k \in {post[c].at, ring.write} :
        /\ ring' = [ring EXCEPT !.write = Next1(k)]
        /\ crossed' = (crossed \/ Next1(k) = ring.read)
  BY DEF MovePointer
<1>5. Next1(k) \in 0..Ring - 1
  BY <1>1, NextSlot DEF Posts, Buffers, Slots
<1>6. ring' \in Buffers
  BY <1>4, <1>5 DEF Buffers
<1>7. post[c].byte \in 0..MaxBytes
  BY <1>1 DEF Posts
<1>8. sent' \in Seq(0..MaxBytes)
  BY <1>7 DEF MovePointer
<1>9. crossed' \in BOOLEAN
  BY <1>4
<1>. QED BY <1>3, <1>6, <1>8, <1>9 DEF MovePointer

LEMMA SciTypeStep ==
  ASSUME SciTypeOK, [SciNext]_sciVars PROVE SciTypeOK'
<1> USE SciConstants DEF SciConstants, SciTypeOK
<1>1. CASE MCU_UpdateUART_RX
  <2>1. ring' \in Buffers
    BY <1>1, NextSlot DEF MCU_UpdateUART_RX, Slots, Buffers
  <2>2. crossed' \in BOOLEAN
    BY <1>1 DEF MCU_UpdateUART_RX
  <2>3. ring.data[ring.read] \in 0..MaxBytes
    BY DEF Buffers
  <2>4. sci' \in Interfaces
    BY <1>1, <2>3 DEF MCU_UpdateUART_RX, Interfaces
  <2>. QED BY <1>1, <2>1, <2>2, <2>4 DEF MCU_UpdateUART_RX
<1>2. CASE MCU_UpdateUART_TX
  BY <1>2 DEF MCU_UpdateUART_TX, Interfaces
<1>3. CASE SciFirmware
  <2>1. sci' \in Interfaces
    <3>1. \A v \in SUBSET {"TIE", "RIE", "TE", "RE"} :
            WriteSCR(sci, v) \in Interfaces
      BY DEF WriteSCR, Interfaces
    <3>2. \A f : ClearFlag(f) \in Interfaces
      BY DEF ClearFlag, WriteSSR, ReadSSR, Interfaces
    <3>3. sci.scr \in SUBSET {"TIE", "RIE", "TE", "RE"}
      BY DEF Interfaces
    <3>. QED BY <1>3, <3>1, <3>2, <3>3
             DEF SciFirmware, Enable, ReadRDR, WriteTDR, ClearBit, ToggleTIE
  <2>2. ring' \in Buffers
    BY <1>3 DEF SciFirmware, Enable, Buffers
  <2>3. got' \in Seq(0..MaxBytes)
    <3>1. sci.rdr \in 0..MaxBytes
      BY DEF Interfaces
    <3>2. got' = got \/ got' = Append(got, sci.rdr)
      BY <1>3 DEF SciFirmware, ReadRDR
    <3>3. Append(got, sci.rdr) \in Seq(0..MaxBytes)
      BY <3>1
    <3>. QED BY <3>2, <3>3
  <2>4. firmware' \subseteq {"RDRF", "TDRE"}
    BY <1>3 DEF SciFirmware, ReadRDR, WriteTDR, ClearBit
  <2>. QED BY <1>3, <2>1, <2>2, <2>3, <2>4 DEF SciFirmware
<1>4. CASE SC55_Reset
  <2>1. Empty \in Buffers /\ Quiet \in Interfaces
    BY DEF Empty, Buffers, Quiet, Interfaces
  <2>2. crossed' \in BOOLEAN
    BY <1>4 DEF SC55_Reset
  <2>3. resets' \in 0..MaxResets
    BY <1>4 DEF SC55_Reset
  <2>. QED BY <1>4, <2>1, <2>2, <2>3 DEF SC55_Reset
<1>5. CASE UNCHANGED sciVars
  BY <1>5 DEF sciVars
<1>. QED
  BY <1>1, <1>2, <1>3, <1>4, <1>5, PostBeginType, PostStoreType, PostMoveType DEF SciNext
----------------------------------------------------------------------------
(* The order of the bytes, step by step.                                    *)

LEMMA Positions ==
  ASSUME SciTypeOK
  PROVE  /\ ring.write \in Slots /\ ring.read \in Slots
         /\ Filled = IF ring.read <= ring.write THEN ring.write - ring.read
                   ELSE ring.write - ring.read + Ring
         /\ Filled \in 0..Ring - 1
         /\ \A k \in 1..Ring : SlotOf(k) =
              IF ring.read + k - 1 < Ring THEN ring.read + k - 1
              ELSE ring.read + k - 1 - Ring
<1>1. ring.write \in Slots /\ ring.read \in Slots
  BY DEF SciTypeOK, Buffers, Slots
<1>2. Filled = IF ring.read <= ring.write THEN ring.write - ring.read
             ELSE ring.write - ring.read + Ring
  BY <1>1, RingArithmetic DEF Filled
<1>3. \A k \in 1..Ring : SlotOf(k) =
        IF ring.read + k - 1 < Ring THEN ring.read + k - 1
        ELSE ring.read + k - 1 - Ring
  BY <1>1, RingArithmetic DEF SlotOf
<1>4. Filled \in 0..Ring - 1
  BY <1>1, <1>2, SciConstants DEF Slots, SciConstants
<1>. QED BY <1>1, <1>2, <1>3, <1>4

(* What the ring holds lies behind the write pointer, the last of it just   *)
(* before.                                                                  *)
LEMMA Distinct ==
  ASSUME SciTypeOK
  PROVE  /\ \A k \in 1..Filled : SlotOf(k) \in Slots /\ SlotOf(k) # ring.write
         /\ Filled # 0 => /\ Next1(SlotOf(Filled)) = ring.write
                        /\ \A k \in 1..Filled - 1 : SlotOf(k) # SlotOf(Filled)
         /\ SlotOf(Filled + 1) = ring.write
<1> DEFINE r == ring.read
           w == ring.write
<1>1. w \in 0..Ring - 1 /\ r \in 0..Ring - 1 /\ Ring \in Nat \ {0, 1}
      /\ Filled \in 0..Ring - 1
      /\ Filled = IF r <= w THEN w - r ELSE w - r + Ring
  BY Positions, SciConstants DEF Slots, SciConstants
<1>2. \A k \in 1..Ring :
        SlotOf(k) = IF r + k - 1 < Ring THEN r + k - 1 ELSE r + k - 1 - Ring
  BY Positions
<1>3. ASSUME NEW k \in 1..Filled
      PROVE  /\ SlotOf(k) \in Slots /\ SlotOf(k) # w
             /\ k # Filled => SlotOf(k) # SlotOf(Filled)
  <2>1. k \in 1..Ring /\ Filled \in 1..Ring
    BY <1>1
  <2>2. /\ SlotOf(k) = IF r + k - 1 < Ring THEN r + k - 1 ELSE r + k - 1 - Ring
        /\ SlotOf(Filled) = IF r + Filled - 1 < Ring THEN r + Filled - 1
                        ELSE r + Filled - 1 - Ring
    BY <1>2, <2>1
  <2> HIDE DEF r, w
  <2>. QED BY <1>1, <2>1, <2>2 DEF Slots
<1>4. SlotOf(Filled + 1) = w
  <2>1. SlotOf(Filled + 1) = IF r + Filled < Ring THEN r + Filled ELSE r + Filled - Ring
    BY <1>1, <1>2
  <2> HIDE DEF r, w
  <2>. QED BY <1>1, <2>1
<1>5. ASSUME Filled # 0 PROVE Next1(SlotOf(Filled)) = w
  <2>1. SlotOf(Filled) = IF r + Filled - 1 < Ring THEN r + Filled - 1
                     ELSE r + Filled - 1 - Ring
    BY <1>1, <1>2, <1>5
  <2>2. SlotOf(Filled) \in Slots
    BY <1>1, <1>3, <1>5
  <2>3. Next1(SlotOf(Filled)) = IF SlotOf(Filled) = Ring - 1 THEN 0 ELSE SlotOf(Filled) + 1
    BY <2>2, RingArithmetic
  <2> HIDE DEF r, w
  <2>. QED BY <1>1, <1>5, <2>1, <2>3
<1>. QED BY <1>1, <1>3, <1>4, <1>5

LEMMA NextInjective ==
  \A i, j \in Slots : Next1(i) = Next1(j) => i = j
<1> SUFFICES ASSUME NEW i \in Slots, NEW j \in Slots, Next1(i) = Next1(j)
             PROVE  i = j
  OBVIOUS
<1>1. /\ Next1(i) = IF i = Ring - 1 THEN 0 ELSE i + 1
      /\ Next1(j) = IF j = Ring - 1 THEN 0 ELSE j + 1
  BY RingArithmetic
<1>2. (IF i = Ring - 1 THEN 0 ELSE i + 1) = (IF j = Ring - 1 THEN 0 ELSE j + 1)
  BY <1>1
<1>3. i \in 0..Ring - 1 /\ j \in 0..Ring - 1 /\ Ring \in Nat
  BY SciConstants DEF Slots, SciConstants
<1>. QED BY <1>2, <1>3

LEMMA BeginOrdered ==
  ASSUME SciInv, NEW c \in Producers, BeginPost(c), ~crossed'
  PROVE  Ordered'
<1> USE DEF SciInv, SciTypeOK
<1>1. /\ ~crossed /\ ring.ready
      /\ UNCHANGED <<ring, sci, firmware, sent, got>>
      /\ \A d \in Producers : post[d].pc = "idle"
  BY DEF BeginPost, Busy
<1>2. \A d \in Producers : post'[d] =
        IF d = c THEN [pc |-> "begun", at |-> ring.write, byte |-> posted + 1]
        ELSE post[d]
  BY DEF BeginPost
<1>3. Ordered
  BY <1>1
<1>4. Alone'
  BY <1>1, <1>2 DEF Alone, Busy
<1>5. Heard'
  BY <1>1, <1>3 DEF Ordered, Heard
<1>6. Filled' = Filled /\ Base' = Base /\ Waits' = Waits /\ \A k : SlotOf(k)' = SlotOf(k)
  BY <1>1 DEF Filled, Base, Waits, SlotOf
<1>7. ~Late /\ ~Late'
  BY <1>1, <1>2 DEF Late
<1>8. InOrder'
  BY <1>1, <1>2, <1>3, <1>6, <1>7 DEF Ordered, InOrder
<1>. QED BY <1>4, <1>5, <1>8 DEF Ordered

LEMMA StoreOrdered ==
  ASSUME SciInv, NEW c \in Producers, StoreByte(c), ~crossed'
  PROVE  Ordered'
<1> USE DEF SciInv, SciTypeOK
<1>1. /\ ~crossed /\ Ordered
      /\ UNCHANGED <<sci, firmware, sent, got>>
      /\ post[c].pc \in {"begun", "moved"}
  BY DEF StoreByte
<1>2. /\ ring'.write = ring.write /\ ring'.read = ring.read
      /\ ring'.ready = ring.ready
      /\ ring'.data = [ring.data EXCEPT ![post[c].at] = post[c].byte]
  BY DEF StoreByte, Buffers
<1>3. \A d \in Producers \ {c} : post[d].pc = "idle" /\ post'[d] = post[d]
  BY <1>1 DEF StoreByte, Ordered, Alone, Busy
<1>4. post[c].at \in Slots /\ post[c].byte \in 0..MaxBytes
      /\ ring.data \in [Slots -> 0..MaxBytes]
  BY DEF Posts, Buffers, Slots
<1>5. Filled' = Filled /\ Base' = Base /\ Waits' = Waits /\ \A k : SlotOf(k)' = SlotOf(k)
  BY <1>1, <1>2 DEF Filled, Base, Waits, SlotOf
<1>6. Heard'
  <2>1. "RIE" \in sci.scr
    BY <1>1 DEF Ordered, Heard, Busy
  <2>. QED BY <1>1, <2>1 DEF Ordered, Heard
<1>7. ~Late'
  <2>1. post'[c].pc # "moved"
    BY <1>1 DEF StoreByte, NotPosting
  <2>. QED BY <1>3, <2>1 DEF Late
<1>8. CASE post[c].pc = "begun"
  <2>1. post'[c] = [post[c] EXCEPT !.pc = "stored"] /\ post[c].at = ring.write
    BY <1>1, <1>8 DEF StoreByte, Ordered, Alone
  <2>2. post'[c].pc = "stored" /\ post'[c].at = ring.write
        /\ post'[c].byte = post[c].byte
    BY <2>1 DEF Posts
  <2>3. Alone'
    <3>1. ring'.data[ring.write] = post[c].byte
      BY <1>2, <1>4, <2>1
    <3>. QED BY <1>2, <1>3, <2>2, <3>1 DEF Alone, Busy
  <2>4. \A k \in 1..Filled : ring'.data[SlotOf(k)] = ring.data[SlotOf(k)]
    BY <1>2, <1>4, <2>1, Distinct
  <2>5. ~Late
    BY <1>3, <1>8 DEF Late
  <2>6. InOrder'
    BY <1>1, <1>5, <1>7, <2>4, <2>5 DEF Ordered, InOrder, Late
  <2>. QED BY <1>6, <2>3, <2>6 DEF Ordered
<1>9. CASE post[c].pc = "moved"
  <2>1. post'[c] = NotPosting /\ ring.write = Next1(post[c].at)
        /\ ring.write # ring.read
    BY <1>1, <1>9 DEF StoreByte, Ordered, Alone
  <2>2. Alone'
    BY <1>3, <2>1 DEF Alone, Busy, NotPosting
  <2>3. /\ Filled \in 1..Ring - 1 /\ SlotOf(Filled) = post[c].at
        /\ \A k \in 1..Filled - 1 : SlotOf(k) \in Slots /\ SlotOf(k) # post[c].at
    <3>1. Filled \in 1..Ring - 1
      BY <2>1, Positions, SciConstants DEF Slots, SciConstants
    <3>2. SlotOf(Filled) = post[c].at
      BY <1>4, <2>1, <3>1, Distinct, NextInjective
    <3>. QED BY <3>1, <3>2, Distinct
  <2>4. post[c].byte = sent[Base + Filled]
    BY <1>1, <1>9 DEF Ordered, InOrder
  <2>5. \A k \in 1..Filled : ring'.data[SlotOf(k)] = sent[Base + k]
    <3> TAKE k \in 1..Filled
    <3>1. CASE k = Filled
      BY <1>2, <1>4, <2>3, <2>4, <3>1
    <3>2. CASE k # Filled
      <4>1. ring'.data[SlotOf(k)] = ring.data[SlotOf(k)]
        BY <1>2, <1>4, <2>3, <3>2
      <4>. QED BY <1>1, <3>2, <4>1 DEF Ordered, InOrder
    <3>. QED BY <3>1, <3>2
  <2>6. InOrder'
    BY <1>1, <1>5, <1>7, <2>5 DEF Ordered, InOrder, Late
  <2>. QED BY <1>6, <2>2, <2>6 DEF Ordered
<1>. QED BY <1>1, <1>8, <1>9

LEMMA MoveOrdered ==
  ASSUME SciInv, SciTypeOK', NEW c \in Producers, MovePointer(c), ~crossed'
  PROVE  Ordered'
<1> USE DEF SciInv, SciTypeOK
<1>1. /\ ~crossed /\ Ordered
      /\ UNCHANGED <<sci, firmware, got>>
      /\ post[c].pc \in {"begun", "stored"} /\ post[c].at = ring.write
      /\ sent' = Append(sent, post[c].byte)
  BY DEF MovePointer, Ordered, Alone
<1>2. /\ ring'.data = ring.data /\ ring'.read = ring.read
      /\ ring'.ready = ring.ready
      /\ ring'.write = Next1(ring.write) /\ ring'.write # ring.read
  BY <1>1 DEF MovePointer, Buffers
<1>3. \A d \in Producers \ {c} : post[d].pc = "idle" /\ post'[d] = post[d]
  BY <1>1 DEF MovePointer, Ordered, Alone, Busy
<1>4. ~Late
  BY <1>1, <1>3 DEF Late
<1>5. Waits' = Waits /\ Base' = Base /\ \A k : SlotOf(k)' = SlotOf(k)
  BY <1>1, <1>2 DEF Waits, Base, SlotOf
<1>6. Filled' = Filled + 1
  <2> DEFINE r == ring.read
             w == ring.write
             v == ring'.write
  <2>1. /\ Filled = IF r <= w THEN w - r ELSE w - r + Ring
        /\ r \in Slots /\ w \in Slots /\ v \in Slots
    BY Positions, <1>2, NextSlot
  <2>2. Filled' = IF r <= v THEN v - r ELSE v - r + Ring
    BY <1>2, <2>1, RingArithmetic DEF Filled
  <2>3. v = IF w = Ring - 1 THEN 0 ELSE w + 1
    BY <1>2, <2>1, RingArithmetic
  <2>4. v # r
    BY <1>2
  <2>5. /\ Ring \in Nat \ {0, 1} /\ r \in 0..Ring - 1 /\ w \in 0..Ring - 1
        /\ v \in 0..Ring - 1
    BY <2>1, SciConstants DEF Slots, SciConstants
  <2> HIDE DEF r, w, v
  <2>6. CASE w = Ring - 1
    BY <2>1, <2>2, <2>3, <2>4, <2>5, <2>6
  <2>7. CASE w # Ring - 1
    BY <2>1, <2>2, <2>3, <2>4, <2>5, <2>7
  <2>. QED BY <2>6, <2>7
<1>7. Heard'
  <2>1. "RIE" \in sci.scr
    BY <1>1 DEF Ordered, Heard, Busy
  <2>. QED BY <1>1, <2>1 DEF Ordered, Heard
<1>8. Alone'
  <2>1. \/ post[c].pc = "begun"
           /\ post'[c] = [post[c] EXCEPT !.pc = "moved"]
        \/ post'[c] = NotPosting
    BY <1>1 DEF MovePointer
  <2>2. CASE post'[c] = [post[c] EXCEPT !.pc = "moved"]
    <3>1. post'[c].pc = "moved" /\ post'[c].at = ring.write
      BY <1>1, <2>2 DEF Posts
    <3>2. \A d, e \in Producers : Busy(d)' /\ Busy(e)' => d = e
      BY <1>3 DEF Busy
    <3>3. ASSUME NEW d \in Producers
          PROVE  /\ post'[d].pc \notin {"begun", "stored"}
                 /\ post'[d].pc = "moved" =>
                      /\ ring'.write = Next1(post'[d].at)
                      /\ ring'.write # ring'.read
      BY <1>2, <1>3, <3>1
    <3>. QED BY <3>2, <3>3 DEF Alone
  <2>3. CASE post'[c] = NotPosting
    BY <1>3, <2>3 DEF Alone, Busy, NotPosting
  <2>. QED BY <2>1, <2>2, <2>3
<1>9. InOrder'
  <2>1. /\ Len(sent) = Base + Filled /\ Base \in Nat /\ Filled \in Nat
        /\ Len(got) \in Nat /\ Len(got) <= Base
        /\ Waits => Base = Len(got) + 1
    <3>1. Len(got) \in Nat /\ Filled \in 0..Ring - 1 /\ Ring \in Nat
      BY Positions, SciConstants DEF SciConstants
    <3>2. Base = IF Waits THEN Len(got) + 1 ELSE Len(got)
      BY <3>1 DEF Base
    <3>. QED BY <1>1, <3>1, <3>2 DEF Ordered, InOrder
  <2>2. /\ Len(sent') = Base + Filled + 1
        /\ \A k \in 1..Base + Filled : sent'[k] = sent[k]
        /\ sent'[Base + Filled + 1] = post[c].byte
    <3>1. post[c].byte \in 0..MaxBytes
      BY DEF Posts
    <3>. QED BY <1>1, <2>1, <3>1
  <2>3. \A k \in 1..Len(got) : got'[k] = sent'[k]
    BY <1>1, <2>1, <2>2 DEF Ordered, InOrder
  <2>4. Waits' => sci'.rdr = sent'[Base']
    BY <1>1, <1>5, <2>1, <2>2 DEF Ordered, InOrder
  <2>5. ASSUME NEW k \in 1..Filled + 1
        PROVE  ring'.data[SlotOf(k)] = sent'[Base + k] \/ (k = Filled + 1 /\ Late')
    <3>1. CASE k # Filled + 1
      <4>1. ring.data[SlotOf(k)] = sent[Base + k]
        BY <1>1, <1>4, <2>1, <3>1 DEF Ordered, InOrder
      <4>2. ring'.data[SlotOf(k)] = ring.data[SlotOf(k)]
        BY <1>2
      <4>3. sent'[Base + k] = sent[Base + k]
        <5>1. Base + k \in 1..Base + Filled
          BY <2>1, <3>1
        <5>. QED BY <2>2, <5>1
      <4>. QED BY <4>1, <4>2, <4>3
    <3>2. CASE k = Filled + 1 /\ post[c].pc = "begun"
      <4>1. post'[c].pc = "moved"
        BY <3>2 DEF MovePointer, Posts
      <4>. QED BY <3>2, <4>1 DEF Late
    <3>3. CASE k = Filled + 1 /\ post[c].pc = "stored"
      <4>1. SlotOf(Filled + 1) = ring.write
        BY Distinct
      <4>2. ring.data[ring.write] = post[c].byte
        BY <1>1, <3>3 DEF Ordered, Alone
      <4>3. SlotOf(k) = ring.write
        BY <3>3, <4>1
      <4>4. ring'.data[SlotOf(k)] = post[c].byte
        BY <1>2, <4>2, <4>3
      <4>5. sent'[Base + k] = post[c].byte
        <5>1. Base + k = Base + Filled + 1
          BY <2>1, <3>3
        <5>. QED BY <2>2, <5>1
      <4>. QED BY <4>4, <4>5
    <3>. QED BY <1>1, <3>1, <3>2, <3>3
  <2>6. \A d \in Producers : post'[d].pc = "moved" => post'[d].byte = post[c].byte
    <3>1. post'[c].pc = "moved" => post'[c].byte = post[c].byte
      BY <1>1 DEF MovePointer, Posts, NotPosting
    <3>. QED BY <1>3, <3>1
  <2>7. Len(sent') = Base' + Filled'
    BY <1>5, <1>6, <2>1, <2>2
  <2>8. \A k \in 1..Filled' :
          ring'.data[SlotOf(k)'] = sent'[Base' + k] \/ (k = Filled' /\ Late')
    BY <1>5, <1>6, <2>5
  <2>9. \A d \in Producers :
          post'[d].pc = "moved" => post'[d].byte = sent'[Base' + Filled']
    BY <1>5, <1>6, <2>1, <2>2, <2>6
  <2>. QED BY <1>1, <2>3, <2>4, <2>7, <2>8, <2>9 DEF InOrder
<1>. QED BY <1>7, <1>8, <1>9 DEF Ordered

LEMMA ReceiveOrdered ==
  ASSUME SciInv, SciTypeOK', MCU_UpdateUART_RX, ~crossed'
  PROVE  Ordered'
<1> USE DEF SciInv, SciTypeOK
<1>1. /\ ~crossed /\ Ordered /\ ~Late
      /\ UNCHANGED <<post, firmware, sent, got>>
      /\ "RDRF" \notin sci.ssr /\ ring.write # ring.read
  BY DEF MCU_UpdateUART_RX, Late
<1>2. /\ ring'.data = ring.data /\ ring'.write = ring.write
      /\ ring'.ready = ring.ready /\ ring'.read = Next1(ring.read)
  BY DEF MCU_UpdateUART_RX, Buffers
<1>3. /\ sci'.rdr = ring.data[ring.read] /\ sci'.scr = sci.scr
      /\ "RDRF" \in sci'.ssr
      /\ "RIE" \in sci.scr => "RX" \in sci'.asks
  BY DEF MCU_UpdateUART_RX, Interfaces
<1>4. "RIE" \in sci.scr
  BY <1>1 DEF Ordered, Heard
<1>5. Heard'
  BY <1>3, <1>4 DEF Heard
<1>6. Alone'
  BY <1>1, <1>2 DEF Ordered, Alone, Busy, Late
<1>7. ~Waits /\ Waits'
  BY <1>1, <1>3 DEF Waits, SerialRegisters
<1>8. Base = Len(got) /\ Base' = Len(got) + 1 /\ Base \in Nat
  BY <1>1, <1>7 DEF Base
<1>9. /\ Filled \in 1..Ring - 1 /\ Filled' = Filled - 1
      /\ SlotOf(1) = ring.read
      /\ \A k \in 1..Filled - 1 : SlotOf(k)' = SlotOf(k + 1)
  <2> DEFINE r == ring.read
             w == ring.write
             n == ring'.read
  <2>1. /\ Filled = IF r <= w THEN w - r ELSE w - r + Ring
        /\ r \in Slots /\ w \in Slots /\ n \in Slots
        /\ \A k \in 1..Ring : SlotOf(k) =
             IF r + k - 1 < Ring THEN r + k - 1 ELSE r + k - 1 - Ring
    BY Positions, <1>2, NextSlot
  <2>2. /\ Filled' = IF n <= w THEN w - n ELSE w - n + Ring
        /\ \A k \in 1..Ring : SlotOf(k)' =
             IF n + k - 1 < Ring THEN n + k - 1 ELSE n + k - 1 - Ring
    BY <1>2, <2>1, RingArithmetic DEF Filled, SlotOf
  <2>3. n = IF r = Ring - 1 THEN 0 ELSE r + 1
    BY <1>2, <2>1, RingArithmetic
  <2>4. w # r
    BY <1>1
  <2>5. /\ Ring \in Nat \ {0, 1} /\ r \in 0..Ring - 1 /\ w \in 0..Ring - 1
    BY <2>1, SciConstants DEF Slots, SciConstants
  <2> HIDE DEF r, w, n
  <2>6. Filled \in 1..Ring - 1
    BY <2>1, <2>4, <2>5
  <2>7. Filled' = Filled - 1
    <3>1. CASE r = Ring - 1
      BY <2>1, <2>2, <2>3, <2>4, <2>5, <3>1
    <3>2. CASE r # Ring - 1
      BY <2>1, <2>2, <2>3, <2>4, <2>5, <3>2
    <3>. QED BY <3>1, <3>2
  <2>8. SlotOf(1) = r
    BY <2>1, <2>5
  <2>9. ASSUME NEW k \in 1..Filled - 1 PROVE SlotOf(k)' = SlotOf(k + 1)
    <3>1. k \in 1..Ring /\ k + 1 \in 1..Ring
      BY <2>5, <2>6
    <3>2. SlotOf(k + 1) = IF r + k < Ring THEN r + k ELSE r + k - Ring
      BY <2>1, <2>5, <3>1
    <3>3. SlotOf(k)' = IF n + k - 1 < Ring THEN n + k - 1 ELSE n + k - 1 - Ring
      BY <2>2, <3>1
    <3>4. CASE r = Ring - 1
      BY <2>3, <2>5, <3>1, <3>2, <3>3, <3>4
    <3>5. CASE r # Ring - 1
      BY <2>3, <2>5, <3>1, <3>2, <3>3, <3>5
    <3>. QED BY <3>4, <3>5
  <2>. QED BY <2>6, <2>7, <2>8, <2>9 DEF r
<1>10. InOrder'
  <2>1. \A k \in 1..Filled : ring.data[SlotOf(k)] = sent[Base + k]
    BY <1>1 DEF Ordered, InOrder
  <2>2. Len(sent) = Base + Filled
    BY <1>1 DEF Ordered, InOrder
  <2>3. sci'.rdr = sent[Base']
    BY <1>3, <1>8, <1>9, <2>1
  <2>4. Len(sent') = Base' + Filled'
    BY <1>1, <1>8, <1>9, <2>2
  <2>5. \A k \in 1..Filled' : ring'.data[SlotOf(k)'] = sent'[Base' + k]
    <3> SUFFICES ASSUME NEW k \in 1..Filled' 
                 PROVE  ring'.data[SlotOf(k)'] = sent'[Base' + k]
      OBVIOUS
    <3>1. k \in 1..Filled - 1 /\ k + 1 \in 1..Filled
      BY <1>9
    <3>2. ring.data[SlotOf(k + 1)] = sent[Base + (k + 1)]
      BY <2>1, <3>1
    <3>3. Base' + k = Base + (k + 1)
      BY <1>8, <3>1
    <3>. QED BY <1>1, <1>2, <1>9, <3>1, <3>2, <3>3
  <2>6. \A k \in 1..Len(got) : got'[k] = sent'[k]
    BY <1>1 DEF Ordered, InOrder
  <2>7. \A c \in Producers : post'[c].pc # "moved"
    BY <1>1 DEF Late
  <2>. QED BY <1>1, <2>3, <2>4, <2>5, <2>6, <2>7 DEF InOrder
<1>. QED BY <1>5, <1>6, <1>10 DEF Ordered

LEMMA ResetOrdered ==
  ASSUME SciInv, SC55_Reset, ~crossed'
  PROVE  Ordered'
<1>1. /\ ring' = Empty /\ sci' = Quiet /\ firmware' = {} /\ post' = post
      /\ sent' = <<>> /\ got' = <<>> /\ \A c \in Producers : ~Busy(c)
  BY DEF SC55_Reset
<1>2. \A c \in Producers : post'[c].pc = "idle"
  BY <1>1 DEF Busy
<1>3. Alone' /\ Heard'
  BY <1>1, <1>2 DEF Alone, Heard, Busy, Empty, Quiet
<1>4. Filled' = 0 /\ ~Waits' /\ Base' = 0
  <2>1. (0 - 0) % Ring = 0
    BY RingArithmetic, SciConstants DEF Slots, SciConstants
  <2>2. Filled' = 0
    BY <1>1, <2>1 DEF Filled, Empty
  <2>3. ~Waits'
    BY <1>1 DEF Waits, Quiet
  <2>. QED BY <1>1, <2>2, <2>3 DEF Base
<1>5. InOrder'
  BY <1>1, <1>2, <1>4 DEF InOrder
<1>. QED BY <1>3, <1>5 DEF Ordered

(* What clearing one of the two flags does to both of them.                 *)
LEMMA ClearFacts ==
  ASSUME SciTypeOK, NEW f \in {"RDRF", "TDRE"}
  PROVE  /\ ClearFlag(f).scr = sci.scr /\ ClearFlag(f).rdr = sci.rdr
         /\ \A g \in {"RDRF", "TDRE"} :
              g \in ClearFlag(f).ssr <=> g \in sci.ssr /\ g # f
         /\ "RX" \in ClearFlag(f).asks <=>
              "RX" \in sci.asks /\ ~(f = "RDRF" /\ "RDRF" \in sci.ssr)
         /\ "TX" \in ClearFlag(f).asks <=>
              "TX" \in sci.asks /\ ~(f = "TDRE" /\ "TDRE" \in sci.ssr)
<1> USE DEF SciTypeOK
<1>1. ReadSSR(sci) = [sci EXCEPT !.rd = sci.ssr]
  BY DEF ReadSSR
<1>2. /\ ReadSSR(sci).rd = sci.ssr /\ ReadSSR(sci).ssr = sci.ssr
      /\ ReadSSR(sci).asks = sci.asks /\ ReadSSR(sci).scr = sci.scr
      /\ ReadSSR(sci).rdr = sci.rdr /\ ReadSSR(sci) \in Interfaces
  BY <1>1 DEF Interfaces
<1> DEFINE send == "TDRE" \in sci.ssr \ (sci.ssr \ {f})
           read == "RDRF" \in sci.ssr \ (sci.ssr \ {f})
<1>3. /\ ClearFlag(f).scr = sci.scr /\ ClearFlag(f).rdr = sci.rdr
      /\ ClearFlag(f).ssr = ((sci.ssr \ {f}) \ {"TEND"}) \cup
                            (IF send THEN {} ELSE sci.ssr \cap {"TEND"})
      /\ ClearFlag(f).asks = sci.asks \ ((IF send THEN {"TX"} ELSE {})
                                          \cup (IF read THEN {"RX"} ELSE {}))
  BY <1>2 DEF ClearFlag, WriteSSR, Interfaces
<1>. QED BY <1>3

(* What changing SCR does to the rest.                                      *)
LEMMA SCRFacts ==
  ASSUME SciTypeOK, NEW v \in SUBSET {"TIE", "RIE", "TE", "RE"}
  PROVE  /\ WriteSCR(sci, v).scr = v /\ WriteSCR(sci, v).rdr = sci.rdr
         /\ WriteSCR(sci, v).ssr = sci.ssr
         /\ "RX" \in WriteSCR(sci, v).asks <=> "RX" \in sci.asks
         /\ "TX" \in WriteSCR(sci, v).asks <=> "TX" \in sci.asks /\ "TIE" \in v
  BY DEF SciTypeOK, WriteSCR, Interfaces

(* The transmitter and the firmware leave the ring and the producers alone. *)
LEMMA SerialOrdered ==
  ASSUME SciInv, MCU_UpdateUART_TX \/ SciFirmware, ~crossed'
  PROVE  Ordered'
<1> USE DEF SciInv, SciTypeOK
<1>1. /\ ~crossed /\ Ordered /\ UNCHANGED <<post, sent>>
      /\ UNCHANGED <<ring.data, ring.write, ring.read>>
  BY DEF MCU_UpdateUART_TX, SciFirmware, Enable, Buffers
<1>2. Alone' /\ Filled' = Filled /\ Late' = Late /\ \A k : SlotOf(k)' = SlotOf(k)
  BY <1>1 DEF Ordered, Alone, Busy, Filled, Late, SlotOf
<1>3. ASSUME Waits' = Waits, sci'.rdr = sci.rdr, got' = got PROVE InOrder'
  <2>1. Base' = Base
    BY <1>3 DEF Base
  <2>. QED BY <1>1, <1>2, <1>3, <2>1 DEF Ordered, InOrder
<1>4. CASE MCU_UpdateUART_TX
  <2>1. /\ sci'.rdr = sci.rdr /\ sci'.scr = sci.scr /\ got' = got
        /\ firmware' = firmware /\ ring' = ring
        /\ "RDRF" \in sci'.ssr <=> "RDRF" \in sci.ssr
        /\ "RX" \in sci'.asks <=> "RX" \in sci.asks
    BY <1>4 DEF MCU_UpdateUART_TX, Interfaces
  <2>2. Heard' /\ Waits' = Waits
    BY <1>1, <2>1 DEF Ordered, Heard, Waits, Busy
  <2>. QED BY <1>2, <1>3, <2>1, <2>2 DEF Ordered
<1>5. CASE Enable /\ UNCHANGED <<got, firmware>>
  <2>1. PICK v \in SUBSET {"TIE", "RIE", "TE", "RE"} :
          /\ sci' = WriteSCR(sci, v) /\ "RIE" \notin sci.scr
          /\ "RIE" \notin v => ring' = ring
    <3>1. CASE sci.scr = {}
      BY <1>5, <3>1 DEF Enable
    <3>2. CASE sci.scr = {"TE", "RE"}
      BY <1>5, <3>2 DEF Enable
    <3>. QED BY <1>5, <3>1, <3>2 DEF Enable
  <2>2. /\ sci'.scr = v /\ sci'.rdr = sci.rdr /\ sci'.ssr = sci.ssr
    BY <2>1, SCRFacts
  <2>3. Heard'
    BY <1>1, <2>1, <2>2 DEF Ordered, Heard, Busy
  <2>4. Waits' = Waits
    BY <1>5, <2>2 DEF Waits
  <2>. QED BY <1>2, <1>3, <1>5, <2>2, <2>3, <2>4 DEF Ordered
<1>6. CASE ReadRDR /\ UNCHANGED <<ring, sci>>
  <2>1. /\ Waits /\ ~Waits'
        /\ got' = Append(got, sci.rdr) /\ ring' = ring /\ sci' = sci
    BY <1>6 DEF ReadRDR, Waits, SerialRegisters
  <2>2. Base = Len(got) + 1 /\ Base' = Base /\ Len(got') = Base
        /\ Base \in Nat
    BY <2>1 DEF Base
  <2>3. sci.rdr = sent[Base]
    BY <1>1, <2>1 DEF Ordered, InOrder
  <2>4. \A k \in 1..Len(got') : got'[k] = sent'[k]
    <3> SUFFICES ASSUME NEW k \in 1..Len(got') PROVE got'[k] = sent[k]
      BY <1>1
    <3>1. CASE k = Base
      BY <2>1, <2>2, <2>3, <3>1
    <3>2. CASE k # Base
      <4>1. k \in 1..Len(got)
        BY <2>2, <3>2
      <4>. QED BY <1>1, <2>1, <4>1 DEF Ordered, InOrder
    <3>. QED BY <3>1, <3>2
  <2>5. InOrder'
    BY <1>1, <1>2, <2>1, <2>2, <2>4 DEF Ordered, InOrder
  <2>6. Heard'
    BY <1>1, <2>1 DEF Ordered, Heard, Busy
  <2>. QED BY <1>2, <2>5, <2>6 DEF Ordered
<1>7. CASE WriteTDR /\ UNCHANGED <<ring, sci, got>>
  <2>1. Waits' = Waits
    BY <1>7 DEF Waits, WriteTDR
  <2>2. Heard'
    BY <1>1, <1>7 DEF Ordered, Heard, Busy
  <2>. QED BY <1>2, <1>3, <1>7, <2>1, <2>2 DEF Ordered
<1>8. ASSUME NEW f \in {"RDRF", "TDRE"}, ClearBit(f), UNCHANGED <<ring, got>>
      PROVE  Ordered'
  <2>1. /\ sci' = ClearFlag(f) /\ firmware' = firmware \ {f} /\ f \in firmware
    BY <1>8 DEF ClearBit
  <2>2. /\ sci'.scr = sci.scr /\ sci'.rdr = sci.rdr
        /\ "RDRF" \in sci'.ssr <=> "RDRF" \in sci.ssr /\ f # "RDRF"
        /\ f # "RDRF" => ("RX" \in sci'.asks <=> "RX" \in sci.asks)
    BY <2>1, ClearFacts
  <2>3. Heard'
    BY <1>1, <1>8, <2>2 DEF Ordered, Heard, Busy
  <2>4. Waits' = Waits
    BY <2>1, <2>2 DEF Waits
  <2>. QED BY <1>2, <1>3, <1>8, <2>2, <2>3, <2>4 DEF Ordered
<1>9. CASE ToggleTIE /\ UNCHANGED <<ring, got, firmware>>
  <2>1. PICK v \in SUBSET {"TIE", "RIE", "TE", "RE"} :
          sci' = WriteSCR(sci, v) /\ ("RIE" \in v <=> "RIE" \in sci.scr)
    BY <1>9 DEF ToggleTIE, Interfaces
  <2>2. /\ sci'.scr = v /\ sci'.rdr = sci.rdr /\ sci'.ssr = sci.ssr
        /\ "RX" \in sci'.asks <=> "RX" \in sci.asks
    BY <2>1, SCRFacts
  <2>3. Heard'
    BY <1>1, <1>9, <2>1, <2>2 DEF Ordered, Heard, Busy
  <2>4. Waits' = Waits
    BY <1>9, <2>2 DEF Waits
  <2>. QED BY <1>2, <1>3, <1>9, <2>2, <2>3, <2>4 DEF Ordered
<1>. QED BY <1>4, <1>5, <1>6, <1>7, <1>8, <1>9 DEF SciFirmware

(* The registers keep together whatever the producers do.                   *)
LEMMA SerialRegistersStep ==
  ASSUME SciTypeOK, SerialRegisters, [SciNext]_sciVars
  PROVE  SerialRegisters'
<1> USE DEF SciTypeOK
<1>1. CASE UNCHANGED <<sci, firmware>>
  BY <1>1 DEF SerialRegisters
<1>2. CASE MCU_UpdateUART_RX
  BY <1>2 DEF MCU_UpdateUART_RX, SerialRegisters, Interfaces
<1>3. CASE MCU_UpdateUART_TX
  BY <1>3 DEF MCU_UpdateUART_TX, SerialRegisters, Interfaces
<1>4. CASE SciFirmware
  <2>1. CASE Enable /\ UNCHANGED <<got, firmware>>
    <3>1. PICK v \in SUBSET {"TIE", "RIE", "TE", "RE"} : 
            sci' = WriteSCR(sci, v) /\ "TIE" \notin sci.scr
      <4>1. CASE sci.scr = {}
        BY <2>1, <4>1 DEF Enable
      <4>2. CASE sci.scr = {"TE", "RE"}
        BY <2>1, <4>2 DEF Enable
      <4>. QED BY <2>1, <4>1, <4>2 DEF Enable
    <3>. QED BY <2>1, <3>1, SCRFacts DEF SerialRegisters
  <2>2. CASE ReadRDR /\ UNCHANGED <<ring, sci>>
    BY <2>2 DEF ReadRDR, SerialRegisters
  <2>3. CASE WriteTDR /\ UNCHANGED <<ring, sci, got>>
    BY <2>3 DEF WriteTDR, SerialRegisters
  <2>4. ASSUME NEW f \in {"RDRF", "TDRE"}, ClearBit(f) PROVE SerialRegisters'
    <3>1. sci' = ClearFlag(f) /\ firmware' = firmware \ {f}
      BY <2>4 DEF ClearBit
    <3>. QED BY <3>1, ClearFacts DEF SerialRegisters
  <2>5. CASE ToggleTIE /\ UNCHANGED <<ring, got, firmware>>
    <3>1. PICK v \in SUBSET {"TIE", "RIE", "TE", "RE"} :
            sci' = WriteSCR(sci, v)
      BY <2>5 DEF ToggleTIE, Interfaces
    <3>. QED BY <2>5, <3>1, SCRFacts DEF SerialRegisters
  <2>. QED BY <1>4, <2>1, <2>2, <2>3, <2>4, <2>5 DEF SciFirmware
<1>5. CASE SC55_Reset
  BY <1>5 DEF SC55_Reset, SerialRegisters, Quiet
<1>. QED BY <1>1, <1>2, <1>3, <1>4, <1>5
         DEF SciNext, BeginPost, StoreByte, MovePointer, sciVars

----------------------------------------------------------------------------
(* The invariant.                                                           *)

LEMMA SciInvInit == SciInit => SciInv
<1> SUFFICES ASSUME SciInit PROVE SciInv
  OBVIOUS
<1> USE DEF SciInit
<1>1. SciTypeOK
  <2>1. 0 \in 0..Ring - 1 /\ 0 \in 0..MaxBytes /\ 0 \in 0..MaxResets
    BY SciConstants DEF SciConstants
  <2>2. Empty \in Buffers /\ Quiet \in Interfaces
    BY <2>1 DEF Empty, Buffers, Quiet, Interfaces
  <2>3. <<>> \in Seq(0..MaxBytes)
    OBVIOUS
  <2>4. post \in [Producers -> Posts]
    BY NotPostingType
  <2>. QED BY <2>1, <2>2, <2>3, <2>4 DEF SciTypeOK
<1>2. SerialRegisters
  BY DEF SerialRegisters, Quiet
<1>3. Alone /\ Heard
  BY DEF Alone, Heard, Busy, Empty, Quiet, NotPosting
<1>4. Filled = 0 /\ ~Waits /\ Base = 0
  <2>1. (0 - 0) % Ring = 0
    BY RingArithmetic, SciConstants DEF Slots, SciConstants
  <2>2. Filled = 0
    BY <2>1 DEF Filled, Empty
  <2>3. ~Waits
    BY DEF Waits, Quiet
  <2>. QED BY <2>2, <2>3 DEF Base
<1>5. InOrder
  BY <1>4 DEF InOrder, NotPosting
<1>. QED BY <1>1, <1>2, <1>3, <1>5 DEF SciInv, Ordered

LEMMA SciInvStep == SciInv /\ [SciNext]_sciVars => SciInv'
<1> SUFFICES ASSUME SciInv, [SciNext]_sciVars PROVE SciInv'
  OBVIOUS
<1>1. SciTypeOK'
  BY SciTypeStep DEF SciInv
<1>2. SerialRegisters'
  BY SerialRegistersStep DEF SciInv
<1>3. ASSUME ~crossed' PROVE Ordered'
  <2>1. CASE UNCHANGED sciVars
    <3>1. /\ ~crossed /\ ring' = ring /\ post' = post /\ sci' = sci
          /\ firmware' = firmware /\ sent' = sent /\ got' = got
      BY <1>3, <2>1 DEF sciVars
    <3>2. Alone' /\ Heard'
      BY <3>1 DEF SciInv, Ordered, Alone, Heard, Busy
    <3>3. Filled' = Filled /\ Base' = Base /\ Waits' = Waits /\ Late' = Late
          /\ \A k : SlotOf(k)' = SlotOf(k)
      BY <3>1 DEF Filled, Base, Waits, Late, SlotOf
    <3>4. InOrder'
      BY <3>1, <3>3 DEF SciInv, Ordered, InOrder
    <3>. QED BY <3>2, <3>4 DEF Ordered
  <2>. QED BY <1>1, <1>3, <2>1, BeginOrdered, StoreOrdered, MoveOrdered,
              ReceiveOrdered, ResetOrdered, SerialOrdered DEF SciNext
<1>. QED BY <1>1, <1>2, <1>3 DEF SciInv

(* Byte by byte is as a whole, once no pointer is ahead of its byte.        *)
LEMMA AsAWhole ==
  ASSUME SciTypeOK, InOrder, ~Late
  PROVE  got \o Unread \o InRing = sent
<1> USE DEF SciTypeOK
<1>1. /\ Len(got) \in Nat /\ Filled \in 0..Ring - 1 /\ Filled \in Nat
      /\ Base \in Nat /\ Len(sent) = Base + Filled
      /\ Base = IF Waits THEN Len(got) + 1 ELSE Len(got)
  <2>1. Filled \in 0..Ring - 1 /\ Ring \in Nat
    BY Positions, SciConstants DEF SciConstants
  <2>. QED BY <2>1 DEF Base, InOrder
<1>2. Unread = IF Waits THEN <<sci.rdr>> ELSE <<>>
  BY DEF Unread, Waits
<1>3. InRing = [k \in 1..Filled |-> ring.data[SlotOf(k)]]
  BY DEF InRing, Filled, SlotOf
<1>4. InRing \in Seq(0..MaxBytes) /\ Len(InRing) = Filled
      /\ \A k \in 1..Filled : InRing[k] = sent[Base + k]
  <2>1. \A k \in 1..Filled : ring.data[SlotOf(k)] \in 0..MaxBytes
    BY Distinct DEF Buffers, Slots
  <2>2. InRing \in Seq(0..MaxBytes) /\ Len(InRing) = Filled
    BY <1>1, <1>3, <2>1
  <2>. QED BY <1>3, <2>2 DEF InOrder
<1>5. got \o Unread \in Seq(0..MaxBytes) /\ Len(got \o Unread) = Base
      /\ \A k \in 1..Base : (got \o Unread)[k] = sent[k]
  <2>1. sci.rdr \in 0..MaxBytes
    BY DEF Interfaces
  <2>2. CASE Waits
    <3>1. Unread \in Seq(0..MaxBytes) /\ Len(Unread) = 1 /\ Unread[1] = sci.rdr
      BY <1>2, <2>1, <2>2
    <3>2. sci.rdr = sent[Base]
      BY <2>2 DEF InOrder
    <3>3. /\ got \o Unread \in Seq(0..MaxBytes)
          /\ Len(got \o Unread) = Len(got) + 1
          /\ \A k \in 1..Len(got) + 1 : (got \o Unread)[k] =
               IF k <= Len(got) THEN got[k] ELSE Unread[k - Len(got)]
      <4>1. /\ got \o Unread \in Seq(0..MaxBytes)
            /\ Len(got \o Unread) = Len(got) + Len(Unread)
            /\ \A k \in 1..Len(got) + Len(Unread) : (got \o Unread)[k] =
                 IF k <= Len(got) THEN got[k] ELSE Unread[k - Len(got)]
        BY <3>1, ConcatProperties, Zenon
      <4>. QED BY <3>1, <4>1, Zenon
    <3>4. ASSUME NEW k \in 1..Base PROVE (got \o Unread)[k] = sent[k]
      <4>1. CASE k = Base
        BY <1>1, <2>2, <3>1, <3>2, <3>3, <4>1
      <4>2. CASE k # Base
        BY <1>1, <2>2, <3>3, <4>2 DEF InOrder
      <4>. QED BY <4>1, <4>2
    <3>. QED BY <1>1, <2>2, <3>3, <3>4
  <2>3. CASE ~Waits
    <3>1. got \o Unread = got
      BY <1>2, <2>3, ConcatEmptySeq
    <3>. QED BY <1>1, <2>3, <3>1 DEF InOrder
  <2>. QED BY <2>2, <2>3
<1> DEFINE front == got \o Unread
<1>6. /\ front \o InRing \in Seq(0..MaxBytes)
      /\ Len(front \o InRing) = Len(sent)
      /\ \A k \in 1..Len(sent) : (front \o InRing)[k] =
           IF k <= Base THEN front[k] ELSE InRing[k - Base]
  <2>1. front \in Seq(0..MaxBytes) /\ InRing \in Seq(0..MaxBytes)
    BY <1>4, <1>5
  <2> HIDE DEF front
  <2>2. /\ front \o InRing \in Seq(0..MaxBytes)
        /\ Len(front \o InRing) = Len(front) + Len(InRing)
        /\ \A k \in 1..Len(front) + Len(InRing) : (front \o InRing)[k] =
             IF k <= Len(front) THEN front[k] ELSE InRing[k - Len(front)]
    BY <2>1, ConcatProperties, Zenon
  <2>3. Len(front) = Base
    BY <1>5 DEF front
  <2>4. Len(InRing) = Filled /\ Len(sent) = Base + Filled
    BY <1>1, <1>4
  <2>5. Len(front) + Len(InRing) = Len(sent)
    BY <2>3, <2>4
  <2>6. ASSUME NEW k \in 1..Len(sent)
        PROVE  (front \o InRing)[k] =
                 IF k <= Base THEN front[k] ELSE InRing[k - Base]
    <3>1. k \in 1..Len(front) + Len(InRing)
      BY <2>5
    <3>2. (front \o InRing)[k] =
            IF k <= Len(front) THEN front[k] ELSE InRing[k - Len(front)]
      BY <2>2, <3>1, Zenon
    <3>. QED BY <2>3, <3>2, Zenon
  <2>7. Len(front \o InRing) = Len(sent)
    BY <2>2, <2>5, Zenon
  <2>. QED BY <2>2, <2>6, <2>7, Zenon
<1>7. ASSUME NEW k \in 1..Len(sent) PROVE (front \o InRing)[k] = sent[k]
  <2>1. CASE k <= Base
    <3>1. k \in 1..Base
      BY <1>1, <2>1
    <3>. QED BY <1>5, <1>6, <2>1, <3>1
  <2>2. CASE k > Base
    <3>1. (front \o InRing)[k] = InRing[k - Base]
      <4>1. ~(k <= Base)
        BY <1>1, <2>2
      <4>. QED BY <1>6, <4>1, Zenon
    <3>2. k - Base \in 1..Filled /\ Base + (k - Base) = k
      BY <1>1, <2>2
    <3>3. InRing[k - Base] = sent[k]
      BY <1>4, <3>2, Zenon
    <3>. QED BY <3>1, <3>3, Zenon
  <2>3. k <= Base \/ k > Base
    BY <1>1
  <2>. QED BY <2>1, <2>2, <2>3, Zenon
<1>. QED
  <2> HIDE DEF front
  <2>1. front \o InRing = sent
    BY <1>6, <1>7, SeqEqual
  <2>. QED BY <2>1 DEF front

----------------------------------------------------------------------------
(* Every step keeps the ring, the posts under way and the serial interface  *)
(* in their types: no pointer of uart_buffer leaves the ring.               *)
THEOREM SciTypeCorrect == SciSpec => []SciTypeOK
<1>1. SciInv => SciTypeOK
  BY DEF SciInv
<1>. QED BY SciInvInit, SciInvStep, <1>1, PTL DEF SciSpec

(* MIDI bytes reach the firmware once and in order, for a ring of any size, *)
(* any producers and any number of resets.                                  *)
THEOREM BytesInOrder == SciSpec => []ReceivedInOrder
<1>1. SciInv => ReceivedInOrder
  BY AsAWhole DEF SciInv, Ordered, Late, ReceivedInOrder
<1>. QED BY SciInvInit, SciInvStep, <1>1, PTL DEF SciSpec

(* A byte in RDR has asked for the receiver's interrupt, so that the next   *)
(* can follow; the transmitter asks only while it is wanted.                *)
THEOREM RequestsHeard == SciSpec => []SciRequests
<1>1. SciInv => SciRequests
  BY DEF SciInv, Ordered, Heard, SerialRegisters, SciRequests
<1>. QED BY SciInvInit, SciInvStep, <1>1, PTL DEF SciSpec
=============================================================================
