------------------------------- MODULE Panel --------------------------------
(* One frame of CMiniJV880::Process after another (src/minijv880.cpp): the  *)
(* ENTER and DATA buttons, the HTTP keys of Remote and the MIDI controllers *)
(* that press keys, and the overlay menus they open and close.              *)
(*                                                                          *)
(* The main loop runs a frame in three steps (pc); the serial core parses    *)
(* MIDI between any two of them, HTTP pages run between frames only. Time   *)
(* passes between frames. What a behaviour may use is chosen at the start   *)
(* (inputs), so that the state spaces of the input devices add up.          *)
EXTENDS Integers, Overlays, UIButton, Remote

CONSTANTS
  Long,       \* GetSYXMenuLongPressTimeout, in ticks
  DataLong,   \* kDataLongPressTicks
  TapTicks,   \* tapTicks, a MIDI ENTER tap in the SysEx menu
  HoldTicks,  \* holdTicks, MIDI ENTER long
  MaxCalls,   \* bound: MIDI messages and pages in a behaviour
  Firmware,   \* the screens the firmware draws by itself
  Scenarios   \* bound: the devices a behaviour uses, the files on the card,
              \* the place the SR list was left at

ASSUME PanelConstants ==
  /\ Long \in Nat \ {0} /\ DataLong \in Nat \ {0}
  /\ TapTicks \in 1..Long /\ HoldTicks \in Nat /\ HoldTicks > Long
  /\ MaxCalls \in Nat
  /\ Firmware \subseteq Native
  /\ Keys \subseteq Pressed /\ Enter = "ENTER"
  /\ Scenarios \subseteq
       [inputs : SUBSET {"buttons", "dial", "pages", "midi"},
        have : SUBSET {"sr", "rd500"}, sr : 0..NumSR]

VARIABLES
  inputs,  \* bound: the devices this behaviour uses
  left,    \* bound: the messages and pages it may still use
  pc,      \* the step of Process that comes next
  ui,      \* the overlays (Overlays)
  pin,     \* the buttons held down, GetRawMask
  button,  \* CUIButton of ENTER, its Stage
  data,    \* DATA: dataPressedLastFrame, pending short press, pass-through
  enter,   \* ENTER outside the menus: s_enterPrev, s_enterTracking, ...
  rd,      \* ENTER in the RD-500 menus: s_rd500PrevEnter, ...
  syx,     \* ENTER in the SysEx menu, its wait for the release, its root
  midi,    \* keys and timers MIDI set, the mask it is about to write back
  hold     \* ghost: the ENTER the frames see held, what it caused so far in
           \* the SysEx menu and in the RD-500 menus

panel == <<inputs, left, pc, ui, pin, button, data, enter, rd, syx, midi, hold>>
allPanel == <<panel, remote>>

Overlaid == {"SR", "RD500", "Browse"}
Tracker  == [prev : BOOLEAN, track : BOOLEAN, fired : BOOLEAN, age : 0..Long]
Idle     == [prev |-> FALSE, track |-> FALSE, fired |-> FALSE, age |-> 0]

PanelTypeOK ==
  /\ inputs \subseteq {"buttons", "dial", "pages", "midi"}
  /\ left \in 0..MaxCalls
  /\ pc \in {"idle", "data", "draw"}
  /\ ui \in Overlay
  /\ pin \subseteq {"DATA", "ENTER"}
  /\ button \in {"up", "held", "spent"}
  /\ data \in [prev : BOOLEAN, pending : BOOLEAN, pass : BOOLEAN,
               age : 0..DataLong]
  /\ enter \in Tracker /\ rd \in Tracker
  /\ syx \in [wait : BOOLEAN, root : BOOLEAN, on : Tracker]
  /\ midi \in [held : SUBSET {"DATA"}, long : 0..HoldTicks,
               tap : 0..TapTicks, busy : BOOLEAN, write : SUBSET Pressed]
  /\ hold \in [on : BOOLEAN, syx : 0..2, back : 0..2]
  /\ RemoteTypeOK

PanelInit ==
  /\ pc = "idle" /\ left = MaxCalls
  /\ \E s \in Scenarios, screen \in Firmware :
       /\ inputs = s.inputs
       /\ ui = [menus |-> {}, lcd |-> screen, snap |-> None,
                restore |-> FALSE, matrix |-> {}, injected |-> {},
                seq |-> 0, frames |-> 0, block |-> FALSE,
                rdWait |-> FALSE, sr |-> s.sr, have |-> s.have]
  /\ pin = {}
  /\ button = "up"
  /\ data = [prev |-> FALSE, pending |-> FALSE, pass |-> FALSE, age |-> 0]
  /\ enter = Idle /\ rd = Idle
  /\ syx = [wait |-> FALSE, root |-> TRUE, on |-> Idle]
  /\ midi = [held |-> {}, long |-> 0, tap |-> 0, busy |-> FALSE,
             write |-> {}]
  /\ hold = [on |-> FALSE, syx |-> 0, back |-> 0]
  /\ RemoteInit

----------------------------------------------------------------------------
(* The trackers of a key: an edge starts to count, the age grows with the   *)
(* ticks.                                                                   *)

Older(t, limit) ==
  [t EXCEPT !.age = IF @ < limit THEN @ + 1 ELSE @]

Start(t, on) == [prev |-> TRUE, track |-> on, fired |-> FALSE, age |-> 0]

Expired(t) == t.track /\ ~t.fired /\ t.age >= Long

MIDIHeld ==
  midi.held \cup (IF midi.long > 0 \/ midi.tap > 0 THEN {"ENTER"} ELSE {})

Held == pin \cup MIDIHeld \cup mask

\* One ENTER hold as the frames see it, and what it brought about.
Seen(now, inSyx, back) ==
  LET sofar == IF hold.on THEN hold ELSE [hold EXCEPT !.syx = 0, !.back = 0]
      OneMore(n, yes) == IF yes /\ n < 2 THEN n + 1 ELSE n
  IN hold' = [on |-> now, syx |-> OneMore(sofar.syx, inSyx),
              back |-> OneMore(sofar.back, back)]

----------------------------------------------------------------------------
(* The frame.                                                               *)

\* m_InjectedButtonMask is cleared, CUserInterface::Process reads the buttons
\* (or does not, if it did so a moment ago), then the remote taps and dial are
\* taken.
ReadInputs ==
  LET fresh == [ui EXCEPT !.injected = {}]
  IN /\ pc = "idle" /\ pc' = "data"
     /\ \E s \in KeySteps(button, "ENTER" \in pin) :
          LET u == IF s.event = "click" THEN EnterEvent(fresh) ELSE fresh
              gone == IF u.menus \cap Overlaid # {} THEN {Enter} \cap taps
                      ELSE {}
              v == IF gone # {} THEN EnterEvent(u) ELSE u
          IN /\ button' = s.stage
             /\ TakeTaps(gone)
             /\ ui' = TurnRemote(v, turn)
     /\ UNCHANGED <<inputs, left, pin, data, enter, rd, syx, midi, hold>>

CanUseDataLongPress == ui.menus = {} /\ ui.lcd \in {"patch", "perf"}

OpenByData(u) == [Save(u) EXCEPT !.menus = @ \cup {"SR"}]

\* A DATA press that may open the SR menu when it is released soon.
DataPressed(now) ==
  LET edge == now /\ ~data.prev
      d == IF edge /\ CanUseDataLongPress
           THEN [data EXCEPT !.pending = TRUE, !.pass = FALSE, !.age = 0]
           ELSE data
      passes == d.pending /\ now /\ ~d.pass /\ d.age >= DataLong
  IN IF passes THEN [d EXCEPT !.pending = FALSE, !.pass = TRUE] ELSE d

\* DATA, then one frame of the UTILITY sequence.
ReadData ==
  LET now == "DATA" \in pin \cup mask
      edge == now /\ ~data.prev
      d == DataPressed(now)
      u == IF edge /\ "SR" \in ui.menus THEN RequestCloseSRMenu(ui)
           ELSE IF \/ edge /\ ~CanUseDataLongPress
                   \/ ~now /\ data.prev /\ d.pending
                THEN OpenByData(ui) ELSE ui
      released == ~now /\ data.prev
  IN /\ pc = "data" /\ pc' = "draw"
     /\ data' = [prev |-> now,
                 pending |-> d.pending /\ ~released,
                 pass |-> d.pass /\ ~released,
                 age |-> IF d.pending /\ ~released THEN d.age ELSE 0]
     /\ ui' = UtilityFrame(u)
     /\ UNCHANGED <<inputs, left, pin, button, enter, rd, syx, midi, hold, remote>>

(* Outside the SysEx menu: the overlays are drawn, ENTER held long opens    *)
(* the SysEx menu from Patch Play or goes back in the RD-500 menus, and the *)
(* keys reach the firmware.                                                 *)

CanOpenSyxMenu(u) == u.menus \cap Overlaid = {} /\ u.lcd = "patch"

\* Mutant: a DATA press shows while it may still become the SR menu.
UnmaskedKeys == Held \ (IF ui.block THEN {"DATA"} ELSE {})

UnblockedKeys == Held \ (IF data.pending \/ ui.block THEN {"DATA"} ELSE {})

\* Mutant: the SysEx menu opens without waiting for the release.
OpenSYXAtOnce(opens) ==
  IF opens
  THEN \E root \in {TRUE, syx.root} : syx' = [syx EXCEPT !.root = root]
  ELSE UNCHANGED syx

\* It opens in the directory it was left in, or in the root if that is gone.
OpenSYX(opens) ==
  IF opens
  THEN \E root \in {TRUE, syx.root} :
         syx' = [syx EXCEPT !.wait = TRUE, !.root = root]
  ELSE UNCHANGED syx

MainFrame ==
  LET now == "ENTER" \in Held
      u1 == Draw(ui)
      e == IF now /\ ~enter.prev THEN Start(enter, CanOpenSyxMenu(u1))
           ELSE enter
      opens == now /\ Expired(e)
      u2 == IF opens THEN [Save(u1) EXCEPT !.menus = @ \cup {"SYX"}] ELSE u1
      inRD == u2.menus \cap {"RD500", "Browse"} # {}
      r == IF u2.rdWait THEN [Idle EXCEPT !.prev = TRUE]
           ELSE IF ~rd.prev THEN Start(rd, TRUE) ELSE rd
      back == inRD /\ now /\ Expired(r)
      u3 == IF back THEN LongBack(u2)
            ELSE IF inRD /\ ~now THEN [u2 EXCEPT !.rdWait = FALSE] ELSE u2
  IN /\ pc = "draw" /\ pc' = "idle"
     /\ "SYX" \notin ui.menus
     /\ enter' = IF ~now THEN Idle
                 ELSE IF opens THEN [e EXCEPT !.fired = TRUE, !.age = 0] ELSE e
     /\ OpenSYX(opens)
     /\ rd' = IF ~inRD \/ ~now THEN Idle
              ELSE IF back THEN [Idle EXCEPT !.prev = TRUE] ELSE r
     /\ ui' = [u3 EXCEPT !.matrix = UnblockedKeys \cup u3.injected,
                         !.block = @ /\ data.prev]
     /\ Seen(now, opens, back)
     /\ UNCHANGED <<inputs, left, pin, button, data, midi, remote>>

(* The SysEx menu: the frame ends here, the firmware goes on seeing the     *)
(* keys of the last frame before it.                                        *)
SyxFrame ==
  LET now == "ENTER" \in Held
      s == IF now /\ ~syx.on.prev THEN Start(syx.on, TRUE) ELSE syx.on
      long == now /\ Expired(s)
      short == ~now /\ s.track /\ ~s.fired
      u == [ui EXCEPT !.lcd = "overlay"]
      waiting == [syx EXCEPT !.wait = now,
                    !.on = IF now THEN [@ EXCEPT !.prev = TRUE] ELSE Idle]
      after == IF ~now THEN Idle
               ELSE IF long THEN [Start(s, FALSE) EXCEPT !.fired = TRUE]
               ELSE s
  IN /\ pc = "draw" /\ pc' = "idle"
     /\ "SYX" \in ui.menus
     /\ \/ syx.wait /\ syx' = waiting /\ ui' = u /\ Seen(now, FALSE, FALSE)
        \/ /\ ~syx.wait /\ long
           /\ syx' = [syx EXCEPT !.on = after, !.root = TRUE]
           /\ ui' = IF syx.root THEN ExitSYXMenu(u, TRUE) ELSE u
           /\ Seen(now, TRUE, FALSE)
        \/ /\ ~syx.wait /\ short
           /\ \/ /\ syx' = [syx EXCEPT !.on = after] /\ ui' = u
                 /\ Seen(now, FALSE, FALSE)
              \/ /\ syx' = [syx EXCEPT !.on = after, !.root = FALSE]
                 /\ ui' = u
                 /\ Seen(now, TRUE, FALSE)
              \/ /\ syx' = [syx EXCEPT !.on = after]
                 /\ ui' = ExitSYXMenu(u, FALSE)
                 /\ Seen(now, TRUE, FALSE)
        \/ /\ ~syx.wait /\ ~long /\ ~short
           /\ syx' = [syx EXCEPT !.on = after] /\ ui' = u
           /\ Seen(now, FALSE, FALSE)
     /\ UNCHANGED <<inputs, left, pin, button, data, enter, rd, midi, remote>>

----------------------------------------------------------------------------
(* Whatever the frames read.                                                *)

PressButton ==
  /\ "buttons" \in inputs /\ pc = "idle"
  /\ \E k \in {"DATA", "ENTER"} :
       pin' = IF k \in pin THEN pin \ {k} ELSE pin \cup {k}
  /\ UNCHANGED <<inputs, left, pc, ui, button, data, enter, rd, syx, midi, hold,
                 remote>>

\* The interrupt of the DATA dial.
Dial ==
  /\ "dial" \in inputs
  /\ \E d \in {-1, 1} : ui' = TurnKnob(ui, d)
  /\ UNCHANGED <<inputs, left, pc, pin, button, data, enter, rd, syx, midi, hold,
                 remote>>

Pages ==
  /\ "pages" \in inputs /\ pc = "idle" /\ left > 0
  /\ left' = left - 1
  /\ RemotePage
  /\ UNCHANGED <<inputs, pc, ui, pin, button, data, enter, rd, syx, midi, hold>>

FirmwareDraws ==
  /\ pc = "idle"
  /\ \E screen \in Firmware \ {ui.lcd} : ui' = [ui EXCEPT !.lcd = screen]
  /\ UNCHANGED <<inputs, left, pc, pin, button, data, enter, rd, syx, midi, hold,
                 remote>>

Tick ==
  /\ pc = "idle"
  /\ data' = IF data.pending THEN Older(data, DataLong) ELSE data
  /\ enter' = IF enter.track /\ ~enter.fired THEN Older(enter, Long) ELSE enter
  /\ rd' = IF rd.track THEN Older(rd, Long) ELSE rd
  /\ syx' = IF syx.on.track THEN [syx EXCEPT !.on = Older(@, Long)] ELSE syx
  /\ midi' = [midi EXCEPT !.long = IF @ > 0 THEN @ - 1 ELSE 0,
                          !.tap = IF @ > 0 THEN @ - 1 ELSE 0]
  /\ <<data, enter, rd, syx, midi>>' # <<data, enter, rd, syx, midi>>
  /\ UNCHANGED <<inputs, left, pc, ui, pin, button, hold, remote>>

----------------------------------------------------------------------------
(* ParseMIDIData on the serial core, at any step of the frame.              *)

\* One message; the parser has none half done.
Message ==
  /\ "midi" \in inputs /\ left > 0 /\ ~midi.busy
  /\ left' = left - 1
  /\ UNCHANGED <<inputs, pc, pin, button, data, enter, rd, syx, hold, remote>>

\* A button that is injected: the mask is read, changed and written back.
MIDIInject ==
  /\ Message
  /\ \E k \in {"UTILITY", "ENTER"}, on \in BOOLEAN :
       /\ k = "ENTER" => ui.menus = {}
       /\ midi' = [midi EXCEPT !.busy = TRUE, !.write =
                     IF on THEN ui.injected \cup {k} ELSE ui.injected \ {k}]
  /\ UNCHANGED ui

MIDIInjectWrite ==
  /\ midi.busy
  /\ ui' = [ui EXCEPT !.injected = midi.write]
  /\ midi' = [midi EXCEPT !.busy = FALSE, !.write = {}]
  /\ UNCHANGED <<inputs, left, pc, pin, button, data, enter, rd, syx, hold, remote>>

MIDIHold ==
  /\ Message
  /\ \E on \in BOOLEAN :
       midi' = [midi EXCEPT !.held = IF on THEN {"DATA"} ELSE {}]
  /\ UNCHANGED ui

\* ENTER while a menu is open: a timed tap for the SysEx menu, which reads
\* the held keys, the button event for the others.
MIDIEnter ==
  /\ Message
  /\ \/ /\ "SYX" \in ui.menus
        /\ midi' = [midi EXCEPT !.tap = TapTicks]
        /\ UNCHANGED ui
     \/ /\ "SYX" \notin ui.menus /\ ui.menus # {}
        /\ UNCHANGED midi
        /\ ui' = EnterEvent(ui)

\* ENTER long holds ENTER for a while, whatever is on the screen.
MIDIEnterLong ==
  /\ Message
  /\ midi' = [midi EXCEPT !.long = HoldTicks]
  /\ UNCHANGED ui

MIDIAllRelease ==
  /\ Message
  /\ midi' = [midi EXCEPT !.held = {}, !.long = 0, !.tap = 0]
  /\ ui' = [ui EXCEPT !.injected = {}, !.matrix = @ \ {"DATA", "ENTER"}]

MIDIOverlay ==
  /\ Message
  /\ UNCHANGED midi
  /\ ui' = IF "SR" \in ui.menus THEN RequestCloseSRMenu(ui) ELSE OpenSRMenu(ui)

MIDIDial ==
  /\ Message
  /\ UNCHANGED midi
  /\ \E d \in {-1, 1} : ui' = TurnRemote(ui, d)

ParseMIDIData ==
  \/ MIDIInject \/ MIDIInjectWrite \/ MIDIHold \/ MIDIEnter \/ MIDIEnterLong
  \/ MIDIAllRelease \/ MIDIOverlay \/ MIDIDial

----------------------------------------------------------------------------

Process == ReadInputs \/ ReadData \/ MainFrame \/ SyxFrame

PanelNext ==
  \/ Process \/ ParseMIDIData
  \/ PressButton \/ Dial \/ Pages \/ FirmwareDraws \/ Tick

PanelSpec == PanelInit /\ [][PanelNext]_allPanel

----------------------------------------------------------------------------

(* One hold of the ENTER button does one thing in the SysEx menu and goes   *)
(* one step back in the RD-500 menus (the waits for the release in Process, *)
(* "one longpress must perform only ONE back step"): the long press that    *)
(* opened the SysEx menu neither loads a file nor leaves it again. Other    *)
(* sources of ENTER may end the wait early.                                 *)
OneStepPerHold ==
  inputs \subseteq {"buttons", "dial"} => hold.syx <= 1 /\ hold.back <= 1

(* A DATA press that may still become the SR menu is hidden from the        *)
(* firmware, whatever else holds DATA and whichever menu is open.           *)
DataHidden == pc = "idle" /\ data.pending => "DATA" \notin ui.matrix

(* A screen that is to come back has been saved, and the UTILITY sequence   *)
(* whose end brings it back is running.                                     *)
RestoreScheduled == ui.restore => ui.snap # None /\ ui.seq > 0

(* "Save only the native firmware screen before entering an overlay": what  *)
(* comes back at the end is never the picture of a menu.                    *)
SnapshotIsNative == ui.snap # "overlay"
=============================================================================
