------------------------------- MODULE Remote -------------------------------
(* The virtual keys the HTTP pages press (src/minijv880.cpp, the g_Remote   *)
(* masks; src/netfileserver.cpp, HandleRemoteCommandPage). A page only sets *)
(* bits; every frame of CMiniJV880::Process takes the queued taps, holds    *)
(* them for a second frame and releases them in the third.                  *)
EXTENDS Integers

CONSTANTS
  Keys,     \* the bits of a mask
  Enter,    \* the bit of ENTER
  MaxTurn   \* how far the dial may run ahead of the frames (8 in the code)

ASSUME RemoteConstants == Enter \in Keys /\ MaxTurn \in Nat

VARIABLES
  mask,       \* g_RemoteButtonMask, what the frames read as held
  taps,       \* g_RemoteTapMask
  holding,    \* g_RemoteTapHoldMask
  releasing,  \* g_RemoteTapReleaseMask
  turn,       \* g_RemoteEncoderDelta
  down,       \* ghost: keys held by /rdown since
  tapped      \* ghost: keys with a tap under way at their last /rdown or since

remote == <<mask, taps, holding, releasing, turn, down, tapped>>

RemoteTypeOK ==
  /\ mask \subseteq Keys /\ taps \subseteq Keys
  /\ holding \subseteq Keys /\ releasing \subseteq Keys
  /\ down \subseteq Keys /\ tapped \subseteq Keys
  /\ turn \in -MaxTurn..MaxTurn

RemoteInit ==
  /\ mask = {} /\ taps = {} /\ holding = {} /\ releasing = {}
  /\ turn = 0 /\ down = {} /\ tapped = {}

Down(k) ==
  /\ mask' = mask \cup {k}
  /\ down' = down \cup {k}
  /\ tapped' = (tapped \ {k}) \cup ({k} \cap (holding \cup releasing))
  /\ UNCHANGED <<taps, holding, releasing, turn>>

Up(k) ==
  /\ mask' = mask \ {k}
  /\ taps' = taps \ {k}
  /\ holding' = holding \ {k}
  /\ releasing' = releasing \ {k}
  /\ down' = down \ {k}
  /\ UNCHANGED <<turn, tapped>>

Tap(k) ==
  /\ taps' = taps \cup {k}
  /\ UNCHANGED <<mask, holding, releasing, turn, down, tapped>>

\* /rclr, and every page outside the remote-control area.
Clear ==
  /\ mask' = {} /\ taps' = {} /\ holding' = {} /\ releasing' = {}
  /\ down' = {}
  /\ UNCHANGED <<turn, tapped>>

Turn(d) ==
  /\ turn + d \in -MaxTurn..MaxTurn
  /\ turn' = turn + d
  /\ UNCHANGED <<mask, taps, holding, releasing, down, tapped>>

\* Mutant: the taps held for their second frame are never scheduled for
\* release.
TakeTapsForgets(gone) ==
  /\ mask' = ((mask \ releasing) \cup taps) \ gone
  /\ releasing' = {}
  /\ holding' = taps \ gone
  /\ taps' = {}
  /\ turn' = 0
  /\ tapped' = tapped \cup taps
  /\ UNCHANGED down

\* Mutant: a frame starts from no key at all.
TakeTapsDrops(gone) ==
  /\ mask' = (holding \cup taps) \ gone
  /\ releasing' = holding \ gone
  /\ holding' = taps \ gone
  /\ taps' = {}
  /\ turn' = 0
  /\ tapped' = tapped \cup taps
  /\ UNCHANGED down

\* One frame; "gone" is ENTER when an overlay has taken the tap for itself.
TakeTaps(gone) ==
  /\ mask' = ((mask \ releasing) \cup taps) \ gone
  /\ releasing' = holding \ gone
  /\ holding' = taps \ gone
  /\ taps' = {}
  /\ turn' = 0
  /\ tapped' = tapped \cup taps
  /\ UNCHANGED down

RemotePage ==
  \/ \E k \in Keys : Down(k) \/ Up(k) \/ Tap(k)
  \/ Clear
  \/ \E d \in {-1, 1} : Turn(d)

RemoteNext ==
  \/ RemotePage
  \/ \E gone \in {{}, {Enter} \cap taps} : TakeTaps(gone)

RemoteSpec == RemoteInit /\ [][RemoteNext]_remote

----------------------------------------------------------------------------

(* A tap never leaves its key pressed: every key the frames read as held is *)
(* held by /rdown or is released by one of the next two frames, whatever    *)
(* pages arrive in between.                                                 *)
NoTapSticks == mask \subseteq down \cup holding \cup releasing

(* A key held with /rdown stays held until /rup or a clear, except that a   *)
(* tap of the same key, under way then or later, ends the hold with its own *)
(* release.                                                                 *)
HoldLostOnlyByTap == down \ mask \subseteq tapped
=============================================================================
