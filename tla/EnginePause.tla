---------------------------- MODULE EnginePause ----------------------------
(***************************************************************************)
(* The pause handshake by which the user interface stops the emulated      *)
(* firmware (core 2) and the tone generator (core 3) to replace the        *)
(* expansion ROM: mcu.m_globalPause, core2_idle and core3_idle.            *)
(*                                                                         *)
(* A controller is whatever runs CUserInterface's ENTER or encoder         *)
(* handler: the main loop of core 0, the GPIO interrupt of the rotary      *)
(* encoder on the same core, the serial MIDI loop of core 1.               *)
(***************************************************************************)
EXTENDS Naturals

CONSTANTS
  Controllers,  \* a subset of {"main", "irq", "midi"}
  Kinds         \* a subset of {"sr", "swap", "patch", "refused"}

ASSUME ControllersAssumption == Controllers \subseteq {"main", "irq", "midi"}
ASSUME KindsAssumption == Kinds \subseteq {"sr", "swap", "patch", "refused"}

VARIABLES
  pause,   \* mcu.m_globalPause
  idle,    \* core2_idle and core3_idle of CMiniJV880
  epc,     \* where each engine core is in its loop
  cpc,     \* where each controller is in its handler
  kind,    \* what the handler applies: an SR expansion, an RD-500 patch with
           \* or without the expansion swap, or an RD-500 patch refused by a
           \* check of ApplySelectedRD500Patch
  resumed  \* history: the controllers under whose request another one has
           \* resumed the engine

engine  == <<idle, epc>>
control == <<cpc, kind>>
vars    == <<pause, engine, control, resumed>>

Engine == {2, 3}
EnginePcs  == {"top", "rest", "wake", "check", "use"}
ControlPcs == {"off", "wait2", "wait3", "alloc", "rom", "patch", "flush"}

TypeOK ==
  /\ pause \in BOOLEAN
  /\ idle \in [Engine -> BOOLEAN]
  /\ epc \in [Engine -> EnginePcs]
  /\ cpc \in [Controllers -> ControlPcs]
  /\ kind \in [Controllers -> {"sr", "swap", "patch", "refused"}]
  /\ resumed \subseteq Controllers

Init ==
  /\ pause = FALSE
  /\ idle = [e \in Engine |-> FALSE]
  /\ epc = [e \in Engine |-> "top"]
  /\ cpc = [c \in Controllers |-> "off"]
  /\ kind = [c \in Controllers |-> "refused"]
  /\ resumed = {}

----------------------------------------------------------------------------
(* One turn of the loop of core 2 or core 3.                               *)

\* Mutant: the inner loop does not look at the flag again.
UseAgain(e) ==
  /\ epc[e] = "check"
  /\ epc' = [epc EXCEPT ![e] = "use"]
  /\ UNCHANGED <<pause, idle, control, resumed>>

\* Mutant: the core leaves its flag up when it goes back to work.
WakeSilently(e) ==
  /\ epc[e] = "wake"
  /\ \E next \in {"check", "top"} : epc' = [epc EXCEPT ![e] = next]
  /\ UNCHANGED <<pause, idle, control, resumed>>

\* Mutant: the resting core does not raise its flag.
RestSilently(e) ==
  /\ epc[e] = "rest"
  /\ epc' = [epc EXCEPT ![e] = "top"]
  /\ UNCHANGED <<pause, idle, control, resumed>>

LoadPause(e) ==
  /\ epc[e] = "top"
  /\ epc' = [epc EXCEPT ![e] = IF pause THEN "rest" ELSE "wake"]
  /\ UNCHANGED <<pause, idle, control, resumed>>

Rest(e) ==
  /\ epc[e] = "rest"
  /\ idle' = [idle EXCEPT ![e] = TRUE]
  /\ epc' = [epc EXCEPT ![e] = "top"]
  /\ UNCHANGED <<pause, control, resumed>>

\* Back to the top at once when the audio queue is full, or no cycle passed.
Wake(e) ==
  /\ epc[e] = "wake"
  /\ idle' = [idle EXCEPT ![e] = FALSE]
  /\ \E next \in {"check", "top"} : epc' = [epc EXCEPT ![e] = next]
  /\ UNCHANGED <<pause, control, resumed>>

\* The flag is read again before every copy, instruction or PCM batch.  (In
\* core 2 the loop over instructions falls back to the loop over copies, which
\* reads it once more: a stuttering step here.)
CheckPause(e) ==
  /\ epc[e] = "check"
  /\ epc' = [epc EXCEPT ![e] = IF pause THEN "top" ELSE "use"]
  /\ UNCHANGED <<pause, idle, control, resumed>>

\* One instruction, one copy from the ring, or one batch of samples.
Use(e) ==
  /\ epc[e] = "use"
  /\ \E next \in {"check", "top"} : epc' = [epc EXCEPT ![e] = next]
  /\ UNCHANGED <<pause, idle, control, resumed>>

EngineStep(e) == LoadPause(e) \/ Rest(e) \/ Wake(e) \/ CheckPause(e) \/ Use(e)

Core2Run == EngineStep(2)
Core3Run == EngineStep(3)

----------------------------------------------------------------------------
(* A controller.  The interrupt handler runs to its end before the main    *)
(* loop, which it interrupted on the same core, goes on.                   *)

Runs(c) == (c = "main" /\ "irq" \in Controllers) => cpc["irq"] = "off"

Goto(c, pc) == cpc' = [cpc EXCEPT ![c] = pc]

\* m_globalPause has no owner: c resumes the engine for all that run.
Resume(c) ==
  /\ pause' = FALSE
  /\ resumed' = resumed \cup {d \in Controllers \ {c} : cpc[d] # "off"}

Request(c) ==
  /\ Runs(c) /\ cpc[c] = "off"
  /\ \E k \in Kinds : kind' = [kind EXCEPT ![c] = k]
  /\ pause' = TRUE
  /\ resumed' = resumed \ {c}
  /\ Goto(c, "wait2") /\ UNCHANGED engine

\* while (!core2_idle || !core3_idle): the flags are read one after the other.
SeeCore2Idle(c) ==
  /\ Runs(c) /\ cpc[c] = "wait2" /\ idle[2]
  /\ Goto(c, "wait3") /\ UNCHANGED <<pause, engine, kind, resumed>>

SeeCore3(c) ==
  /\ Runs(c) /\ cpc[c] = "wait3"
  /\ Goto(c, IF ~idle[3] THEN "wait2"
             ELSE CASE kind[c] \in {"sr", "swap"} -> "alloc"
                    [] kind[c] = "patch" -> "patch"
                    [] kind[c] = "refused" -> "flush")
  /\ UNCHANGED <<pause, engine, kind, resumed>>

AfterReplace(c) == IF kind[c] = "swap" THEN "patch" ELSE "flush"

\* ReplaceExpansionSafe raises the flag again; without memory it lowers it.
Alloc(c) ==
  /\ Runs(c) /\ cpc[c] = "alloc"
  /\ \/ pause' = TRUE /\ Goto(c, "rom") /\ UNCHANGED resumed
     \/ Resume(c) /\ Goto(c, AfterReplace(c))
  /\ UNCHANGED <<engine, kind>>

\* The ROM is replaced and SC55_Reset done: ReplaceExpansionSafe resumes.
FinishRom(c) ==
  /\ Runs(c) /\ cpc[c] = "rom"
  /\ Resume(c)
  /\ Goto(c, AfterReplace(c))
  /\ UNCHANGED <<engine, kind>>

\* The RD-500 patch is in NVRAM and the program change posted.
FinishPatch(c) ==
  /\ Runs(c) /\ cpc[c] = "patch"
  /\ Goto(c, "flush") /\ UNCHANGED <<pause, engine, kind, resumed>>

\* Mutant: the handler leaves the resuming to ReplaceExpansionSafe.
FinishFlushOnly(c) ==
  /\ Runs(c) /\ cpc[c] = "flush"
  /\ Goto(c, "off") /\ UNCHANGED <<pause, engine, kind, resumed>>

\* The sample ring is emptied; the handler resumes the engine.
FinishFlush(c) ==
  /\ Runs(c) /\ cpc[c] = "flush"
  /\ Resume(c)
  /\ Goto(c, "off") /\ UNCHANGED <<engine, kind>>

Proceed(c) ==
  \/ SeeCore2Idle(c) \/ SeeCore3(c) \/ Alloc(c)
  \/ FinishRom(c) \/ FinishPatch(c) \/ FinishFlush(c)

Next ==
  \/ Core2Run \/ Core3Run
  \/ \E c \in Controllers : Request(c) \/ Proceed(c)

Spec == Init /\ [][Next]_vars

\* The engine cores loop for ever; a handler that began goes on.
FairSpec ==
  /\ Spec /\ WF_vars(Core2Run) /\ WF_vars(Core3Run)
  /\ \A c \in Controllers : WF_vars(Proceed(c))

----------------------------------------------------------------------------
(* What a controller writes: ROM and reset, NVRAM, or the sample ring.     *)
Modifies(c) == cpc[c] \in {"rom", "patch", "flush"}

\* The part of it that runs under the handshake: ReplaceExpansionSafe resumes
\* the cores, so what the handler does after it does not.
UnderPause(c) ==
  \/ cpc[c] \in {"alloc", "rom"}
  \/ Modifies(c) /\ kind[c] \in {"patch", "refused"}

\* The handshake: neither core executes an instruction, copies a sample or
\* renders a batch while a controller replaces the ROM, resets the machine or
\* rewrites the NVRAM under its request, although both flags it waits for may
\* be stale and the requests of others come at any time, unless another one
\* resumed the engine since.
QuietUnderPause ==
  \A c \in Controllers \ resumed :
    UnderPause(c) => \A e \in Engine : epc[e] # "use"

\* Why the handshake works: a core that may touch the machine has taken its
\* flag down first and then looked at the request again, so once the controller
\* has seen a core's flag after its own request, that core cannot get past its
\* check before somebody lowers the request.
Handshake ==
  /\ TypeOK
  /\ \A e \in Engine : epc[e] \in {"check", "use"} => ~idle[e]
  /\ \A c \in Controllers : cpc[c] \in {"alloc", "rom"} => kind[c] \in {"sr", "swap"}
  /\ \A c \in Controllers \ resumed :
       /\ cpc[c] \in {"wait2", "wait3"} \/ UnderPause(c) => pause
       /\ cpc[c] = "wait3" => epc[2] # "use"
  /\ QuietUnderPause

\* The wait for both cores ends, unless another controller resumes the engine
\* under it: each core that sees the request raises its flag and keeps it up.
WaitEndsUnlessResumed ==
  \A c \in Controllers :
    cpc[c] = "wait2" ~> cpc[c] \notin {"wait2", "wait3"} \/ c \in resumed

\* "Wait until cores 2 and 3 are actually idle": the wait ends.  The code does not
\* keep this: the interrupt of the encoder resumes the engine under the main loop.
WaitEnds ==
  \A c \in Controllers :
    cpc[c] = "wait2" ~> cpc[c] \notin {"wait2", "wait3"}

\* The engine is not left paused by any path through a handler.
PauseEnds == pause ~> ~pause
=============================================================================
