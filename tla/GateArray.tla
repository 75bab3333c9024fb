------------------------------ MODULE GateArray ------------------------------
(* The interrupt IRQ0 of the gate array (src/emulator/mcu.cpp), a guess at  *)
(* the chip by the code's own word: the lines of the dial, raised on core 0 *)
(* (MCU_EncoderTrigger from the dial, the pages) and on core 1 (MIDI), and  *)
(* the line of the tone generator, raised on core 3, share one trigger that *)
(* the firmware reads and clears on core 2. Nothing is locked; the line of  *)
(* the tone generator is also lowered on core 2, under the lock of the PCM. *)
EXTENDS Integers

CONSTANTS
  Callers,  \* who raises a line
  LineOf    \* which line

ASSUME GateConstants == LineOf \in [Callers -> 1..7]

Lines == {LineOf[c] : c \in Callers}

VARIABLES
  ga,       \* ga_int, ga_int_enable, ga_int_trigger and the request
  call,     \* what each caller has done of MCU_GA_SetGAInt
  reading,  \* what core 2 has done of its read of the trigger
  mixed     \* ghost: two of them overlapped

gateVars == <<ga, call, reading, mixed>>

GateTypeOK ==
  /\ ga \in [level : [Lines -> 0..1], enable : SUBSET Lines,
             trigger : Lines \cup {0}, asks : BOOLEAN]
  /\ call \in [Callers -> [pc : {"idle", "trigger", "level", "request", "ask"},
                           value : 0..1, asks : BOOLEAN]]
  /\ reading \in {"idle", "clear", "withdraw"} /\ mixed \in BOOLEAN

GateInit ==
  /\ ga = [level |-> [l \in Lines |-> 0], enable |-> {}, trigger |-> 0,
           asks |-> FALSE]
  /\ call = [c \in Callers |-> [pc |-> "idle", value |-> 0, asks |-> FALSE]]
  /\ reading = "idle" /\ mixed = FALSE

Overlap(c) ==
  reading # "idle" \/ \E d \in Callers \ {c} : call[d].pc # "idle"

IsAt(c, where) == call[c].pc = where
GoesTo(c, where) == call' = [call EXCEPT ![c].pc = where]

\* MCU_EncoderTrigger lowers its line and raises it; so does the tone
\* generator, in calls of their own.
BeginCall(c) ==
  /\ IsAt(c, "idle")
  /\ \E v \in 0..1 : call' = [call EXCEPT ![c].pc = "trigger", ![c].value = v]
  /\ mixed' = (mixed \/ Overlap(c))
  /\ UNCHANGED <<ga, reading>>

Trigger(c) ==
  LET l == LineOf[c]
  IN /\ IsAt(c, "trigger") /\ GoesTo(c, "level")
     /\ ga' = IF call[c].value = 1 /\ ga.level[l] = 0 /\ l \in ga.enable
              THEN [ga EXCEPT !.trigger = l] ELSE ga
     /\ UNCHANGED <<reading, mixed>>

SetLevel(c) ==
  /\ IsAt(c, "level") /\ GoesTo(c, "request")
  /\ ga' = [ga EXCEPT !.level[LineOf[c]] = call[c].value]
  /\ UNCHANGED <<reading, mixed>>

\* MCU_Interrupt_SetRequest with what the trigger is, or was.
Look(c) ==
  /\ IsAt(c, "request")
  /\ call' = [call EXCEPT ![c].pc = "ask", ![c].asks = ga.trigger # 0]
  /\ UNCHANGED <<ga, reading, mixed>>

\* Alone, it leaves the request in step with the trigger again.
SetRequest(c) ==
  /\ IsAt(c, "ask") /\ GoesTo(c, "idle")
  /\ ga' = [ga EXCEPT !.asks = call[c].asks]
  /\ UNCHANGED <<reading, mixed>>

MCU_GA_SetGAInt(c) == BeginCall(c) \/ Trigger(c) \/ SetLevel(c) \/ Look(c)
                        \/ SetRequest(c)

----------------------------------------------------------------------------
(* Core 2: the firmware, external, reads the trigger in its handler or      *)
(* before, and sets which lines count.                                      *)

\* Mutant: reading the trigger does not clear it.
KeepTrigger == reading = "clear" /\ reading' = "withdraw" /\ ga' = ga

ClearTrigger ==
  /\ reading = "clear" /\ reading' = "withdraw"
  /\ ga' = [ga EXCEPT !.trigger = 0]

TakeTrigger ==
  /\ \/ reading = "idle" /\ reading' = "clear" /\ ga' = ga
     \/ ClearTrigger
     \/ /\ reading = "withdraw" /\ reading' = "idle"
        /\ ga' = [ga EXCEPT !.asks = FALSE]
  /\ mixed' = (mixed \/ \E c \in Callers : call[c].pc # "idle")
  /\ UNCHANGED call

WriteEnable ==
  /\ reading = "idle"
  /\ \E s \in SUBSET Lines : ga' = [ga EXCEPT !.enable = s]
  /\ UNCHANGED <<call, reading, mixed>>

GateNext ==
  \/ \E c \in Callers : MCU_GA_SetGAInt(c)
  \/ TakeTrigger
  \/ WriteEnable

GateSpec == GateInit /\ [][GateNext]_gateVars

----------------------------------------------------------------------------

(* A turn of the dial is not forgotten: while no two calls have overlapped, *)
(* a trigger that is set has asked for the interrupt, and there is no       *)
(* request without one. Calls that overlap can leave a trigger that nobody  *)
(* asks for until the next call.                                            *)
GateRequests ==
  ~mixed /\ reading = "idle" /\ (\A c \in Callers : call[c].pc = "idle") =>
    (ga.asks <=> ga.trigger # 0)
=============================================================================
