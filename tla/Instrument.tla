----------------------------- MODULE Instrument ------------------------------
(* The instrument at work: the frames of CMiniJV880::Process with everything*)
(* that presses keys (Panel), the contacts of a button and of the dial with *)
(* the code that reads them (Controls), what each frame reads off the LCD   *)
(* (LcdWatch), the emulated processor (Cpu), its MIDI input (Sci), timers   *)
(* (Timers) and gate array (GateArray).                                     *)
(*                                                                          *)
(* They share no variable in the model: each takes what comes from the      *)
(* others as anything that may come (the button's stage, the dial's events, *)
(* the screen shown, the interrupts asked for, the bytes posted). So a      *)
(* behaviour lets one of them move (part), and the state spaces add up      *)
(* instead of multiplying.                                                  *)
EXTENDS Panel, Controls, LcdWatch, Cpu, Sci, Timers, GateArray

CONSTANT Parts  \* bound: those that are looked at

ASSUME PartsAssumption ==
  Parts \subseteq {"panel", "contacts", "lcd", "cpu", "midi", "timers", "gate"}

VARIABLE part   \* bound: the one that moves

vars == <<part, allPanel, controls, lcd, machine, sciVars, timerVars, gateVars>>

\* What does not move is as Init left it.
TypeOK ==
  CASE part = "panel" -> PanelTypeOK
    [] part = "contacts" -> ControlsTypeOK
    [] part = "lcd" -> LcdTypeOK
    [] part = "cpu" -> CpuTypeOK
    [] part = "midi" -> SciTypeOK
    [] part = "timers" -> TimersTypeOK
    [] part = "gate" -> GateTypeOK

Init ==
  /\ part \in Parts
  /\ PanelInit /\ (part # "panel" => inputs = {"buttons"})
  /\ ControlsInit /\ (part # "contacts" => ~key.double)
  /\ LcdInit /\ (part # "lcd" => lcdPage = "patch")
  /\ CpuInit /\ (part # "cpu" => job = 1)
  /\ TimersInit /\ (part # "timers" => used = "frt")
  /\ SciInit /\ GateInit

Next ==
  \/ /\ part = "panel" /\ PanelNext
     /\ UNCHANGED <<controls, lcd, machine, sciVars, timerVars, gateVars, part>>
  \/ /\ part = "contacts" /\ ControlsNext
     /\ UNCHANGED <<allPanel, lcd, machine, sciVars, timerVars, gateVars, part>>
  \/ /\ part = "lcd" /\ LcdNext
     /\ UNCHANGED <<allPanel, controls, machine, sciVars, timerVars, gateVars,
                    part>>
  \/ /\ part = "cpu" /\ CpuNext
     /\ UNCHANGED <<allPanel, controls, lcd, sciVars, timerVars, gateVars,
                    part>>
  \/ /\ part = "midi" /\ SciNext
     /\ UNCHANGED <<allPanel, controls, lcd, machine, timerVars, gateVars,
                    part>>
  \/ /\ part = "timers" /\ TimersNext
     /\ UNCHANGED <<allPanel, controls, lcd, machine, sciVars, gateVars, part>>
  \/ /\ part = "gate" /\ GateNext
     /\ UNCHANGED <<allPanel, controls, lcd, machine, sciVars, timerVars, part>>

Spec == Init /\ [][Next]_vars

----------------------------------------------------------------------------

(* No device asks for an interrupt without a reason and none has a reason   *)
(* that the firmware is not told of: the serial interface, the timers and   *)
(* the converter, and the gate array (SciRequests, TimerRequests,           *)
(* GateRequests).                                                           *)
RequestsAreFlags == SciRequests /\ TimerRequests /\ GateRequests
=============================================================================
