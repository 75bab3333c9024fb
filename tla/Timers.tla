------------------------------- MODULE Timers --------------------------------
(* The timers and the converter of the emulated processor                   *)
(* (src/emulator/mcu.cpp): the free-running timers FRT1 to FRT3, of which   *)
(* the compare match with OCRA is there, the 8-bit timer with its compare   *)
(* match A, and the A/D converter. All of it runs on core 2, the clock      *)
(* after each instruction; the firmware, external, accesses their registers *)
(* in any order. Which cycles the 8-bit timer and the converter match on is *)
(* left open.                                                               *)
EXTENDS Integers

CONSTANTS
  Frt,      \* bound: the free-running timers looked at
  Counts,   \* how far a counter goes, 2^16 in the code
  Compare   \* bound: the values compared with

ASSUME TimerConstants == Counts \in Nat \ {0} /\ Compare \subseteq Nat

VARIABLES
  frt,   \* counter, OCRA, flag, whether it was read, and the interrupt
  temp,  \* timer_tempreg, which the three share: whose high byte it holds
  tmr,   \* the 8-bit timer
  adc,   \* the converter
  used   \* bound: which of the three the firmware uses

timerVars == <<frt, temp, tmr, adc, used>>

Restored == [frc |-> 0, ocra |-> 0, ocfa |-> FALSE, rd |-> FALSE,
             ociea |-> FALSE, asks |-> FALSE]

TimersTypeOK ==
  /\ frt \in [Frt -> [frc : 0..Counts - 1, ocra : Compare \cup {0},
                      ocfa : BOOLEAN, rd : BOOLEAN, ociea : BOOLEAN,
                      asks : BOOLEAN]]
  /\ temp \in Compare \cup {0}
  /\ tmr \in [on : BOOLEAN, ie : BOOLEAN, cmfa : BOOLEAN, asks : BOOLEAN]
  /\ adc \in [runs : BOOLEAN, scan : BOOLEAN, ie : BOOLEAN, adf : BOOLEAN,
              rd : BOOLEAN, asks : BOOLEAN]
  /\ used \in {"frt", "tmr", "adc"}

\* TIMER_Reset.
TimersInit ==
  /\ frt = [t \in Frt |-> Restored] /\ temp = 0
  /\ tmr = [on |-> FALSE, ie |-> FALSE, cmfa |-> FALSE, asks |-> FALSE]
  /\ adc = [runs |-> FALSE, scan |-> FALSE, ie |-> FALSE, adf |-> FALSE,
            rd |-> FALSE, asks |-> FALSE]
  /\ used \in {"frt", "tmr", "adc"}

----------------------------------------------------------------------------
(* The clock.                                                               *)

Match(t) == frt[t].frc \div 4 >= frt[t].ocra

\* A value that the counter never gets to four times over is not matched.
\* All three count at every turn, the 8-bit timer at one in 64 cycles.
TIMER_Clock ==
  /\ frt' = [t \in Frt |->
       [frt[t] EXCEPT !.frc = IF Match(t) THEN 0 ELSE (@ + 6) % Counts,
                      !.ocfa = @ \/ Match(t),
                      !.asks = @ \/ (frt[t].ociea /\ Match(t))]]
  /\ \/ tmr' = tmr
     \/ tmr.on /\ tmr' = [tmr EXCEPT !.cmfa = TRUE, !.asks = @ \/ tmr.ie]
  /\ UNCHANGED <<temp, adc, used>>

\* A conversion ends; only a scan goes on.
MCU_UpdateAnalog ==
  /\ adc.runs
  /\ adc' = [adc EXCEPT !.runs = adc.scan, !.adf = TRUE, !.asks = @ \/ adc.ie]
  /\ UNCHANGED <<frt, temp, tmr, used>>

----------------------------------------------------------------------------
(* The registers.                                                           *)

\* Mutant: the request of a match that was handled stays.
ClearOnlyFlag(t) == [frt[t] EXCEPT !.ocfa = FALSE, !.rd = FALSE]

\* The flag was read before it is cleared.
ClearOCFA(t) == [frt[t] EXCEPT !.ocfa = FALSE, !.rd = FALSE, !.asks = FALSE]

\* The interrupt is on for one value of TCR only.
TIMER_Write(t) ==
  \/ \E on \in BOOLEAN : /\ frt' = [frt EXCEPT ![t].ociea = on]
                         /\ temp' = temp
  \/ /\ frt' = [frt EXCEPT ![t] = IF frt[t].rd THEN ClearOCFA(t) ELSE @]
     /\ temp' = temp
  \/ temp' \in Compare /\ frt' = frt
  \/ frt' = [frt EXCEPT ![t].ocra = temp] /\ temp' = temp

TIMER_Read(t) ==
  frt' = [frt EXCEPT ![t].rd = @ \/ frt[t].ocfa] /\ temp' = temp

\* The flag of the 8-bit timer is cleared unread too.
TIMER2_Write ==
  \/ \E on, ie \in BOOLEAN : tmr' = [tmr EXCEPT !.on = on, !.ie = ie]
  \/ tmr.cmfa /\ tmr' = [tmr EXCEPT !.cmfa = FALSE, !.asks = FALSE]

\* With the flag written as 0 and read as 1 once, or with the interrupt off,
\* the request is withdrawn.
WriteADCSR ==
  \E run, scan, ie, keep \in BOOLEAN :
    LET clear == ~keep /\ adc.rd
    IN adc' = [adc EXCEPT !.runs = run, !.scan = scan, !.ie = ie,
                          !.adf = @ /\ ~clear,
                          !.asks = @ /\ ~clear /\ ie]

ReadADCSR == adc' = [adc EXCEPT !.rd = adc.adf]

Registers ==
  /\ \/ /\ used = "frt" /\ \E t \in Frt : TIMER_Write(t) \/ TIMER_Read(t)
        /\ UNCHANGED <<tmr, adc>>
     \/ used = "tmr" /\ TIMER2_Write /\ UNCHANGED <<frt, temp, adc>>
     \/ /\ used = "adc" /\ (WriteADCSR \/ ReadADCSR)
        /\ UNCHANGED <<frt, temp, tmr>>
  /\ UNCHANGED used

TimersNext == TIMER_Clock \/ MCU_UpdateAnalog \/ Registers

TimersSpec == TimersInit /\ [][TimersNext]_timerVars

----------------------------------------------------------------------------

(* A timer or the converter asks only while its flag is up, so that a       *)
(* handler which clears the flag is not entered again for the same match.   *)
TimerRequests ==
  /\ \A t \in Frt : frt[t].asks => frt[t].ocfa
  /\ tmr.asks => tmr.cmfa
  /\ adc.asks => adc.adf
=============================================================================
