-------------------------------- MODULE Sci ----------------------------------
(* MIDI input: the ring between the cores that receive MIDI and the serial  *)
(* interface of the emulated processor (src/emulator/mcu.cpp), with the     *)
(* interrupts of its receiver and transmitter.                              *)
(*                                                                          *)
(* MCU_PostUART runs on core 1 (serial MIDI) and on core 0 (USB MIDI, SYX   *)
(* files, RD-500 patches), without a lock and without an order between its  *)
(* two stores; everything else here runs on core 2. When a byte time is     *)
(* over is left open: any later turn may receive or be done sending.        *)
EXTENDS Integers, Sequences

CONSTANTS
  Producers,  \* the cores that post bytes
  Ring,       \* uart_buffer_size
  MaxBytes,   \* bound: the bytes posted
  MaxResets   \* bound: the expansions replaced

ASSUME SciConstants ==
  Ring \in Nat \ {0, 1} /\ MaxBytes \in Nat /\ MaxResets \in Nat

VARIABLES
  ring,      \* uart_buffer with its write and read pointer, and midi_ready
  post,      \* what each core has done of MCU_PostUART
  sci,       \* SCR, SSR and RDR, ssr_rd, and the interrupts asked for
  firmware,  \* external: the flags it is about to clear
  posted,    \* ghost: how many bytes were posted
  sent,      \* ghost: those of them posted since the reset
  got,       \* ghost: those the firmware has read since
  crossed,   \* ghost: posts overlapped, went round the ring or over a reset
  resets     \* bound: how often SC55_Reset ran

sciVars == <<ring, post, sci, firmware, posted, sent, got, crossed, resets>>

NotPosting == [pc |-> "idle", at |-> 0, byte |-> 0]
Empty == [data |-> [k \in 0..Ring - 1 |-> 0], write |-> 0, read |-> 0,
          ready |-> FALSE]
\* MCU_DeviceReset: nothing to send, nothing enabled.
Quiet == [scr |-> {}, ssr |-> {"TDRE", "TEND"}, rdr |-> 0, rd |-> {},
          asks |-> {}]

Buffers == [data : [0..Ring - 1 -> 0..MaxBytes], write : 0..Ring - 1,
            read : 0..Ring - 1, ready : BOOLEAN]
Posts == [pc : {"idle", "begun", "stored", "moved"}, at : 0..Ring - 1,
          byte : 0..MaxBytes]
Interfaces == [scr : SUBSET {"TIE", "RIE", "TE", "RE"},
               ssr : SUBSET {"TDRE", "TEND", "RDRF"}, rdr : 0..MaxBytes,
               rd : SUBSET {"TDRE", "TEND", "RDRF"},
               asks : SUBSET {"RX", "TX"}]

SciTypeOK ==
  /\ ring \in Buffers /\ post \in [Producers -> Posts] /\ sci \in Interfaces
  /\ firmware \subseteq {"RDRF", "TDRE"}
  /\ posted \in 0..MaxBytes /\ resets \in 0..MaxResets
  /\ sent \in Seq(0..MaxBytes) /\ got \in Seq(0..MaxBytes)
  /\ crossed \in BOOLEAN

SciInit ==
  /\ ring = Empty /\ sci = Quiet
  /\ post = [c \in Producers |-> NotPosting]
  /\ firmware = {} /\ posted = 0 /\ sent = <<>> /\ got = <<>>
  /\ crossed = FALSE /\ resets = 0

----------------------------------------------------------------------------
(* MCU_PostUART.                                                            *)

Next1(k) == (k + 1) % Ring
Busy(c) == post[c].pc # "idle"

\* Nothing is posted until the firmware has set up its receiver. Bound: nor
\* after a crossing, until the next reset.
BeginPost(c) ==
  /\ ~Busy(c) /\ ring.ready /\ posted < MaxBytes /\ ~crossed
  /\ posted' = posted + 1
  /\ post' = [post EXCEPT ![c] = [pc |-> "begun", at |-> ring.write,
                                  byte |-> posted + 1]]
  /\ crossed' = (crossed \/ \E d \in Producers : Busy(d))
  /\ UNCHANGED <<ring, sci, firmware, sent, got, resets>>

\* The two stores, seen on core 2 in either order.
StoreByte(c) ==
  /\ post[c].pc \in {"begun", "moved"}
  /\ ring' = [ring EXCEPT !.data[post[c].at] = post[c].byte]
  /\ post' = [post EXCEPT ![c] = IF @.pc = "moved" THEN NotPosting
                                 ELSE [@ EXCEPT !.pc = "stored"]]
  /\ UNCHANGED <<sci, firmware, posted, sent, got, crossed, resets>>

\* The pointer is read again for its increment, or is still in a register.
MovePointer(c) ==
  /\ post[c].pc \in {"begun", "stored"}
  /\ \E k \in {post[c].at, ring.write} :
       /\ ring' = [ring EXCEPT !.write = Next1(k)]
       /\ crossed' = (crossed \/ Next1(k) = ring.read)
  /\ post' = [post EXCEPT ![c] = IF @.pc = "stored" THEN NotPosting
                                 ELSE [@ EXCEPT !.pc = "moved"]]
  /\ sent' = Append(sent, post[c].byte)
  /\ UNCHANGED <<sci, firmware, posted, got, resets>>

----------------------------------------------------------------------------
(* The serial interface.                                                    *)

\* Mutant: a byte that was not read yet is overwritten.
ReceiveAlways ==
  /\ "RE" \in sci.scr /\ ring.write # ring.read
  /\ sci' = [sci EXCEPT !.rdr = ring.data[ring.read], !.ssr = @ \cup {"RDRF"},
                        !.asks = (@ \ {"RX"}) \cup
                                 (IF "RIE" \in sci.scr THEN {"RX"} ELSE {})]
  /\ ring' = [ring EXCEPT !.read = Next1(@)]
  /\ crossed' = (crossed \/ \E c \in Producers : post[c].pc = "moved")
  /\ UNCHANGED <<post, firmware, posted, sent, got, resets>>

\* The request depends on RIE as it is now.
MCU_UpdateUART_RX ==
  /\ "RE" \in sci.scr /\ ring.write # ring.read /\ "RDRF" \notin sci.ssr
  /\ sci' = [sci EXCEPT !.rdr = ring.data[ring.read], !.ssr = @ \cup {"RDRF"},
                        !.asks = (@ \ {"RX"}) \cup
                                 (IF "RIE" \in sci.scr THEN {"RX"} ELSE {})]
  /\ ring' = [ring EXCEPT !.read = Next1(@)]
  /\ crossed' = (crossed \/ \E c \in Producers : post[c].pc = "moved")
  /\ UNCHANGED <<post, firmware, posted, sent, got, resets>>

MCU_UpdateUART_TX ==
  /\ "TE" \in sci.scr /\ "TDRE" \notin sci.ssr
  /\ sci' = [sci EXCEPT !.ssr = @ \cup {"TDRE", "TEND"},
                        !.asks = (@ \ {"TX"}) \cup
                                 (IF "TIE" \in sci.scr THEN {"TX"} ELSE {})]
  /\ UNCHANGED <<ring, post, firmware, posted, sent, got, crossed, resets>>

\* Mutant: the pending request of the transmitter stays.
WriteSCRKeepsTXI(s, value) == [s EXCEPT !.scr = value]

WriteSCR(s, value) ==
  [s EXCEPT !.scr = value, !.asks = IF "TIE" \in value THEN @ ELSE @ \ {"TX"}]

ReadSSR(s) == [s EXCEPT !.rd = s.ssr]

\* A flag that was read is cleared by writing 0, with its request. The rest
\* is stored as it was written, except TEND.
WriteSSR(s, value) ==
  LET send == "TDRE" \in s.rd \ value
      read == "RDRF" \in s.rd \ value
  IN [s EXCEPT !.ssr = (value \ {"TEND"}) \cup
                       (IF send THEN {} ELSE @ \cap {"TEND"}),
               !.asks = @ \ ((IF send THEN {"TX"} ELSE {})
                              \cup (IF read THEN {"RX"} ELSE {}))]

\* One instruction clears one bit: it reads the register and writes it.
ClearFlag(f) == WriteSSR(ReadSSR(sci), sci.ssr \ {f})

----------------------------------------------------------------------------
(* The firmware, external: it enables the interface, then the receiver's    *)
(* interrupt; its handler reads the byte and clears RDRF; it sends a byte   *)
(* when TDRE tells it may, and has the interrupt of that only at times.     *)

Enable ==
  \/ sci.scr = {} /\ sci' = WriteSCR(sci, {"TE", "RE"}) /\ UNCHANGED ring
  \/ /\ sci.scr = {"TE", "RE"}  \* reading this value makes midi_ready true
     /\ ring' = [ring EXCEPT !.ready = TRUE]
     /\ sci' = WriteSCR(sci, sci.scr \cup {"RIE"})

ReadRDR ==
  /\ "RX" \in sci.asks /\ firmware \cap {"RDRF"} = {}
  /\ got' = Append(got, sci.rdr)
  /\ firmware' = firmware \cup {"RDRF"}

WriteTDR == "TDRE" \in sci.ssr \ firmware /\ firmware' = firmware \cup {"TDRE"}

ClearBit(f) ==
  f \in firmware /\ sci' = ClearFlag(f) /\ firmware' = firmware \ {f}

ToggleTIE ==
  /\ "RIE" \in sci.scr
  /\ sci' = WriteSCR(sci, IF "TIE" \in sci.scr THEN sci.scr \ {"TIE"}
                          ELSE sci.scr \cup {"TIE"})

SciFirmware ==
  /\ \/ Enable /\ UNCHANGED <<got, firmware>>
     \/ ReadRDR /\ UNCHANGED <<ring, sci>>
     \/ WriteTDR /\ UNCHANGED <<ring, sci, got>>
     \/ \E f \in {"RDRF", "TDRE"} : ClearBit(f) /\ UNCHANGED <<ring, got>>
     \/ ToggleTIE /\ UNCHANGED <<ring, got, firmware>>
  /\ UNCHANGED <<post, posted, sent, crossed, resets>>

\* When the expansion is replaced: core 2 rests, whoever posts does not.
SC55_Reset ==
  /\ resets < MaxResets /\ resets' = resets + 1
  /\ ring' = Empty /\ sci' = Quiet /\ firmware' = {}
  /\ sent' = <<>> /\ got' = <<>>
  /\ crossed' = \E c \in Producers : Busy(c)
  /\ UNCHANGED <<post, posted>>

SciNext ==
  \/ \E c \in Producers : BeginPost(c) \/ StoreByte(c) \/ MovePointer(c)
  \/ MCU_UpdateUART_RX
  \/ MCU_UpdateUART_TX
  \/ SciFirmware
  \/ SC55_Reset

SciSpec == SciInit /\ [][SciNext]_sciVars

----------------------------------------------------------------------------

InRing == [k \in 1..(ring.write - ring.read) % Ring |->
           ring.data[(ring.read + k - 1) % Ring]]
Unread == IF "RDRF" \in sci.ssr /\ "RDRF" \notin firmware THEN <<sci.rdr>>
          ELSE <<>>

(* What MCU_PostUART takes reaches the firmware once, in order and with     *)
(* nothing left out: what the firmware has read, the byte it has not, and   *)
(* what the ring holds are together what was posted since the reset -- as   *)
(* long as no two posts overlap, none goes round the ring or across a reset *)
(* (nothing in the code prevents these), and the pointer is not seen to     *)
(* move before the byte is.                                                 *)
ReceivedInOrder ==
  ~crossed /\ (\A c \in Producers : post[c].pc # "moved") =>
    got \o Unread \o InRing = sent

(* The receiver never falls silent: with its interrupt enabled, a byte that *)
(* waits has asked for it; a byte that comes before it is enabled would     *)
(* hold back all others. The transmitter asks only while the firmware wants *)
(* it and TDR is empty.                                                     *)
SciRequests ==
  /\ ~crossed /\ "RIE" \in sci.scr => ("RDRF" \in sci.ssr <=> "RX" \in sci.asks)
  /\ "TX" \in sci.asks => "TIE" \in sci.scr /\ "TDRE" \in sci.ssr
=============================================================================
