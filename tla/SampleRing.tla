----------------------------- MODULE SampleRing -----------------------------
(***************************************************************************)
(* The lock-free ring of samples between core 3, which renders frames      *)
(* (Pcm::PCM_Update, MCU_PostSample), and core 2, which copies them to the *)
(* sound device and advances the firmware when it finds none.              *)
(*                                                                         *)
(* The ring counts 16-bit samples and only ever moves by stereo frames;    *)
(* here every index counts frames.  Indices are the code's free-running    *)
(* 64-bit counters, so differences wrap.                                   *)
(***************************************************************************)
EXTENDS Naturals, Sequences, FiniteSetsExt

CONSTANTS
  Size,        \* AUDIO_BUFFER_SIZE, in frames
  Modulus,     \* the range of the indices, a multiple of Size
  Chunk,       \* the most frames one pass of core 2 asks for
  MaxBacklog,  \* bound on the frames asked for and not yet taken
  Racing       \* TRUE: the ring is also reset beside the running cores

ASSUME SizeAssumption == Size \in Nat /\ Chunk \in 1..(Size - 1)
ASSUME ModulusAssumption ==
  Modulus \in Nat /\ Modulus % Size = 0 /\ Modulus > Size
ASSUME BacklogAssumption == MaxBacklog \in Nat \ {0} /\ Racing \in BOOLEAN

VARIABLES
  w, r,    \* sample_write_idx and sample_read_idx
  buf,     \* sample_buffer
  due,     \* frames the MCU's cycles ask for and the PCM has not begun
  made,    \* how many frames were rendered: the content of the next one
  ppc, cur,           \* core 3 in MCU_PostSample, and its copy of w
  cpc, cw, cr, copy,  \* core 2 in its copy loop, its copies of w and r, and
                      \* what it has copied to out_buf
  need,    \* frames core 2 still wants in this pass
  rpc,     \* the handler that resets the ring beside the cores
  calm     \* history: no such reset began, and core 2 has never been more
           \* than a ring ahead

producer == <<ppc, cur, made>>
consumer == <<cpc, cw, cr, copy, need>>
race     == <<rpc, calm>>
vars     == <<w, r, buf, due, producer, consumer, race>>

Index   == 0..(Modulus - 1)
Frames  == Size + 1   \* frames are told apart modulo Frames
Silence == Frames

Diff(a, b) == (a + Modulus - b) % Modulus
Plus(a, n) == (a + n) % Modulus
Slot(i)    == i % Size

Init ==
  /\ w = 0 /\ r = 0 /\ buf = [s \in 0..(Size - 1) |-> Silence]
  /\ due = 0 /\ made = 0 /\ ppc = "idle" /\ cur = 0
  /\ cpc = "idle" /\ cw = 0 /\ cr = 0 /\ copy = <<>> /\ need = 0
  /\ rpc = "off" /\ calm = TRUE

----------------------------------------------------------------------------
(* Core 3: MCU_PostSample, once per rendered frame.                        *)

\* Mutant: the write index is published before the frame is in the ring.
LoadWriteEarly ==
  /\ ppc = "idle" /\ due > 0
  /\ cur' = w /\ due' = due - 1 /\ w' = Plus(w, 1)
  /\ ppc' = "store" /\ UNCHANGED <<r, buf, made, consumer, race>>

LoadWrite ==
  /\ ppc = "idle" /\ due > 0
  /\ cur' = w /\ due' = due - 1
  /\ ppc' = "store" /\ UNCHANGED <<w, r, buf, made, consumer, race>>

StoreFrame ==
  /\ ppc = "store"
  /\ buf' = [buf EXCEPT ![Slot(cur)] = made]
  /\ ppc' = "check" /\ UNCHANGED <<w, r, due, cur, made, consumer, race>>

\* Mutant: the overflow test is off by one.
CheckRoomShort ==
  /\ ppc = "check"
  /\ ppc' = IF Diff(Plus(cur, 1), r) >= Size THEN "drop" ELSE "publish"
  /\ UNCHANGED <<w, r, buf, due, cur, made, consumer, race>>

CheckRoom ==
  /\ ppc = "check"
  /\ ppc' = IF Diff(Plus(cur, 1), r) > Size THEN "drop" ELSE "publish"
  /\ UNCHANGED <<w, r, buf, due, cur, made, consumer, race>>

DropOldest ==
  /\ ppc = "drop"
  /\ r' = Diff(Plus(cur, 1), Size)
  /\ ppc' = "publish" /\ UNCHANGED <<w, buf, due, cur, made, consumer, race>>

Publish ==
  /\ ppc = "publish"
  /\ w' = Plus(cur, 1) /\ made' = (made + 1) % Frames
  /\ ppc' = "idle" /\ cur' = 0 /\ UNCHANGED <<r, buf, due, consumer, race>>

PostSample == LoadWrite \/ StoreFrame \/ CheckRoom \/ DropOldest \/ Publish

----------------------------------------------------------------------------
(* Core 2: one pass fills out_buf with as many frames as the sound device  *)
(* has room for.                                                           *)

BeginPass ==
  /\ cpc = "idle"
  /\ need' \in 1..Chunk
  /\ cpc' = "load" /\ UNCHANGED <<w, r, buf, due, producer, cw, cr, copy, race>>

LoadWriteIdx ==
  /\ cpc = "load"
  /\ cw' = w
  /\ cpc' = "loadr" /\ UNCHANGED <<w, r, buf, due, producer, cr, copy, need, race>>

LoadReadIdx ==
  /\ cpc = "loadr"
  /\ IF cw = r THEN cw' = 0 /\ cr' = 0 /\ cpc' = "burst"
               ELSE cw' = cw /\ cr' = r /\ cpc' = "copy"
  /\ UNCHANGED <<w, r, buf, due, producer, copy, need, race>>

\* Mutant: all that is there is copied, wanted or not.
CopyAll == Diff(cw, cr)

ToCopy == Min({need, Diff(cw, cr)})

\* The two memcpy of one turn, a frame at a time, up to the wrapped end.
CopyFrame ==
  /\ cpc = "copy" /\ Len(copy) < ToCopy
  /\ copy' = Append(copy, buf[Slot(cr + Len(copy))])
  /\ UNCHANGED <<w, r, buf, due, producer, cpc, cw, cr, need, race>>

StoreRead ==
  /\ cpc = "copy" /\ Len(copy) = ToCopy
  /\ r' = Plus(cr, Len(copy))
  /\ need' = need - Len(copy)
  /\ cpc' = IF need' = 0 THEN "idle" ELSE "load"
  /\ cw' = 0 /\ cr' = 0 /\ copy' = <<>>
  /\ UNCHANGED <<w, buf, due, producer, race>>

\* Frames the firmware has asked for and core 2 has not taken.
Ahead == due + Diff(w, r) + (IF ppc = "idle" THEN 0 ELSE 1)

\* Mutant: the instructions run but their cycles are not counted.
RunBurstUncounted ==
  /\ cpc = "burst" /\ cpc' = "load"
  /\ UNCHANGED <<w, r, buf, due, producer, cw, cr, copy, need, race>>

\* Bursts of instructions, up to the one that makes the next frame due (9
\* cycles an instruction, 64 a burst, 625 cycles a frame).
RunBurst ==
  /\ cpc = "burst"
  /\ due' = IF Ahead < MaxBacklog THEN due + 1 ELSE due
  /\ cpc' = "load" /\ UNCHANGED <<w, r, buf, producer, cw, cr, copy, need, rpc>>
  /\ calm' = (calm /\ Ahead' <= Size)

OutputPass ==
  \/ BeginPass \/ LoadWriteIdx \/ LoadReadIdx \/ CopyFrame \/ StoreRead \/ RunBurst

----------------------------------------------------------------------------
(* Resets.                                                                 *)

Emptied == [s \in 0..(Size - 1) |-> Silence]

\* Mutant: the reset forgets the read index.
SC55_ResetWrite ==
  /\ ppc = "idle" /\ cpc \in {"idle", "load", "burst"}
  /\ w' = 0 /\ buf' = Emptied /\ due' = 0
  /\ cpc' = "idle" /\ need' = 0
  /\ UNCHANGED <<r, producer, cw, cr, copy, race>>

\* SC55_Reset within ReplaceExpansionSafe: both cores are at rest, the MCU's
\* and the PCM's cycles restart together, and a pass begun is given up.
SC55_Reset ==
  /\ ppc = "idle" /\ cpc \in {"idle", "load", "burst"}
  /\ w' = 0 /\ r' = 0 /\ buf' = Emptied /\ due' = 0
  /\ cpc' = "idle" /\ need' = 0
  /\ UNCHANGED <<producer, cw, cr, copy, race>>

\* The handler's own reset, which runs after ReplaceExpansionSafe has resumed
\* the cores (see EnginePause, UnderPause): three stores.
ResetWrite ==
  /\ Racing /\ rpc = "off"
  /\ w' = 0 /\ rpc' = "read" /\ calm' = FALSE
  /\ UNCHANGED <<r, buf, due, producer, consumer>>

ResetRead ==
  /\ rpc = "read"
  /\ r' = 0 /\ rpc' = "clear"
  /\ UNCHANGED <<w, buf, due, producer, consumer, calm>>

ResetBuffer ==
  /\ rpc = "clear"
  /\ buf' = Emptied /\ rpc' = "done"
  /\ UNCHANGED <<w, r, due, producer, consumer, calm>>

ResetRing == ResetWrite \/ ResetRead \/ ResetBuffer

Next == PostSample \/ OutputPass \/ SC55_Reset \/ ResetRing

Spec == Init /\ [][Next]_vars

\* Cores 2 and 3 loop for ever.
FairSpec == Spec /\ WF_vars(PostSample) /\ WF_vars(OutputPass)

----------------------------------------------------------------------------
\* Whatever the indices are, after an overflow or a racing reset too, core 2
\* never copies more than it asked for: out_buf, as large as the ring, does not
\* overflow.  Indices and contents keep their ranges.
TypeOK ==
  /\ {w, r, cw, cr, cur} \subseteq Index /\ made \in 0..(Frames - 1)
  /\ buf \in [0..(Size - 1) -> 0..Silence]
  /\ due \in 0..MaxBacklog
  /\ ppc \in {"idle", "store", "check", "drop", "publish"}
  /\ cpc \in {"idle", "load", "loadr", "copy", "burst"}
  /\ rpc \in {"off", "read", "clear", "done"}
  /\ need \in 0..Chunk /\ (cpc = "copy" => Len(copy) <= need)

\* As long as core 2 was never more than a ring ahead, the ring never claims
\* to hold more frames than it has slots.
RingValid == calm => Diff(w, r) <= Size

\* A reset that is over has left a ring core 2 can go on with.
ResetEmpties == rpc = "done" => Diff(w, r) <= Size

Unread == [k \in 1..Diff(w, r) |-> buf[Slot(r + k - 1)]]

\* What core 2 has copied is the oldest unread frames: none is lost, repeated,
\* read before it is written or overwritten while it is copied.
CopiesOldest ==
  calm /\ cpc = "copy" =>
    Len(copy) <= Len(Unread) /\ \A k \in 1..Len(copy) : copy[k] = Unread[k]

\* As long as core 2 was never more than a ring ahead, each step of the ring is
\* a step of a bounded queue.
Queue == INSTANCE SampleQueue WITH
  queue <- Unread, next <- made, Modulus <- Frames

RefinesQueue == [][calm' => [Queue!Next]_<<Unread, made>>]_vars

\* A pass that wants frames gets them.
PassEnds == (need > 0) ~> (need = 0)
=============================================================================
