------------------------------ MODULE CardRam ------------------------------
(***************************************************************************)
(* The emulated JV-880 memory card: the 32 KB buffer the firmware writes   *)
(* on core 2 (MCU_Write, pages 14 and 15), and its persistence by the main *)
(* loop on core 0 (CMiniJV880::FlushCardRAMIfNeeded and                    *)
(* WriteCardRamFileAtomic), with storage errors and power cycles.          *)
(*                                                                         *)
(* Core 2 publishes one firmware write as three stores, plain or relaxed:  *)
(* the byte, cardram_dirty, cardram_seq.  Core 0 copies the buffer between *)
(* two reads of cardram_seq, without a lock.  Nothing orders the stores,   *)
(* nor the loads of core 0: each place of the memory only has its own      *)
(* stores in order.  So a store is on its way until core 0's loads return  *)
(* it, and it comes before or after those to other places as it likes;     *)
(* that a load is performed early is that a store comes late.  The active  *)
(* path is fixed here; CardStore models how it is chosen.                  *)
(***************************************************************************)
EXTENDS Naturals, FiniteSets

CONSTANTS
  Cell,       \* the byte addresses of the card buffer
  Val,        \* the byte values
  Blank,      \* 0xFF, the value of every byte of a card that did not load
  Missing,    \* no file under a name
  Partial,    \* a file that does not hold a whole image
  MaxTries,   \* snapshot attempts of one flush (3 in the code)
  MaxWrites,  \* bound: firmware writes, one fewer after a power cycle
  MaxMixed,   \* bound: the first of them, whose stores come in any order;
              \* those after come in order, and follow on such alone
  MaxFaults,  \* bound: storage calls that fail
  MaxCycles   \* bound: power cycles

Image == [Cell -> Val]

ASSUME CardAssumption ==
  /\ Blank \in Val
  /\ Missing \notin Image /\ Partial \notin Image /\ Missing # Partial
  /\ MaxTries \in Nat \ {0}
  /\ MaxWrites \in Nat /\ MaxMixed \in Nat
  /\ MaxFaults \in Nat /\ MaxCycles \in Nat

VARIABLES
  written,   \* MCU_Writes of this boot
  ram,       \* mcu.cardram as the firmware sees it
  bytes,     \* the stores to mcu.cardram on their way
  marked,    \* how many stores to cardram_dirty have come
  seq,       \* mcu.cardram_seq as core 0 sees it: how many increments came
  seen,      \* mcu.cardram as core 0 sees it
  dirty,     \* mcu.cardram_dirty as core 0 sees it
  fpc,       \* where core 0 is in FlushCardRAMIfNeeded
  try, s1,   \* the loop counter attempt, and the first read of cardram_seq
  copied,    \* bytes the memcpy of this attempt has read
  snap,      \* the static buffer snap
  stable,    \* the loop was left by its break
  final, tmp,   \* what the SD card holds under the active and the temp name
  syx,       \* the SYX menu is open: Process returns before the flush
  held,      \* history: images core 0 saw since s1 was read
  reordered, \* history: in this attempt core 0 saw a store before an earlier
             \* one of core 2
  excused,   \* history: bytes with a store on its way while a flush was in
             \* progress, or that the boot could not read
  faults, cycles  \* counters of the two bounded kinds of accident

stores == <<written, ram, bytes, marked, seq, seen>>
loop   == <<try, s1, copied, snap, stable>>
card   == <<final, tmp>>
ghosts == <<held, reordered, excused>>
bound  == <<faults, cycles>>
vars   == <<stores, dirty, fpc, loop, card, syx, ghosts, bound>>

Writing  == {"open", "write", "sync", "unlink", "rename", "clear"}
FlushPcs == {"idle", "seq1", "copy", "seq2"} \cup Writing

TypeOK ==
  /\ written \in Nat /\ ram \in Image
  /\ bytes \subseteq [n : 1..written, cell : Cell, val : Val]
  /\ marked \in 0..written /\ seq \in 0..written
  /\ seen \in Image /\ dirty \in BOOLEAN
  /\ fpc \in FlushPcs
  /\ try \in 0..(MaxTries - 1) /\ s1 \in Nat
  /\ copied \in SUBSET Cell /\ snap \in Image /\ stable \in BOOLEAN
  /\ final \in Image \cup {Missing}
  /\ tmp \in Image \cup {Missing, Partial}
  /\ syx \in BOOLEAN /\ reordered \in BOOLEAN
  /\ held \in SUBSET Image /\ excused \in SUBSET Cell
  /\ faults \in 0..MaxFaults /\ cycles \in 0..MaxCycles

\* The image a boot loads when the active file is f.
Loaded(f) == IF f \in Image THEN f ELSE [c \in Cell |-> Blank]

Init ==
  /\ final \in Image \cup {Missing} /\ tmp = Missing
  /\ seen = Loaded(final) /\ dirty = FALSE
  /\ written = 0 /\ ram = seen
  /\ bytes = {} /\ marked = 0 /\ seq = 0
  /\ fpc = "idle" /\ try = 0 /\ s1 = 0 /\ copied = {}
  /\ snap = [c \in Cell |-> Blank] /\ stable = FALSE
  /\ held = {} /\ reordered = FALSE
  /\ syx = FALSE /\ excused = {}
  /\ faults = 0 /\ cycles = 0

----------------------------------------------------------------------------
(* Core 2: the firmware writes to page 14 or 15.                           *)

\* The cells with a store on its way.
Late == {b.cell : b \in bytes}

\* The stores that have come are the first ones in program order: of each
\* write the byte, the flag, the count.
Prefix ==
  /\ marked \in {seq, seq + 1}
  /\ \A b \in bytes : b.n > marked
  /\ \A n \in (marked + 1)..written :
       n > marked + 1 \/ marked > seq => \E b \in bytes : b.n = n

MCU_Write(c, v) ==
  /\ written + cycles < MaxWrites
  /\ written + cycles >= MaxMixed => Prefix /\ ~reordered
  /\ written' = written + 1
  /\ ram' = [ram EXCEPT ![c] = v]
  /\ bytes' = bytes \cup {[n |-> written + 1, cell |-> c, val |-> v]}
  /\ excused' = IF fpc = "idle" THEN excused ELSE excused \cup {c}
  /\ UNCHANGED <<marked, seq, seen, dirty, fpc, loop, card, syx, held,
                 reordered, bound>>

\* What the coming of a store says about the order.
Ordered ==
  /\ written + cycles > MaxMixed => Prefix'
  /\ reordered' = (reordered \/ (fpc \in {"copy", "seq2"} /\ ~Prefix'))

StoreByte(b) ==
  /\ \A d \in bytes : d.cell = b.cell => b.n <= d.n
  /\ bytes' = bytes \ {b}
  /\ seen' = [seen EXCEPT ![b.cell] = b.val]
  /\ held' = IF fpc \in {"copy", "seq2"} THEN held \cup {seen'} ELSE held
  /\ UNCHANGED <<written, ram, marked, seq, dirty, fpc, loop, card, syx,
                 excused, bound>>
  /\ Ordered

StoreDirty ==
  /\ marked < written
  /\ marked' = marked + 1 /\ dirty' = TRUE
  /\ UNCHANGED <<written, ram, bytes, seq, seen, fpc, loop, card, syx, held,
                 excused, bound>>
  /\ Ordered

StoreSeq ==
  /\ seq < written
  /\ seq' = seq + 1
  /\ UNCHANGED <<written, ram, bytes, marked, seen, dirty, fpc, loop, card, syx,
                 held, excused, bound>>
  /\ Ordered

Visible == (\E b \in bytes : StoreByte(b)) \/ StoreDirty \/ StoreSeq

----------------------------------------------------------------------------
(* Core 0: the snapshot loop of FlushCardRAMIfNeeded.                      *)

\* Mutant: the flag is taken down when the flush begins.
EnterFlushClearing ==
  /\ fpc = "idle" /\ dirty
  /\ dirty' = FALSE
  /\ fpc' = "seq1"
  /\ excused' = Late
  /\ UNCHANGED <<stores, held, reordered, loop, card, syx, bound>>

EnterFlush ==
  /\ fpc = "idle" /\ dirty
  /\ fpc' = "seq1"
  /\ excused' = Late
  /\ UNCHANGED <<stores, dirty, held, reordered, loop, card, syx, bound>>

\* Every 1024th pass of Process, unless the SYX menu makes it return early.
PeriodicFlush == ~syx /\ EnterFlush

\* MiniJV880_FlushCardRamIfNeededNow, from the HTTP select and rename pages.
ManualFlush == EnterFlush

ReadSeq1 ==
  /\ fpc = "seq1"
  /\ fpc' = "copy" /\ s1' = seq /\ copied' = {}
  /\ held' = {seen} /\ reordered' = ~Prefix
  /\ UNCHANGED <<stores, dirty, try, snap, stable, card, syx, excused, bound>>

\* Mutant: the memcpy is a byte short.
CopyByteShort(c) ==
  /\ fpc = "copy" /\ c \notin copied
  /\ snap' = [snap EXCEPT ![c] = seen[c]]
  /\ copied' = copied \cup {c}
  /\ fpc' = IF Cardinality(Cell \ copied') <= 1 THEN "seq2" ELSE "copy"
  /\ UNCHANGED <<stores, dirty, try, s1, stable, card, syx, ghosts, bound>>

CopyByte(c) ==
  /\ fpc = "copy" /\ c \notin copied
  /\ snap' = [snap EXCEPT ![c] = seen[c]]
  /\ copied' = copied \cup {c}
  /\ fpc' = IF copied' = Cell THEN "seq2" ELSE "copy"
  /\ UNCHANGED <<stores, dirty, try, s1, stable, card, syx, ghosts, bound>>

\* Mutant: the two reads are not compared.
ReadSeq2Trusting ==
  /\ fpc = "seq2"
  /\ stable' = TRUE /\ fpc' = "open"
  /\ s1' = 0 /\ copied' = {}
  /\ UNCHANGED <<stores, dirty, try, snap, card, syx, ghosts, bound>>

ReadSeq2 ==
  /\ fpc = "seq2"
  /\ stable' = (s1 = seq)
  /\ IF stable' \/ try + 1 = MaxTries
     THEN fpc' = "open" /\ UNCHANGED try
     ELSE fpc' = "seq1" /\ try' = try + 1
  /\ s1' = 0 /\ copied' = {}
  /\ UNCHANGED <<stores, dirty, snap, card, syx, ghosts, bound>>

----------------------------------------------------------------------------
(* Core 0: WriteCardRamFileAtomic.  Until f_sync has returned, the temp    *)
(* file is not a whole image on the card.  The result of f_close is        *)
(* ignored, so the close is part of the step after the sync.               *)

\* The flush returns: its locals are gone, and what it leaves in snap is never
\* read again.
Return ==
  /\ fpc' = "idle" /\ try' = 0 /\ s1' = 0 /\ copied' = {}
  /\ snap' = [c \in Cell |-> Blank] /\ stable' = FALSE
  /\ held' = {} /\ reordered' = FALSE

Proceed(pc) == fpc' = pc /\ UNCHANGED <<loop, held, reordered>>

Fault == faults < MaxFaults /\ faults' = faults + 1
NoFault == UNCHANGED faults

\* The error returns: the clean-up f_unlink(tmpName) may fail as well.
Abandon ==
  /\ Return /\ tmp' \in {Missing, tmp}
  /\ Fault /\ UNCHANGED final

OpenTmp ==
  /\ fpc = "open"
  /\ \/ Proceed("write") /\ tmp' = Partial /\ NoFault
     \/ Return /\ Fault /\ UNCHANGED tmp
  /\ UNCHANGED <<stores, dirty, final, syx, excused, cycles>>

WriteTmp ==
  /\ fpc = "write"
  /\ \/ Proceed("sync") /\ NoFault /\ UNCHANGED card
     \/ Abandon
  /\ UNCHANGED <<stores, dirty, syx, excused, cycles>>

\* Mutant: the result of f_sync is ignored.
SyncTmpUnchecked ==
  /\ fpc = "sync" /\ Proceed("unlink")
  /\ \/ tmp' = snap /\ NoFault
     \/ tmp' = Partial /\ Fault
  /\ UNCHANGED <<stores, dirty, final, syx, excused, cycles>>

SyncTmp ==
  /\ fpc = "sync"
  /\ \/ Proceed("unlink") /\ tmp' = snap /\ NoFault /\ UNCHANGED final
     \/ Abandon
  /\ UNCHANGED <<stores, dirty, syx, excused, cycles>>

\* Mutant: the old file is left in the way of the rename.
UnlinkFinalForgotten ==
  /\ fpc = "unlink" /\ Proceed("rename")
  /\ UNCHANGED <<stores, dirty, card, syx, excused, bound>>

\* The result of f_unlink(finalName) is only logged.
UnlinkFinal ==
  /\ fpc = "unlink" /\ Proceed("rename")
  /\ \/ final' = Missing /\ NoFault
     \/ Fault /\ UNCHANGED final
  /\ UNCHANGED <<stores, dirty, tmp, syx, excused, cycles>>

\* Mutant: a rename that was refused counts as done.
RenameTmpTrusting ==
  /\ fpc = "rename"
  /\ \/ /\ final = Missing
        /\ final' = tmp /\ tmp' = Missing /\ Proceed("clear") /\ NoFault
     \/ final # Missing /\ Proceed("clear") /\ NoFault /\ UNCHANGED card
     \/ Abandon
  /\ UNCHANGED <<stores, dirty, syx, excused, cycles>>

\* f_rename refuses an existing target (FR_EXIST): that is no new fault.
RenameTmp ==
  /\ fpc = "rename"
  /\ \/ /\ final = Missing
        /\ final' = tmp /\ tmp' = Missing /\ Proceed("clear") /\ NoFault
     \/ /\ final # Missing
        /\ Return /\ tmp' \in {Missing, tmp}
        /\ NoFault /\ UNCHANGED final
     \/ Abandon
  /\ UNCHANGED <<stores, dirty, syx, excused, cycles>>

ClearDirty ==
  /\ fpc = "clear"
  /\ dirty' = FALSE /\ Return
  /\ UNCHANGED <<stores, card, syx, excused, bound>>

FlushStep ==
  \/ ReadSeq1 \/ (\E c \in Cell : CopyByte(c)) \/ ReadSeq2
  \/ OpenTmp \/ WriteTmp \/ SyncTmp \/ UnlinkFinal \/ RenameTmp \/ ClearDirty

----------------------------------------------------------------------------
(* The user opens or closes the SYX menu, between two passes of Process.   *)

ToggleSyx ==
  /\ fpc = "idle"
  /\ syx' = ~syx
  /\ UNCHANGED <<stores, dirty, fpc, loop, card, ghosts, bound>>

\* Power is lost at any moment; the next boot loads the active file, or a
\* blank card when it is missing or cannot be read.
PowerCycle ==
  /\ cycles < MaxCycles /\ cycles' = cycles + 1
  /\ \/ seen' = Loaded(final) /\ excused' = {} /\ NoFault
     \/ seen' = [c \in Cell |-> Blank] /\ excused' = Cell /\ Fault
  /\ written' = 0 /\ ram' = seen'
  /\ bytes' = {} /\ marked' = 0 /\ seq' = 0 /\ dirty' = FALSE
  /\ Return /\ syx' = FALSE
  /\ UNCHANGED card

Next ==
  \/ (\E c \in Cell, v \in Val : MCU_Write(c, v)) \/ Visible
  \/ PeriodicFlush \/ ManualFlush \/ FlushStep \/ ToggleSyx \/ PowerCycle

Spec == Init /\ [][Next]_vars

\* Core 0 goes on with a flush, and Process reaches its 1024th pass.
Fairness == WF_vars(FlushStep) /\ WF_vars(PeriodicFlush)

FairSpec == Spec /\ Fairness

----------------------------------------------------------------------------
(* What the design promises.                                               *)

\* A snapshot accepted because cardram_seq did not change between the two
\* reads is an image that core 0 saw since the first of them, all bytes at
\* once, though the copy is not atomic and cardram_seq is bumped after the
\* byte: unless in the attempt a store was seen before an earlier one, against
\* which the code does nothing.
StableSnapshotCoherent ==
  fpc \in Writing /\ stable /\ ~reordered =>
    snap \in held

\* With the dirty flag down and no store on its way, in whatever order they
\* came, the file and the buffer differ only in bytes with a store on its way
\* while a flush was in progress (or that the boot could not read): no write
\* that core 0 could see when a flush began, and none after it, is lost.
LossOnlyFromRacingStores ==
  ~dirty /\ bytes = {} /\ marked = written =>
    \A c \in Cell \ excused : Loaded(final)[c] = ram[c]

\* "Recent writes are not lost": with the dirty flag down, no flush running
\* and no store on its way, the file is the buffer.
CleanMeansSaved ==
  ~dirty /\ bytes = {} /\ marked = written /\ fpc = "idle" /\ final # Missing =>
    final = ram

\* cardram_dirty goes down only when the file is the snapshot, or by a
\* power cycle: a flush that failed at any step leaves it up for the next.
DirtyClearedOnlyBySave ==
  [][dirty /\ ~dirty' => final = snap \/ cycles' # cycles]_vars

\* A write that made the card dirty is followed by a successful flush,
\* unless the SYX menu is open or a power cycle forgets the write.
DirtyIsFlushed == dirty ~> (~dirty \/ syx)

\* A flush as SavedCard sees it.
Step ==
  CASE fpc = "idle" -> "idle"
    [] fpc \in {"unlink", "rename"} -> "ready"
    [] fpc = "clear" -> "done"
    [] OTHER -> "copying"
Copies ==
  CASE fpc = "idle" -> 0 [] fpc = "seq1" -> try [] OTHER -> try + 1
Ready == IF fpc \in {"unlink", "rename"} THEN tmp ELSE Missing

Saved == INSTANCE SavedCard WITH
  card <- seen, saved <- final, step <- Step, copies <- Copies,
  since <- held, ready <- Ready, Tries <- MaxTries

\* The snapshots, the stores in any order, the temp file and the failing calls
\* come to saves: the old file goes only when a copy is whole under the temp
\* name, each byte of what takes its place is one the card had, as core 0 sees
\* it, since that copy began, and the flag goes down only after that.
RefinesSavedCard == Saved!Spec
=============================================================================
