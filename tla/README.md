# A verification project for MiniJV880

MiniJV880 runs an emulated Roland JV-880 on a bare-metal Raspberry Pi.  Its four
cores share memory without locks, it keeps the emulated memory card and every
other file on one SD card, and it serves that card over HTTP and TFTP.

| Core | Runs |
|---|---|
| 0 | main loop: `CKernel::Run`, `CMiniJV880::Process`, user interface, card flush, Circle's cooperative network tasks (HTTP, TFTP), the dial's interrupt, USB MIDI |
| 1 | serial MIDI |
| 2 | the emulated MCU and the audio output |
| 3 | the emulated tone generator (PCM) |

Line numbers below are of `src/src/`; `PROJECT.json` maps every definition to the
lines it models and lists each hazard at the line where it bites.

## 1. Inventory

| Component | State it keeps | Operations | Hard because of | Correct means |
|---|---|---|---|---|
| CARD-RAM persistence (`mcu.cpp`, `minijv880.cpp`) | 32 KB buffer, dirty flag, sequence number, file and temp file | firmware write (3 stores), snapshot, write-sync-unlink-rename, boot load | core 2 stores while core 0 copies, nothing orders either; failing calls; power cuts | an accepted snapshot is a real image (if the stores come in order), no write is lost but those of a racing flush, the old file goes only after the new one is whole |
| Engine pause (`userinterface.cpp`, `minijv880.cpp`, `mcu.cpp`) | `m_globalPause`, `core2_idle`, `core3_idle` | pause, wait, replace the ROM or the NVRAM patch, reset, resume | stale idle flags, nested resume, three contexts that run the handler | nobody touches the machine while it is replaced; the wait ends; the engine resumes |
| Sample ring (`mcu.h`, `minijv880.cpp`, `pcm.cpp`) | 64-bit write and read index, buffer | post (core 3), copy and advance (core 2), reset (core 0) | lock-free, three writers of the read index, wrapping differences | a bounded FIFO; every pass gets its frames |
| CARD-RAM collection (`netfileserver.cpp`, `minijv880.cpp`) | `current.txt`, active path, the card files | select, rename, delete over HTTP; flush; boot | several storage calls per request, power cuts, uploads in between | the selection loads, a clean card is on disk, no upload replaces a card |
| TFTP daemon (`netfileserver.cpp`) | open file, mode, kind flags, byte counter, paths | FileOpen, FileCreate, FileWrite, FileClose | flags outlive transfers; a transfer ends at any time; another request takes the temp file away | each upload is closed by the rules of its own kind |
| Kernel and ini maintenance (`netfileserver.cpp`) | active, stage and backup files, detected boot layout | activate, roll back, delete backup, reboot | two renames without a transaction, a layout that is detected afresh | what runs keeps a copy on the card; one failure never takes the kernel |
| SYX files (`netfileserver.cpp`) | folders and files of `PN-JV80` | chunked upload by a page's script, copy, move, rename, delete, folder operations | stateless chunks, shared temp names, folders renamed under an upload | published files are whole; no request loses another's file |
| Overlays and `Process` (`minijv880.cpp`, `userinterface.cpp`) | SR, RD-500, Browse and SysEx menus, LCD snapshot, UTILITY sequence, injected buttons, three trackers of ENTER and one of DATA | a frame; open, close, step back, scroll, select | state of one key in several static locals, decided in one frame and used in another; three cores | one hold does one thing; a key that is a menu's is not the firmware's; the native screen comes back |
| Remote control (`minijv880.cpp`) | masks of held, tapped, holding and releasing keys, dial counter | down, up, tap, clear, turn; take per frame | masks consumed over several frames | every tap is pressed and released, a hold stays |
| MIDI input (`minijv880.cpp`, `mcu.cpp`) | UART receive ring, receiver flags; held keys, timed ENTER | parse, post, receive interrupt | two producers, no full test, a reset in between | bytes arrive once and in order; the receiver never falls silent |
| Buttons and dial (`uibuttons.cpp`, `robustencoder.cpp`) | debounce and click counters; quadrature code and accumulator | read, edge | bounces, timeouts, lost edges | one event per press, no turn that was not made |
| LCD read-back (`minijv880.cpp`) | play mode, its base, candidate and emitted text, counters | a frame | throttled reports of a page that changes | the page that stays is reported |
| MCU interpreter (`mcu.cpp`, `mcu.h`, `mcu_opcodes.cpp`) | registers, page registers, SR, memory | instruction, interrupt, trap | an interrupt anywhere, masks saved with SR | a program's result does not depend on what interrupted it; levels nest |
| Peripherals (`mcu.cpp`) | FRT1–3, 8-bit timer, converter, serial interface, gate array | clock, register reads and writes, a line raised on another core | read-then-write protocol of flags; requests kept apart from flags | no request without its reason, no reason without its request |
| WLAN (`wlanbringup.cpp`, `kernel.cpp`) | bring-up phase, hold-off time | bring up, retry, start services | external stack | not modelled, see 7 |
| PCM voices, LCD drawing, configuration, resources, log | — | — | data processing | not modelled, see 7 |

Interaction: `Process` calls the flush; the ENTER handlers pause the engine and
reset the sample ring; the HTTP card pages call the flush before they rename or
select; HTTP pages and the TFTP daemon meet in the files of the SD card, by name
and by temp name, and nowhere else.  The front panel reaches the processor by
three ways only: the key matrix and the dial's line of the gate array, the bytes
of a SYX file or an RD-500 patch posted into the MIDI ring, and the engine pause.
The processor reaches the panel by the LCD.

## 2. Modules

```
SavedCard      <- CardRam (INSTANCE, refinement) <- MCCardRam, CardRam_proofs
EnginePause    <- MCEnginePause, EnginePause_proofs
SampleQueue    <- SampleRing (INSTANCE, refinement) <- MCSampleRing, SampleRing_proofs
CardShelf      <- CardStore (INSTANCE, refinement)
TFTP           <- CardStore <- MCCardStore, CardStore_proofs
SyxFolders     <- NetFiles (INSTANCE, refinement)
TFTP           <- Staging, PNFiles <- NetFiles <- MCNetFiles, NetFiles_proofs
UIButton, RobustEncoder    <- Controls
Overlays, UIButton, Remote <- Panel <- Panel_proofs
Alu            <- Cpu <- MCCpu
Controls, LcdWatch, Sci, Timers, GateArray <- Peripherals_proofs
Panel, Controls, LcdWatch, Cpu, Sci, Timers, GateArray <- Instrument
Instrument, MCCpu <- MCInstrument
Instrument, Panel_proofs, Peripherals_proofs <- Instrument_proofs
```

### Storage and engine

**CardRam.** `MCU_Write` sends three stores on their way; `StoreByte`, `StoreDirty` and
`StoreSeq` are their coming to core 0.  They are plain or relaxed, and so are core 0's
loads, on a weakly ordered processor: they come in any order, only each byte's, the
flag's and the count's own stores stay in theirs.  A load that core 0 performs early is
a store that comes late.  `ram` is the card as the firmware sees it, `seen` as core 0
does.  `MaxMixed` bounds the writes whose stores come in any order: later ones come in
program order, where all before them have.
`EnterFlush`, `ReadSeq1`, `CopyByte`, `ReadSeq2` are the snapshot loop of
`FlushCardRAMIfNeeded`; `OpenTmp` to `ClearDirty` are the calls of
`WriteCardRamFileAtomic`, each of which may fail; `PowerCycle` is the boot load.
`SavedCard` is what all this promises in any order: a save copies the card, a few times
at most; each byte of its last copy is one the card had, as core 0 sees it, since that
copy began; only when the copy is whole the old file goes, the copy takes its place, the
flag goes down.  That the copy was at one moment the card is no part of it: three
attempts may all be unstable, and one that looks stable may be torn (section 3).  In it
the copy is one step, a byte and the flag come each for itself, and a save may fail at
any of its steps; that there is a moment without a file is part of the promise.

**EnginePause.** One loop per engine core around `m_globalPause` (`Core2Run`,
`Core3Run`) and one handler per controller, for an SR expansion, an RD-500 patch
with or without the expansion swap, and a patch that a check refuses.  The request
flag has no owner: who finishes resumes the engine for all (`Resume`), and a ghost
(`resumed`) remembers under whose request.

**SampleRing.** `PostSample` (core 3) and `OutputPass` (core 2) with each shared
load and store a step of its own; `SC55_Reset` under the pause and `ResetRing`,
the handler's second reset, beside the running cores.  Indices count stereo
frames and wrap at `Modulus`.  `SampleQueue` is what the ring promises.

**TFTP.** The four handlers of the daemon for cards, SYX files, kernels and the
ini.  `final` and `temp` give each name's file; `held` is the temp file behind the
daemon's handle, by the name it has now, since other requests rename or remove it.

**CardStore** extends TFTP with `current.txt`, the active path, the three HTTP
requests, the flush and the boot.  One request is a sequence of storage calls,
`pc` names the next one; nothing but the firmware's edits and a power cut comes
between them.  The flush's snapshot, `CardRam`'s subject, is one step here.
`CardShelf` is what its users see: a shelf of card files, the one chosen for the
next boot and the one that is running.  A select, a rename, a delete, a save and
the arrival of a card are one step each, and one failing call or power cut costs
one thing at most.  Under the refinement mapping (`FileOnShelf`, `Chosen`) the
snapshot is the file while a save replaces it, and a rename of the selected card,
which is two renames with a moment without a selection between them, happens when
`current.txt` has followed.

**Staging** models `/kernel-activate-exec` and `/ini-apply-exec` call by call, and
`DetectBootLayout` as `Managed`.  **PNFiles** models the upload page with its
script (`at`, `next` are the script's position), the three upload handlers and
the file and folder requests.  **NetFiles** runs both with TFTP on one SD card.
`SyxFolders` is what the users of the SYX files see: files in folders, who is
sending which name, and the copy in progress.  A file appears when its sender
publishes it or its copy is done, under a name that is free, goes by a move or a
delete, and travels with its folder; an accident leaves at most the empty target of a
copy.  Temp files and chunks are not in it, nor is a copy's target before the copy
ends (`OnCard`).  What is left of the temp files is `adrift`: a page that takes the
daemon's away may turn the blocks that follow against the file of that one name.

### Front panel

**UIButton** and **RobustEncoder** are the code's two pure state machines, one
call of `CUIButton::ReadTrigger` and one edge interrupt.  **Controls** drives them
with contacts: presses and bounces at any read, and edges of which one between
two rest positions may be lost.

**Overlays** is what a menu does to one record of the panel's state: `Save` and
`Draw` are the snapshot and the drawing, `RequestCloseSRMenu`, `EnterEvent`,
`LongBack`, `ExitSYXMenu`, `TurnKnob` the handlers, `UtilityFrame` one frame of the
injected UTILITY sequence, at whose end `RestoreLCDOverlaySnapshot` puts the native
screen back.  **Remote** is the masks of the HTTP keys and their three-frame tap.
**Panel** is `CMiniJV880::Process`: three steps (`ReadInputs`, `ReadData`, then
`MainFrame` or, while the SysEx menu is open, `SyxFrame`), between which the serial
core parses MIDI (`ParseMIDIData`, its load and store of the injected mask apart)
and the dial interrupts; the pages, the contacts, the firmware's drawing and the
ticks move between frames.  Of the ENTER button Panel keeps only its `Stage`;
`PanelSeesTheKey` shows that each read of the button in UIButton is a step of that.

**LcdWatch** is the per-frame reading of `LCD_Data`: the play mode and its
correction, and the report of a page that is still, twice throttled.  With the SYX menu
open a frame only reports (`LcdSyxFrame`).

### The emulated processor

**Alu** has the flags and results of every arithmetic instruction, on bytes of
`Byte` bits and words of twice that.  **Cpu** has the operands, the instructions,
the exception frames, and `CpuNext`, one turn of core 2's loop (`minijv880.cpp:3036-3064`):
`MCU_Interrupt_Handle`, one instruction, sleep.  The firmware is not in the
repository, so the programs are a constant: `CpuPrograms` assumes of them only that
each instruction has the operands its encoding can have (`WellFormed`), and
`HandlersKeepFrames` states what a handler owes the program it interrupts.
**MCCpu** has short programs, 338 with their arguments, each with the result that
plain arithmetic gives for it.  The ghost `active` lists the handlers begun, with
their levels and frames.

**Sci** is the UART: `MCU_PostUART` on two cores with its two stores in either
order, the receiver and transmitter, the firmware's two-step clearing of a flag,
and `SC55_Reset` at any moment.  **Timers** is the three free-running timers with
their shared byte latch, the 8-bit timer and the converter.  **GateArray** is the
IRQ0 trigger with `MCU_GA_SetGAInt` on several cores, load by load.

**Instrument** runs these in one specification.  They share no variable: each
takes what comes from the others as *anything that may come* – the stage of a
button, the events of the dial, the screen, the interrupts asked for, the bytes
posted, the registers accessed.  A behaviour lets one of them move (`part`), so the
state spaces add up; because each part's environment is the most general one, a
behaviour of the whole restricted to one part is a behaviour of that part.
Conjunctions of invariants of different parts say no more than each alone.

A definition named "Mutant" is the form of the one below it that a plausible
mistake would give it; no specification uses it.  For each property one such
form is known to violate it (`mutants` in `PROJECT.json`).

## 3. Runs

| Run | Question | Bounds |
|---|---|---|
| CardRam | Is an accepted snapshot a real image, what can a clear flag hide, and is a dirty card flushed? | 2 cells, 2 values, 2 attempts, 2 writes whose stores come in any order or 3 in program order, 1 fault, 1 power cycle |
| CardRamLost (violated) | "recent writes are not lost" | 2 writes in program order, no accidents |
| EnginePause | Does the handshake hold, does the wait end, and is the engine resumed? | main loop and MIDI core, all kinds of request |
| EnginePauseIrq (violated) | "Wait until cores 2 and 3 are actually idle" | main loop and encoder interrupt |
| SampleRing | Is the ring a FIFO, and does a pass get its frames? | 3 frames, indices modulo 6, 2 per pass, backlog 4 |
| SampleRingReset (violated) | "Reset audio buffer" | backlog 1 |
| CardStore | Do selection, flush, rename, delete and uploads keep each card where it belongs? | legacy card, 2 cards, ini, 1 upload, 2 accidents, 1 edit image |
| CardStoreMoved (violated) | "flushed back to the selected SD-card .bin image" | as CardStore |
| NetFiles | Does an activation keep what runs, and does a SYX file stay, whole, until it is deleted? | 2 kernels, ini, 2 folders × 2 names, 2 upload pages, 2 uploads or copies, 2 accidents |
| NetFilesChunk (violated) | "The chunk has been written to the temporary upload file" | 1 upload, 1 failing call |
| Instrument | Do the panel, the processor and its devices keep their promises? | see below |
| InstrumentSnapshot (violated) | "Save only the native firmware screen before entering an overlay" | the panel's keys alone |

Why the bounds are enough to be interesting: two cells let a copy be torn; of three
writes in program order one raises the flag and two tear the copy, two whose stores come
in any order do it alone; the first boot finds no card or one with one byte used (any
other comes of a flush), later boots what the run left; a ring of three frames fills,
overflows and wraps; two cards are a source and a target, two accidents are a
failure and the failure of its undo (or a power cut); two pages share a temp file;
two names in two folders give every kind of move, and a file of two chunks can
lose the first.  Two controllers on two cores interleave in all the ways in which
the interrupt and the main loop, on one core, can, and in more.

Bounds of Instrument:

- *Time* is ordered, not measured: a long press takes 1 tick, a timed MIDI ENTER
  hold 2 and tap 1, so that each can end before, with or after the others; a step
  of the UTILITY sequence takes one frame instead of two.
- *Panel*: one SR expansion, so that the list has it and the RD-500 entry; with
  and without the resource files; 4 MIDI messages or pages.  `Sessions` gives each
  behaviour a choice of devices: the instrument's keys, the pages, or serial MIDI
  with the dial's interrupt.  Keys may be pressed without bound.  The firmware
  shows Patch Play, the one screen on which both DATA and ENTER open a menu; the
  screens on which they do not are those the menus leave behind.
- *Contacts*: debounce 1, double click 2, long press 4 reads, with and without a
  double-click event; the dial turns up to two detents either way from rest.
- *LcdWatch*: `StableFrames` 1 and `EmitFrames` 3 (4 and 16 in the code); only their
  order matters, and the proof is for any two.
- *Cpu*: a byte has 4 bits, a word 8, which is the least that holds the flags and
  two different halves; the 338 programs cover every instruction and addressing mode
  modelled and both ways of every branch; interrupt sources of two levels and traps
  may come between any two instructions.
- *Sci*: a ring of 3 slots, 3 bytes, two producers, one reset.  *Timers*: one FRT
  that counts to 32, compared with 0, 2 or 8.  *GateArray*: the dial and the tone
  generator.

What the violated runs show, and what the documents say, is quoted in
`PROJECT.json` under `findings`:

- **CardRamLost.** `cardram_dirty` is cleared after the file was written, so a
  write since the snapshot is neither saved nor marked: also in program order.
- **EnginePauseIrq.** An encoder turn in the interrupt resumes the engine under
  the interrupted wait, which then never sees both flags.
- **SampleRingReset.** `ReplaceExpansionSafe` has resumed the cores when the
  handler resets the ring; core 2's stale store leaves read ahead of write.
- **CardStoreMoved.** After a rename of the running card the flush recreates the
  old file.
- **NetFilesChunk.** A failing `fwrite` in `upload-chunk` is answered with
  "accepted"; `upload-finish` compares only sizes and publishes the hole.
- **InstrumentSnapshot.** Whether the SysEx menu may open is tested when ENTER goes
  down (`minijv880.cpp:2040-2065`), not when the hold is long enough (2067-2105).
  DATA pressed during the hold opens the SR menu; the SysEx menu then opens over
  it, and `SaveLCDOverlaySnapshot` may save the SR menu's picture as the native
  screen, which is what comes back at the end.

**The torn snapshot.** `FlushCardRAMIfNeeded` takes a copy for coherent when
`cardram_seq` was the same before and after it (`minijv880.cpp:3402-3407`).  Nothing
orders the stores of `mcu.cpp:464-466`, nor the loads around the `memcpy`, so that does
not show it: without `~reordered` in `StableSnapshotCoherent` TLC finds the following in
ten steps.  The firmware writes two bytes; core 0 sees the flag but neither byte nor
count, begins a flush, reads the count, copies the old first byte; both bytes come; it
copies the new second byte, reads the same count, and goes to write a card that never
was.  (The comment there says "Attempt a coherent snapshot", so this is no finding
against a claim.)  What remains, and is checked and proved, is the property for the
attempts in which the stores that had come were always the first ones in program order
(`Prefix`), so that all core 0 saw was the card after some of the firmware's writes: if
the machine kept that order it would hold always.
`LossOnlyFromRacingStores` needs no such exception, but the loss it admits is wider than
the code's text suggests: a byte still on its way when its flag is seen may miss a whole
flush, and with the flag taken down no later flush brings it to the file.

Deadlock is checked in every run but the two of NetFiles, where the unit really
stops: a power cut between the two renames of an activation leaves no kernel.
CardStore and NetFiles bound what one behaviour mixes: a NetFiles behaviour's
requests stay in one area (kernels, ini or SYX), which share only the daemon's
flags; their carry-over between kinds is CardStore's subject.

## 4. Assumptions

- **Memory order.** The ring's indices and the pause flags are atomics, and their
  accesses are taken as sequentially consistent.  The card's three stores and the
  flush's loads are in any order: nothing is assumed of them but that each place has its
  own stores in order.  The MIDI ring is plain memory: its byte and its pointer are seen
  in either order.  The sample ring's data is taken to be visible before its index.
- **Core 0.** Network tasks are cooperative and no handler yields, so requests do
  not interleave; only the encoder's interrupt, other cores and power do.
- **Core 2** runs the processor and its devices between two instructions, so that
  registers are accessed one at a time; posts, resets and the gate array's lines
  come from other cores at any point.
- **External code** (`external` in the map).  Circle's `CTFTPDaemon` runs one
  transfer at a time and may call `FileClose` at any moment.  A handle whose file
  was removed or replaced may write nothing or into clusters of the file that has
  its path now (`Lost`).  The directory may show an old size of an open file.  The
  firmware may access the registers of timers and gate array in any order; of the
  serial interface it reads RDR when the receiver has asked, writes TDR when TDRE
  is up, and clears each flag some time after.
- **Failing calls** change nothing, or leave what the code's clean-up leaves.  An
  existence check is taken to be right: one that fails for another reason is not
  modelled.
- **Numbers.**  A byte has 4 to 8 bits (`ByteSize`), a word twice that; the code has 8
  and 16.  Below 4 the flags do not fit a byte.
- **Programs** of the processor are well-formed (`CpuPrograms`): what else the bytes of
  an instruction could be, the code answers with an error message.
- **Names** are abstract: one spelling per file, all of valid length.  The proofs
  also ask that the collection is finite, and that contents are told apart by the
  file they were in at first (`StoreAssumption`, `NetFilesAssumption`).
- **Browsers** send requests in order; a lost request or answer stops the script.

**Fairness.** `CardRam` (`FairSpec`, `MCSpec`): core 0 goes on with a flush, and `Process`,
called for ever by `CKernel::Run`, reaches its 1024th pass; no store is forced to come.
The periodic flush needs only weak fairness, for the SYX menu excuses it.
`EnginePause`: the engine cores loop for ever and a handler that began continues;
requests are never forced.  `SampleRing`: cores 2 and 3 loop for ever; resets are
never forced.  No storage call is assumed to succeed: the bound on faults makes
the accidents finite, which is what "after the last failure" means.  The other
specifications state no fairness; `ReadbackCatchesUp` bounds the delay of a report
by a number of frames instead.

## 5. What is checked

- *CardRam*: `StableSnapshotCoherent`, `LossOnlyFromRacingStores`,
  `DirtyClearedOnlyBySave`, `DirtyIsFlushed`, `RefinesSavedCard`; the first excuses an
  attempt in which core 0 saw a store before an earlier one, the others no order.
- *EnginePause*: `Handshake` (its last part is `QuietUnderPause`: no engine core
  touches the machine while a controller replaces part of it, unless another one has
  resumed the engine since), `WaitEndsUnlessResumed`, `PauseEnds`.
- *SampleRing*: `RingValid`, `CopiesOldest`, `RefinesQueue`, `PassEnds`, all while
  core 2 was never more than a ring ahead (`calm`), and `TypeOK` even when not: it alone
  covers core 3's moving the read index of a ring that is full.
- *CardStore*: `UploadSession`, `SelectionLoads`, `CleanCardIsOnDisk`,
  `ShortCardsNeverGrow`, `RefinesShelf`.
- *NetFiles*: `InUseKept` (what this boot loaded stays on the card until its
  backup is deleted), `OneFailureTolerated`, `PublishedWhole`, `RefinesFolders`.
- *Instrument*, the panel: `OneStepPerHold` (one hold of ENTER opens a menu, or
  loads, or leaves, or steps back, not two of them), `DataHidden` (a DATA press
  that may still become the SR menu does not reach the firmware),
  `RestoreScheduled` (a screen due to come back has been saved and the sequence
  that brings it back runs), `NoTapSticks`, `HoldLostOnlyByTap`.
- *Instrument*, the controls and the LCD: `OneEventPerPress`, `NoFalseDetent`,
  `PanelSeesTheKey`, `ReadbackCatchesUp`.
- *Instrument*, the processor: `InterruptsInvisible` (whatever interrupts and traps
  come in between, a program leaves the registers that plain arithmetic says, its
  stack, its pages and its mask), `NestingByLevel` (a handler that begins has a higher
  level than all that run), `HandlersKeepFrames` (the hypothesis under which the latter
  is proved), `ReceivedInOrder`, `RequestsAreFlags`.

Seen while modelling, and kept by no property.  Storage: the third snapshot
attempt is written even if torn; between `f_unlink` and `f_rename` of a flush only
the temp file exists and no boot looks at it; two controllers (main loop and serial
MIDI) on the one pause flag resume each other's engine; after an overflow the
oldest frames of a copy are mixed with new ones; names are compared with `strcmp`
while FAT ignores case (`netfileserver.cpp:6191`); `current.txt` is read up to 95
bytes at boot (`minijv880.cpp:247`) while longer names can be selected; a failed
`FileOpen` of a card leaves `m_bCardRAMTransfer` set, so the next read is refused
once; an aborted SYX upload is renamed to its final name although the helper's
manual says it is deleted (`tools/minijv880_tftp_helper_manual_en_v4.txt:238`); a
stage file still being written can be activated; an upload page whose folder is
renamed away, and another folder renamed to its name, goes on in the temp file that
an earlier upload left there, and is published with a hole (it takes three folders;
the attempt to prove `PublishedWhole` found it, and `excused` excepts it); the reboot page
(`netfileserver.cpp:9317`) does not flush the card; `docs/pn-jv80-and-roland-pn.md:49`
calls Roland-PN read-only over HTTP, but the copy, move, rename and delete requests
do not test for it (only the pages hide the links), and the model's requests do not
either.

Panel: MIDI's read-change-write of the injected mask and the frame's clearing of it
lose one of the two; a timed ENTER begun just before the 32-bit tick wraps ends at
once (`minijv880.cpp:1229`); ENTER from another source ends the SysEx menu's wait
for the release of the button.

Processor: two posts that overlap, a post that laps the ring, and a post that a
reset overtakes break the order of MIDI bytes, and a byte that arrives before the
receiver's interrupt is enabled keeps RDRF set without a request (`ReceivedInOrder`
and `SciRequests` except these behaviours by the ghost `crossed`); an RD-500 program
change posted right after an expansion swap is dropped because `midi_ready` is still
false; the transmitter's request is not raised when TIE is set while TDRE is up,
though `mcu.cpp:90` calls it level-derived; the converter's read flag is never
reset and the three timers share one byte latch; two overlapping calls of
`MCU_GA_SetGAInt` can leave a trigger without a request until the next call
(`GateRequests` excepts them by `mixed`); MOVF's operand size is read the wrong way
round in some forms; TRAPA 9 to 15 are raised but no vector serves them; nothing
reads `exception_pending`.

## 6. What is proved

TLAPS proves, for every value of the constants that the named assumptions allow:

- `CardRam_proofs`: `TypeCorrect`, `StableSnapshot`, `LossOnlyRacing`,
  `DirtyCleared`, `FlushIsSave`.  The first invariant is `TypeOK` with what the
  temp file holds at each step of the flush.  None assumes an order of the stores.
  (`MaxMixed` may be as large as `MaxWrites`.)  `StoresInv` says what core 0 can see in
  any order: of a byte with no store on its way it sees the card's, and the last store
  on its way is the card's.  `StableSnapshot` rests on `SnapshotInv`: while the stores
  come in program order (`Prefix`), the bytes that have come are those of the first
  `seq` writes or of one more (`PrefixIsSeen`), and each byte makes it more writes
  (`ByteMovesOn`); so while `seq` has not moved since the attempt began, at most one byte
  has come, and what was copied is of two images that differ in it (`Explains`).
  `LossOnlyRacing` rests on `FlushInv` (a flush in progress copies or has copied what
  core 0 sees, but for `excused`, and every byte on its way is excused) and on
  `SavedInv`, the property itself while bytes are on their way whose flags have come.
  `FlushIsSave` is the refinement of `SavedCard`: `CopiesInv` says that each byte copied
  is one core 0 saw since the attempt began; `SaveIs` what a save is at each place of
  the flush, by which each call is a step of the save or no step.
- `EnginePause_proofs`, for any set of controllers: `TypeCorrect`, `HandshakeHolds`,
  and `QuietUnderHandshake` for one that is alone.  `QuietUnderPause` is not inductive: a
  flag seen up may be stale.  `Handshake` adds why that is harmless: a core that
  may touch the machine has lowered its flag and tested the request after.  It speaks
  of each controller by itself (`Theirs`): its own steps keep its part, and a step of
  another one only disturbs it by resuming the engine, which is then in `resumed`.
- `SampleRing_proofs`: `OutBufHolds` (`TypeOK`), `RingStaysValid`, `CopiesStayOldest`
  and `RingIsQueue`, the refinement of `SampleQueue`, for every ring size, index
  range and pass.  The invariant `Calm`: while core 2 is no more than a ring ahead,
  core 3 always finds room for the frame it is about to publish, hence never drops
  one, and only core 2 moves the read index; so the index core 2 loaded is still
  the read index, and what it copied is still in its slots, for two indices less
  than a ring apart are in different slots, also where the index wraps.  Each step
  is then a put, a take, a clear or no step of the queue.
- `CardStore_proofs`: every property of the run, for any cards and names:
  `CardStoreTypeCorrect`, `OwnSession`, `SelectedLoads`, `CleanIsSaved`,
  `ShortStayFew`, `IsShelf`.  The invariant has five parts beside the types.
  `Session`: an open upload's flags and counter are its own, and its handle loses
  the temp file only to the flush of the card in memory, which is then dirty, or the
  file is homeless.  `Snapshot`: between its write and its rename a flush has a whole
  temp file that nobody else holds.  `OnDisk`: the file called `home` exists, also
  under its new name during a rename, and holds the image when the flag is clear;
  `CleanCardIsOnDisk` alone is not inductive, for a rollback gives the old name back.
  `Selection` and `Request` say what is true of the selection at each call of a
  request, down to the moment when the selected card is being replaced.  `IsShelf` is
  the refinement of `CardShelf`, one lemma for each action: it also needs `Choosing`,
  that a card about to be selected loads or is the one in memory, whose flush may have
  failed.
- `NetFiles_proofs`: every property of the run, for any names, folders and upload
  pages: `NetFilesTypeCorrect`, `GenerationsKept`, `OneFailure`, `WholeFiles`,
  `AreFolders`.  `Generations` says where the booted file is: the backup of what was
  activated since, else under its own name, from which only an activation that could
  not be undone keeps it away; `Active` what an activation has found so far, among
  it that it never removes the backup of a first generation; `Session` that a stage
  file leaves its handle only by being activated, so that a stray write reaches
  nothing older; `Housed` that each SYX and temp file is in a folder that exists, so
  that a renamed folder lands on free names.  `WholeFiles` adds `Pub`: while nothing
  excuses it, each temp file is the beginning of one image.  `AreFolders` is the
  refinement of `SyxFolders`, one lemma for each action, with `Kept`: the handle of a
  SYX upload is never that of a stage file, which an activation could take away
  (`Handle`), and while a copy is in progress its source is there and its target empty
  (`Source`), also through an activation step or a page that leaves.
- `Panel_proofs`, for any keys, expansions and timeouts.  On Remote: `TapsEnd` is
  inductive as it stands; `HoldsLast` adds `TapsKnown`, that what the frames will
  release was tapped; `PanelUsesRemote` carries both over to the panel.  On Panel,
  every operator on the overlays is first shown to keep the same few facts (`Keeps`:
  types, a scheduled restore, no DATA added to the matrix or the injected keys, no
  SysEx menu opened), so that `PanelInv` has one short step per action:
  `PanelTypeCorrect`, `RestoresHappen`, and `PendingDataHidden`, for which `Hidden`
  also covers the middle of a frame while the SysEx menu, which leaves the matrix
  alone, is open.  `HoldsCountOnce` (`OneStepPerHold`) rests on `OneInv`: with the
  keys and the dial alone, whoever did something in this hold of ENTER is waiting for
  its release or its tracker has fired, also in the menu that is not shown; and only
  a click, for which the pin must be up, ends the wait of the RD-500 menus early.
- `Peripherals_proofs`.  The buttons: `EventsAreOwed` (`OneEventPerPress`) by
  `Counting`, which says that a released button with a click left waits for its second
  one; `StageIsEnough` (`PanelSeesTheKey`), which is what makes Panel's short form of a
  button sound for all timeouts.  The dial: `NoDetentInvented`, by `Follows`: the
  accumulator is the distance turned since rest, and after one lost edge (seen as a
  jump of two, which counts for nothing) it differs from it by two quarter steps at
  most, also when the rest position between them was the edge that was missed.  The
  LCD: `ReadbackNeverLost` for any two limits, by counters that grow at least as fast
  as the page has been still.  MIDI: `SciTypeCorrect`, `BytesInOrder`, `RequestsHeard`
  for a ring of any size and any producers.  `SciInv` says, while nothing crossed: one
  post at a time is under way, and its byte goes where the write pointer is (`Alone`);
  before the receiver's interrupt is enabled nothing arrives (`Heard`); and byte by
  byte, what was sent is what was read, waits in RDR, or lies in the ring (`InOrder`),
  of which only the last may be missing if its pointer was seen to move first.
  `TimersAskWithFlag` and `TriggersAsk`: with `RequestsHeard` they are the three
  conjuncts of `RequestsAreFlags`.
- `Instrument_proofs`, for any well-formed programs and handlers, any sources, levels
  and vectors, and a byte of 4 to 8 bits:
  - *Types*: `CpuTypeCorrect`.  No instruction, trap or interrupt takes anything out of
    its range, whatever the memory holds.  `CpuInv` says it of the registers as one
    record, from which each instruction makes another of the same kind that keeps the
    mask unless it writes SR (`MaskKept`).
  - *Interrupts*: `HandlersNest` (`NestingByLevel`) from `HandlersKeepFrames`.  That a
    running handler's level is masked is not inductive, for RTE takes its mask from
    memory; `Nested` says it of every frame as well: the SR in it masks all that ran
    when it was pushed, so that the mask that comes back masks what is left.
    `InterruptUndone`: RTE takes the processor back to where it was, given only that
    the six bytes of the frame and the stack pointer are as they were.
    `SavedIsRestored`: LDM brings back what STM saved, for any list of registers, r7
    among them.  `HandlersAreInvisible` joins them into a handler from end to end:
    entered from any state, it saves any list of registers with STM, does anything that
    keeps the stack pointer, what was saved, the frame and the registers not on the
    list, and ends with LDM and RTE; all eight registers, the pages, the flags, the mask
    and the place to go on are then those of the program interrupted.
  - *Subroutines*: `CallsReturn`, for near and far calls and returns of the same kind,
    and `FramesUnlink` (LINK and UNLK).  As with the interrupts the hypothesis is what
    the callee owes: the stack pointer, and what the call pushed, as the call left them.
  - *Arithmetic*: what the flags are good for, at both widths.  `CompareTells`: the ten
    branches that compare do compare, as unsigned and as signed numbers, where the
    difference overflows too.  `LongAddition`, `LongSubtraction`, `LongDivision`:
    numbers of two units go through ADDX, SUBX and DIVXU a unit at a time; after SUBX
    the carry and the sign are those of the whole, but Z is that of the upper half
    alone.  `ShiftsAreArithmetic`, `RotationsUndo`.
  - *The whole*: `PartsAreTheirOwn`, a behaviour of Instrument is a behaviour of each of
    its seven parts.  Hence `TypeCorrect`, `RequestsHaveReasons`, and
    `PartsKeepTheirPromises`, which lists every other property of the run that was
    proved of a part, `NestingByLevel` for handlers that keep their frames.

Left to TLC: liveness and anything with ENABLED, which is beyond the prover;
`InterruptsInvisible`, which compares the results of particular programs with plain
arithmetic (its general form, for any handler, is `HandlersAreInvisible`, under the
hypothesis that what the handler saved is intact); and `HandlersKeepFrames`, which is
about the handlers: the firmware's are not in the repository, so for the theorem it is
a hypothesis, and the run checks that MCCpu's handlers satisfy it.

What the proofs corrected in the models: a page's chunk that goes into another
upload's abandoned temp file (above); a flush that replaces a temp file by an equal
one still takes it from the upload that has it open; and a card flushed under its
old name is at home there from then on (with three cards, `home` named the stale
file).

## 7. Not modelled

- *Bytes of instructions.* An instruction takes one place; the decoder that finds
  operand and operation in the bytes is a table.  Port registers, and the LCD, PCM,
  NVRAM and card addresses of the processor's memory: the card is CardRam's subject, the
  rest reads and writes of arrays.  The levels of the interrupt sources are constants,
  not registers that the firmware writes.  Instructions that only report an error.
- *PCM voices* (envelopes, filters, reverb): signal processing on 20-bit values, no
  protocol but the sample ring.
- *MIDI output*: the driver's buffer has one producer and one consumer on one core.
- *Contents*: parsing of SYX files, the ini, the tables of wave ROM and of RD-500,
  the pixels, fonts and display drivers, which message a MIDI byte belongs to.
- *HTTP pages* that only show something; upload handlers no route reaches
  (`netfileserver.cpp:2262-2977`).
- *WLAN bring-up*: its phases follow the answers of Circle's stack, which is not in
  the repository.  *Kernel reboot*: a message and the watchdog; to the card it is a
  power cut.  *Debug output*: a ring that may lose characters by design.
- Circle, FatFs and newlib beyond what section 4 assumes.

## 8. What is left

1. A refinement of `Panel` by an abstract panel of one menu at a time, once the
   question of `InstrumentSnapshot` is settled in the code.
2. The send buffer of the MIDI output, and WLAN bring-up with the service hold-off.
3. `SavedCard` and `CardShelf` both describe the save of the running card, one with the
   copy taken byte by byte and without names, the other with names and the copy in one
   step.  A specification between them, which both relate to, is not written.
