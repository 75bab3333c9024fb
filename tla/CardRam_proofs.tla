--------------------------- MODULE CardRam_proofs ---------------------------
(***************************************************************************)
(* Proofs about CardRam for every set of bytes and values and every bound, *)
(* with core 2's stores coming to core 0 in any order.                     *)
(***************************************************************************)
EXTENDS CardRam, TLAPS

(* The temp file is whole between the sync and the end of the rename: the  *)
(* type of final rests on it.                                              *)
TmpInv == fpc \in {"unlink", "rename"} => tmp = snap

(* A write has one byte; of those of a cell on their way the last one is   *)
(* the card's, and of a cell with none on its way core 0 sees the card's.  *)
OneByte == \A b, d \in bytes : b.n = d.n => b = d
LastByte ==
  \A b \in bytes :
    (\A d \in bytes : d.cell = b.cell => d.n <= b.n) => ram[b.cell] = b.val
SeenIsCard == \A c \in Cell \ Late : seen[c] = ram[c]

StoresInv == OneByte /\ LastByte /\ SeenIsCard

(* The bytes that have come are those of the first p writes.               *)
At(p) ==
  /\ \A b \in bytes : b.n > p
  /\ \A k \in (p + 1)..written : \E b \in bytes : b.n = k

(* While cardram_seq still equals the value read at the start of the       *)
(* attempt, and the stores came in program order, at most one byte has     *)
(* come since: the bytes copied are those core 0 sees now, or each is of   *)
(* that or of one image before, which differs from it in one byte.         *)
Explains(p) ==
  /\ At(p) /\ p \in s1..(s1 + 1)
  /\ \/ \A c \in copied : snap[c] = seen[c]
     \/ /\ p = s1 + 1
        /\ \E h \in held, e \in Cell :
             /\ \A c \in Cell \ {e} : h[c] = seen[c]
             /\ \A c \in copied : snap[c] \in {h[c], seen[c]}

SnapshotInv ==
  /\ fpc \in {"copy", "seq2"} => s1 <= seq /\ seen \in held
  /\ fpc = "seq2" => copied = Cell
  /\ fpc \in {"copy", "seq2"} /\ seq = s1 /\ ~reordered =>
       Prefix /\ \E p \in 0..written : Explains(p)

(* What a flush in progress knows of the file and of the bytes that had no *)
(* store on its way since it began.                                        *)
FlushInv ==
  /\ fpc # "idle" => dirty /\ Late \subseteq excused
  /\ fpc = "clear" => final = snap
  /\ fpc \in {"copy", "seq2"} => \A c \in copied \ excused : snap[c] = seen[c]
  /\ fpc \in Writing => \A c \in Cell \ excused : snap[c] = seen[c]
  /\ fpc = "seq2" => copied = Cell

(* LossOnlyFromRacingStores also while bytes are on their way, whose flags *)
(* have come before them.                                                  *)
SavedInv ==
  ~dirty /\ marked = written =>
    /\ Late \subseteq excused
    /\ \A c \in Cell \ excused : Loaded(final)[c] = seen[c]

-----------------------------------------------------------------------------
(* The card and the bytes on their way after one more write.               *)
LEMMA WriteType ==
  ASSUME TypeOK, NEW c \in Cell, NEW v \in Val, MCU_Write(c, v)
  PROVE  /\ ram' \in Image /\ ram'[c] = v
         /\ \A d \in Cell \ {c} : ram'[d] = ram[d]
         /\ bytes' \subseteq [n : 1..written', cell : Cell, val : Val]
         /\ written' = written + 1 /\ written \in Nat
<1>1. written \in Nat /\ written' = written + 1
  BY DEF TypeOK, MCU_Write
<1>2. /\ ram' \in Image /\ ram'[c] = v
      /\ \A d \in Cell \ {c} : ram'[d] = ram[d]
  BY DEF TypeOK, MCU_Write, Image
<1>3. [n |-> written + 1, cell |-> c, val |-> v]
        \in [n : 1..written', cell : Cell, val : Val]
  BY <1>1
<1>4. [n : 1..written, cell : Cell, val : Val]
        \subseteq [n : 1..written', cell : Cell, val : Val]
  BY <1>1
<1> QED BY <1>1, <1>2, <1>3, <1>4 DEF TypeOK, MCU_Write

(* What core 0 sees after a byte has come.                                 *)
LEMMA ByteType ==
  ASSUME TypeOK, NEW b \in bytes, StoreByte(b)
  PROVE  /\ seen' \in Image /\ b \in [n : 1..written, cell : Cell, val : Val]
         /\ seen'[b.cell] = b.val
         /\ \A c \in Cell \ {b.cell} : seen'[c] = seen[c]
BY DEF TypeOK, StoreByte, Image

(* Every variable keeps its type, and the temp file is whole when renamed. *)
LEMMA TypeAndTmp == Spec => [](TypeOK /\ TmpInv)
<1> USE CardAssumption DEF CardAssumption, TypeOK, FlushPcs, Writing
<1>1. Init => TypeOK /\ TmpInv
  <2> SUFFICES ASSUME Init PROVE TypeOK /\ TmpInv
    OBVIOUS
  <2>1. seen \in Image /\ snap \in Image
    BY DEF Init, Loaded, Image
  <2>2. ram \in Image /\ marked \in 0..written /\ seq \in 0..written
    BY <2>1 DEF Init
  <2>3. try \in 0..(MaxTries - 1)
    BY DEF Init
  <2>4. faults \in 0..MaxFaults /\ cycles \in 0..MaxCycles
    BY DEF Init
  <2>5. QED
    BY <2>1, <2>2, <2>3, <2>4 DEF Init, TmpInv
<1>2. TypeOK /\ TmpInv /\ [Next]_vars => (TypeOK /\ TmpInv)'
  <2> SUFFICES ASSUME TypeOK, TmpInv, [Next]_vars PROVE TypeOK' /\ TmpInv'
    OBVIOUS
  <2> USE DEF TmpInv
  <2>1. ASSUME NEW c \in Cell, NEW v \in Val, MCU_Write(c, v)
        PROVE TypeOK' /\ TmpInv'
    <3>1. /\ ram' \in Image /\ written' = written + 1
          /\ bytes' \subseteq [n : 1..written', cell : Cell, val : Val]
      BY <2>1, WriteType
    <3>2. excused' \in SUBSET Cell
      BY <2>1 DEF MCU_Write
    <3>3. /\ UNCHANGED <<marked, seq, seen, dirty, fpc, loop, card, syx, held,
                         reordered, bound>>
      BY <2>1 DEF MCU_Write
    <3> QED BY <3>1, <3>2, <3>3 DEF loop, card, bound
  <2>2. ASSUME NEW b \in bytes, StoreByte(b) PROVE TypeOK' /\ TmpInv'
    <3>1. seen' \in Image
      BY <2>2, ByteType
    <3>2. held' \in SUBSET Image /\ reordered' \in BOOLEAN
      BY <2>2, <3>1 DEF StoreByte, Ordered
    <3>3. bytes' \subseteq bytes
      BY <2>2 DEF StoreByte
    <3>4. UNCHANGED <<written, ram, marked, seq, dirty, fpc, loop, card, syx,
                      excused, bound>>
      BY <2>2 DEF StoreByte
    <3> QED BY <3>1, <3>2, <3>3, <3>4 DEF loop, card, bound
  <2>3. CASE StoreDirty
    <3>1. /\ marked' \in 0..written /\ dirty' \in BOOLEAN
          /\ reordered' \in BOOLEAN
      BY <2>3 DEF StoreDirty, Ordered
    <3> QED BY <2>3, <3>1 DEF StoreDirty, loop, card, bound
  <2>4. CASE StoreSeq
    <3>1. seq' \in 0..written /\ reordered' \in BOOLEAN
      BY <2>4 DEF StoreSeq, Ordered
    <3> QED BY <2>4, <3>1 DEF StoreSeq, loop, card, bound
  <2>5. CASE EnterFlush
    <3>1. excused' \in SUBSET Cell
      BY <2>5 DEF EnterFlush, Late
    <3> QED BY <2>5, <3>1 DEF EnterFlush, stores, loop, card, bound
  <2>6. CASE ReadSeq1
    BY <2>6 DEF ReadSeq1, stores, card, bound
  <2>7. ASSUME NEW c \in Cell, CopyByte(c) PROVE TypeOK' /\ TmpInv'
    <3>1. snap' \in Image
      BY <2>7 DEF CopyByte, Image
    <3>2. QED
      BY <2>7, <3>1 DEF CopyByte, stores, card, ghosts, bound
  <2>8. CASE ReadSeq2
    BY <2>8 DEF ReadSeq2, stores, card, ghosts, bound
  <2> DEFINE Locals == /\ try \in 0..(MaxTries - 1) /\ s1 \in Nat
                       /\ copied \in SUBSET Cell /\ snap \in Image
                       /\ stable \in BOOLEAN /\ held \in SUBSET Image
                       /\ reordered \in BOOLEAN
  <2>9. ASSUME Return PROVE Locals'
    <3>1. snap' \in Image
      BY <2>9 DEF Return, Image
    <3>2. /\ try' = 0 /\ s1' = 0 /\ copied' = {} /\ stable' = FALSE
          /\ held' = {} /\ reordered' = FALSE
      BY <2>9 DEF Return
    <3>3. 0 \in 0..(MaxTries - 1)
      OBVIOUS
    <3> HIDE DEF TypeOK
    <3> QED BY <3>1, <3>2, <3>3
  <2>10. \A pc : Proceed(pc) => Locals'
    BY DEF Proceed, loop
  <2>11. CASE OpenTmp
    <3>1. Locals'
      BY <2>9, <2>10, <2>11 DEF OpenTmp
    <3> QED BY <2>11, <3>1 DEF OpenTmp, Return, Proceed, stores, Fault, NoFault
  <2>12. CASE WriteTmp
    <3>1. Locals'
      BY <2>9, <2>10, <2>12 DEF WriteTmp, Abandon
    <3> QED BY <2>12, <3>1
            DEF WriteTmp, Abandon, Return, Proceed, stores, card, Fault, NoFault
  <2>13. CASE SyncTmp
    <3>1. Locals'
      BY <2>9, <2>10, <2>13 DEF SyncTmp, Abandon
    <3> QED BY <2>13, <3>1
            DEF SyncTmp, Abandon, Return, Proceed, loop, stores, Fault, NoFault
  <2>14. CASE UnlinkFinal
    <3>1. Locals'
      BY <2>10, <2>14 DEF UnlinkFinal
    <3> QED BY <2>14, <3>1 DEF UnlinkFinal, Proceed, loop, stores, Fault, NoFault
  <2>15. CASE RenameTmp
    <3>1. Locals'
      BY <2>9, <2>10, <2>15 DEF RenameTmp, Abandon
    <3> QED BY <2>15, <3>1
            DEF RenameTmp, Abandon, Return, Proceed, stores, Fault, NoFault
  <2>16. CASE ClearDirty
    <3>1. Locals'
      BY <2>9, <2>16 DEF ClearDirty
    <3> QED BY <2>16, <3>1 DEF ClearDirty, Return, stores, card, bound
  <2>17. CASE ToggleSyx
    BY <2>17 DEF ToggleSyx, stores, loop, card, ghosts, bound
  <2>18. CASE PowerCycle
    <3>1. seen' \in Image
      BY <2>18 DEF PowerCycle, Loaded, Image
    <3>2. Locals'
      BY <2>9, <2>18 DEF PowerCycle
    <3>3. /\ written' = 0 /\ ram' \in Image
          /\ marked' = 0 /\ seq' = 0 /\ bytes' = {}
      BY <2>18, <3>1 DEF PowerCycle
    <3>4. faults' \in 0..MaxFaults /\ cycles' \in 0..MaxCycles
      BY <2>18 DEF PowerCycle, Fault, NoFault
    <3>5. excused' \in SUBSET Cell
      BY <2>18 DEF PowerCycle
    <3>6. /\ fpc' = "idle" /\ dirty' = FALSE /\ syx' = FALSE
          /\ UNCHANGED <<final, tmp>>
      BY <2>18 DEF PowerCycle, Return, card
    <3>7. /\ written' \in Nat /\ marked' \in 0..written' /\ seq' \in 0..written'
          /\ bytes' \subseteq [n : 1..written', cell : Cell, val : Val]
      BY <3>3
    <3>8. /\ fpc' \in FlushPcs /\ dirty' \in BOOLEAN /\ syx' \in BOOLEAN
          /\ final' \in Image \cup {Missing}
          /\ tmp' \in Image \cup {Missing, Partial} /\ TmpInv'
      BY <3>6
    <3> QED BY <3>1, <3>2, <3>3, <3>4, <3>5, <3>7, <3>8, Zenon
  <2>19. CASE UNCHANGED vars
    BY <2>19 DEF vars, stores, loop, card, ghosts, bound
  <2>20. QED
    BY <2>1, <2>2, <2>3, <2>4, <2>5, <2>6, <2>7, <2>8, <2>11, <2>12, <2>13,
       <2>14, <2>15, <2>16, <2>17, <2>18, <2>19
       DEF Next, Visible, PeriodicFlush, ManualFlush, FlushStep
<1>3. QED
  BY <1>1, <1>2, PTL DEF Spec

(* Every variable keeps its type; in particular the active name never      *)
(* holds a partial file, whichever call fails or power is lost when.       *)
THEOREM TypeCorrect == Spec => []TypeOK
BY TypeAndTmp, PTL

-----------------------------------------------------------------------------
(* What core 0 sees and what the firmware wrote.                           *)

LEMMA WriteKeepsStores ==
  ASSUME TypeOK, StoresInv, NEW c \in Cell, NEW v \in Val, MCU_Write(c, v)
  PROVE  StoresInv'
<1> DEFINE w == written + 1
           new == [n |-> w, cell |-> c, val |-> v]
<1>1. /\ written \in Nat /\ ram'[c] = v
      /\ \A d \in Cell \ {c} : ram'[d] = ram[d]
  BY WriteType
<1>2. bytes' = bytes \cup {new} /\ seen' = seen
  BY DEF MCU_Write
<1>3. \A b \in bytes : b.n < w /\ b.cell \in Cell
  BY <1>1 DEF TypeOK
<1>4. new.n = w /\ new.cell = c /\ new.val = v /\ w \in Nat
  BY <1>1
<1>5. \A b \in bytes : ~(b.n >= w)
  BY <1>1, <1>3 DEF TypeOK
<1> HIDE DEF w, new
<1>6. OneByte'
  BY <1>2, <1>4, <1>5 DEF OneByte, StoresInv
<1>7. LastByte'
  <2> SUFFICES ASSUME NEW b \in bytes',
                      \A d \in bytes' : d.cell = b.cell => d.n <= b.n
               PROVE  ram'[b.cell] = b.val
    BY Zenon DEF LastByte
  <2>1. CASE b = new
    BY <1>1, <1>4, <2>1
  <2>2. CASE b # new
    <3>1. b \in bytes /\ b.cell \in Cell
      BY <1>2, <1>3, <2>2
    <3>2. b.cell # c
      BY <1>2, <1>4, <1>5, <3>1
    <3>3. ram[b.cell] = b.val
      BY <1>2, <3>1 DEF StoresInv, LastByte
    <3> QED BY <1>1, <3>1, <3>2, <3>3
  <2> QED BY <2>1, <2>2
<1>8. SeenIsCard'
  <2> SUFFICES ASSUME NEW d \in Cell, d \notin Late' PROVE seen[d] = ram'[d]
    BY <1>2 DEF SeenIsCard
  <2>1. d # c /\ d \notin Late
    BY <1>2, <1>4 DEF Late
  <2> QED BY <1>1, <2>1 DEF StoresInv, SeenIsCard
<1> QED BY <1>6, <1>7, <1>8 DEF StoresInv

LEMMA ByteKeepsStores ==
  ASSUME TypeOK, StoresInv, NEW b \in bytes, StoreByte(b)
  PROVE  StoresInv'
<1>1. /\ b.n \in Nat /\ b.cell \in Cell /\ seen'[b.cell] = b.val
      /\ \A d \in bytes : d.n \in Nat /\ d.cell \in Cell
      /\ \A c \in Cell \ {b.cell} : seen'[c] = seen[c]
  BY ByteType DEF TypeOK
<1>2. /\ bytes' = bytes \ {b} /\ ram' = ram
      /\ \A d \in bytes : d.cell = b.cell => b.n <= d.n
  BY DEF StoreByte
<1>3. OneByte'
  BY <1>2 DEF OneByte, StoresInv
<1>4. LastByte'
  <2> SUFFICES ASSUME NEW a \in bytes',
                      \A d \in bytes' : d.cell = a.cell => d.n <= a.n
               PROVE  ram[a.cell] = a.val
    BY <1>2, Zenon DEF LastByte
  <2>1. \A d \in bytes : d.cell = a.cell => d.n <= a.n
    BY <1>2
  <2> QED BY <1>2, <2>1 DEF StoresInv, LastByte
<1>5. SeenIsCard'
  <2> SUFFICES ASSUME NEW c \in Cell, c \notin Late' PROVE seen'[c] = ram[c]
    BY <1>2 DEF SeenIsCard
  <2>1. CASE c = b.cell
    <3>1. \A d \in bytes : d.cell = b.cell => d = b
      BY <1>2, <2>1 DEF Late
    <3>2. \A d \in bytes : d.cell = b.cell => d.n <= b.n
      BY <1>1, <3>1
    <3> QED BY <1>1, <2>1, <3>2 DEF StoresInv, LastByte
  <2>2. CASE c # b.cell
    <3>1. c \notin Late
      BY <1>2, <2>2 DEF Late
    <3> QED BY <1>1, <2>2, <3>1 DEF StoresInv, SeenIsCard
  <2> QED BY <2>1, <2>2
<1> QED BY <1>3, <1>4, <1>5 DEF StoresInv

(* All steps but a write and the coming of a byte leave both as they are,  *)
(* until the power is lost.                                                *)
LEMMA OthersKeepStores ==
  ASSUME [Next]_vars, ~PowerCycle,
         ~(\E c \in Cell, v \in Val : MCU_Write(c, v)),
         ~(\E b \in bytes : StoreByte(b))
  PROVE  UNCHANGED <<written, ram, bytes, seen>>
<1>1. CASE StoreDirty \/ StoreSeq
  BY <1>1 DEF StoreDirty, StoreSeq
<1>2. CASE EnterFlush \/ ReadSeq1 \/ (\E c \in Cell : CopyByte(c)) \/ ReadSeq2
  BY <1>2 DEF EnterFlush, ReadSeq1, CopyByte, ReadSeq2, stores
<1>3. CASE OpenTmp \/ WriteTmp \/ SyncTmp \/ UnlinkFinal \/ RenameTmp \/ ClearDirty
  BY <1>3 DEF OpenTmp, WriteTmp, SyncTmp, UnlinkFinal, RenameTmp, ClearDirty,
              stores
<1>4. CASE ToggleSyx \/ UNCHANGED vars
  BY <1>4 DEF ToggleSyx, vars, stores
<1> QED
  BY <1>1, <1>2, <1>3, <1>4
     DEF Next, Visible, PeriodicFlush, ManualFlush, FlushStep

LEMMA StoresInvariant == Spec => []StoresInv
<1>1. Init => StoresInv
  BY DEF Init, StoresInv, OneByte, LastByte, SeenIsCard
<1>2. TypeOK /\ StoresInv /\ [Next]_vars => StoresInv'
  <2> SUFFICES ASSUME TypeOK, StoresInv, [Next]_vars PROVE StoresInv'
    OBVIOUS
  <2>1. CASE PowerCycle
    <3>1. bytes' = {} /\ ram' = seen'
      BY <2>1 DEF PowerCycle
    <3> QED BY <3>1 DEF StoresInv, OneByte, LastByte, SeenIsCard
  <2>2. ASSUME NEW c \in Cell, NEW v \in Val, MCU_Write(c, v) PROVE StoresInv'
    BY <2>2, WriteKeepsStores
  <2>3. ASSUME NEW b \in bytes, StoreByte(b) PROVE StoresInv'
    BY <2>3, ByteKeepsStores
  <2>4. CASE UNCHANGED <<written, ram, bytes, seen>>
    BY <2>4 DEF StoresInv, OneByte, LastByte, SeenIsCard, Late
  <2> QED BY <2>1, <2>2, <2>3, <2>4, OthersKeepStores
<1> QED BY <1>1, <1>2, TypeCorrect, PTL DEF Spec

-----------------------------------------------------------------------------
(* The snapshot.                                                           *)

(* When the stores that have come are the first in program order, the      *)
(* bytes among them are of as many writes as core 0 counts, or of one more. *)
SeesPrefix == Prefix => \E p \in 0..written : At(p) /\ p \in seq..(seq + 1)

LEMMA PrefixIsSeen == TypeOK => SeesPrefix
<1> SUFFICES ASSUME TypeOK, Prefix
             PROVE  \E p \in 0..written : At(p) /\ p \in seq..(seq + 1)
  BY DEF SeesPrefix
<1>1. /\ written \in Nat /\ marked \in 0..written /\ seq \in 0..written
      /\ \A b \in bytes : b.n \in 1..written
  BY DEF TypeOK
<1>2. /\ marked \in {seq, seq + 1}
      /\ \A b \in bytes : b.n > marked
      /\ \A n \in (marked + 1)..written :
           n > marked + 1 \/ marked > seq => \E b \in bytes : b.n = n
  BY DEF Prefix
<1>3. CASE \A k \in (marked + 1)..written : \E b \in bytes : b.n = k
  BY <1>1, <1>2, <1>3 DEF At
<1>4. CASE \E k \in (marked + 1)..written : \A b \in bytes : b.n # k
  <2>1. PICK k \in (marked + 1)..written : \A b \in bytes : b.n # k
    BY <1>4
  <2>2. k = marked + 1 /\ marked = seq
    BY <1>1, <1>2, <2>1
  <2>3. k \in 0..written /\ \A b \in bytes : b.n > k
    BY <1>1, <1>2, <2>1, <2>2
  <2>4. \A j \in (k + 1)..written : \E b \in bytes : b.n = j
    BY <1>1, <1>2, <2>2
  <2> QED BY <1>1, <2>2, <2>3, <2>4 DEF At
<1> QED BY <1>3, <1>4

(* A byte that comes makes it more writes.                                 *)
LEMMA ByteMovesOn ==
  ASSUME TypeOK, StoresInv, NEW b \in bytes, StoreByte(b),
         NEW p \in 0..written, At(p), NEW q \in 0..written, At(q)'
  PROVE  p < q
<1>1. /\ written \in Nat /\ \A d \in bytes : d.n \in 1..written
      /\ bytes' = bytes \ {b} /\ written' = written
      /\ \A d, e \in bytes : d.n = e.n => d = e
  BY DEF TypeOK, StoreByte, StoresInv, OneByte
<1>2. /\ \A d \in bytes : d.n > p
      /\ \A k \in (q + 1)..written : \E d \in bytes' : d.n = k
  BY <1>1 DEF At
<1>3. q >= b.n
  <2> SUFFICES ASSUME q < b.n PROVE FALSE
    BY <1>1
  <2>1. b.n \in (q + 1)..written
    BY <1>1
  <2>2. PICK d \in bytes' : d.n = b.n
    BY <1>2, <2>1
  <2> QED BY <1>1, <2>2
<1> QED BY <1>1, <1>2, <1>3

LEMMA WriteKeepsAt ==
  ASSUME TypeOK, NEW c \in Cell, NEW v \in Val, MCU_Write(c, v),
         NEW p \in 0..written, At(p)
  PROVE  At(p)'
<1> DEFINE w == written + 1
           new == [n |-> w, cell |-> c, val |-> v]
<1>1. /\ written \in Nat /\ written' = w
      /\ bytes' = bytes \cup {new}
  BY WriteType DEF MCU_Write
<1>2. new.n = w
  OBVIOUS
<1> HIDE DEF new
<1>3. \A b \in bytes' : b.n > p
  BY <1>1, <1>2 DEF At
<1>4. \A k \in (p + 1)..w : \E b \in bytes' : b.n = k
  <2> SUFFICES ASSUME NEW k \in (p + 1)..w PROVE \E b \in bytes' : b.n = k
    OBVIOUS
  <2>1. CASE k = w
    BY <1>1, <1>2, <2>1
  <2>2. CASE k # w
    <3>1. k \in (p + 1)..written
      BY <1>1, <2>2
    <3> QED BY <1>1, <3>1 DEF At
  <2> QED BY <2>1, <2>2
<1> QED BY <1>1, <1>3, <1>4 DEF At

(* A snapshot the flush accepted as stable is an image that core 0 saw     *)
(* since cardram_seq was first read, if the stores came in program order   *)
(* in that attempt, whatever they did before.                              *)
THEOREM StableSnapshot == Spec => []StableSnapshotCoherent
<1> DEFINE Inv == SnapshotInv /\ StableSnapshotCoherent
<1> USE DEF SnapshotInv, StableSnapshotCoherent, Writing
<1>1. Init => Inv
  BY DEF Init
<1>2. TypeOK /\ StoresInv /\ SeesPrefix /\ SeesPrefix' /\ Inv /\ [Next]_vars
        => Inv'
  <2> SUFFICES ASSUME TypeOK, StoresInv, SeesPrefix, SeesPrefix', Inv, [Next]_vars
               PROVE  Inv'
    OBVIOUS
  <2>0. /\ written \in Nat /\ seq \in Nat /\ s1 \in Nat /\ seen \in Image
        /\ snap \in Image /\ held \subseteq Image /\ copied \subseteq Cell
    BY DEF TypeOK
  <2>1. ASSUME NEW c \in Cell, NEW v \in Val, MCU_Write(c, v) PROVE Inv'
    <3>1. /\ written' = written + 1
          /\ UNCHANGED <<marked, seq, seen, fpc, s1, copied, snap, stable, held,
                         reordered>>
      BY <2>1, WriteType DEF MCU_Write, loop
    <3>2. \A p \in 0..written : At(p) => At(p)'
      BY <2>1, WriteKeepsAt
    <3>3. \A p \in 0..written : Explains(p) => Explains(p)'
      BY <3>1, <3>2 DEF Explains
    <3>4. Prefix => Prefix'
      <4> SUFFICES ASSUME Prefix PROVE Prefix'
        OBVIOUS
      <4> DEFINE new == [n |-> written + 1, cell |-> c, val |-> v]
      <4>1. bytes' = bytes \cup {new} /\ new.n = written + 1
        BY <2>1 DEF MCU_Write
      <4>2. marked \in 0..written
        BY DEF TypeOK
      <4> HIDE DEF new
      <4>3. \A b \in bytes' : b.n > marked
        BY <2>0, <4>1, <4>2 DEF Prefix
      <4>4. \A n \in (marked + 1)..(written + 1) :
              n > marked + 1 \/ marked > seq => \E b \in bytes' : b.n = n
        <5> SUFFICES ASSUME NEW n \in (marked + 1)..(written + 1),
                            n > marked + 1 \/ marked > seq
                     PROVE  \E b \in bytes' : b.n = n
          OBVIOUS
        <5>1. CASE n = written + 1
          BY <4>1, <5>1
        <5>2. CASE n # written + 1
          <6>1. n \in (marked + 1)..written
            BY <2>0, <4>2, <5>2
          <6> QED BY <4>1, <6>1 DEF Prefix
        <5> QED BY <5>1, <5>2
      <4> QED BY <3>1, <4>3, <4>4 DEF Prefix
    <3>5. SnapshotInv'
      BY <2>0, <3>1, <3>3, <3>4
    <3> QED BY <3>1, <3>5
  <2>2. ASSUME NEW b \in bytes, StoreByte(b) PROVE Inv'
    <3> DEFINE Copying == fpc \in {"copy", "seq2"}
    <3>a. UNCHANGED <<written, seq, fpc, loop>>
      BY <2>2 DEF StoreByte
    <3>b. reordered' = (reordered \/ (fpc \in {"copy", "seq2"} /\ ~Prefix'))
      BY <2>2, Zenon DEF StoreByte, Ordered
    <3>c. held' = IF fpc \in {"copy", "seq2"} THEN held \cup {seen'} ELSE held
      BY <2>2 DEF StoreByte
    <3>d. Copying /\ ~reordered' => ~reordered /\ Prefix'
      BY <3>b, Zenon
    <3>e. ~Copying => reordered' = reordered
      BY <3>b, Zenon DEF TypeOK
    <3>1. /\ UNCHANGED <<written, seq, fpc, s1, copied, snap, stable>>
          /\ Copying => held' = held \cup {seen'}
          /\ ~Copying => UNCHANGED <<held, reordered>>
          /\ Copying /\ ~reordered' => ~reordered /\ Prefix'
      BY <3>a, <3>c, <3>d, <3>e DEF loop
    <3>2. ASSUME fpc \in {"copy", "seq2"}, seq = s1, ~reordered'
          PROVE  Prefix' /\ \E q \in 0..written : Explains(q)'
      <4>1. PICK p \in 0..written : Explains(p)
        BY <3>1, <3>2
      <4>2. PICK q \in 0..written : At(q)' /\ q \in seq..(seq + 1)
        BY <3>1, <3>2 DEF SeesPrefix
      <4>3. p < q
        BY <2>2, <4>1, <4>2, ByteMovesOn DEF Explains
      <4>4. p # s1 + 1 /\ q = s1 + 1
        BY <2>0, <3>2, <4>1, <4>2, <4>3 DEF Explains
      <4>5. \A c \in copied : snap[c] = seen[c]
        BY <4>1, <4>4 DEF Explains
      <4>6. b.cell \in Cell /\ \A c \in Cell \ {b.cell} : seen[c] = seen'[c]
        BY <2>2, ByteType
      <4>7. seen \in held'
        BY <3>1, <3>2
      <4>8. Explains(q)'
        BY <2>0, <3>1, <4>2, <4>4, <4>5, <4>6, <4>7 DEF Explains
      <4> QED BY <3>1, <3>2, <4>8
    <3>3. SnapshotInv'
      BY <3>1, <3>2
    <3>4. StableSnapshotCoherent'
      BY <3>1
    <3> QED BY <3>3, <3>4
  <2>3. CASE StoreDirty
    <3>a. UNCHANGED <<written, bytes, seen, seq, fpc, loop, held>>
      BY <2>3 DEF StoreDirty
    <3>b. reordered' = (reordered \/ (fpc \in {"copy", "seq2"} /\ ~Prefix'))
      BY <2>3, Zenon DEF StoreDirty, Ordered
    <3>d. fpc \in {"copy", "seq2"} /\ ~reordered' => ~reordered /\ Prefix'
      BY <3>b, Zenon
    <3>e. fpc \notin {"copy", "seq2"} => reordered' = reordered
      BY <3>b, Zenon DEF TypeOK
    <3>1. /\ UNCHANGED <<written, bytes, seen, seq, fpc, s1, copied, snap,
                         stable, held>>
          /\ fpc \notin {"copy", "seq2"} => UNCHANGED reordered
          /\ fpc \in {"copy", "seq2"} /\ ~reordered' => ~reordered /\ Prefix'
      BY <3>a, <3>d, <3>e DEF loop
    <3>2. \A p \in 0..written : Explains(p) => Explains(p)'
      BY <3>1 DEF Explains, At
    <3> QED BY <3>1, <3>2
  <2>4. CASE StoreSeq
    <3>a. UNCHANGED <<written, bytes, seen, fpc, loop, held>> /\ seq' = seq + 1
      BY <2>4 DEF StoreSeq
    <3>b. reordered' = (reordered \/ (fpc \in {"copy", "seq2"} /\ ~Prefix'))
      BY <2>4, Zenon DEF StoreSeq, Ordered
    <3>d. fpc \in {"copy", "seq2"} /\ ~reordered' => ~reordered /\ Prefix'
      BY <3>b, Zenon
    <3>e. fpc \notin {"copy", "seq2"} => reordered' = reordered
      BY <3>b, Zenon DEF TypeOK
    <3>1. /\ UNCHANGED <<written, bytes, seen, fpc, s1, copied, snap,
                         stable, held>>
          /\ seq' = seq + 1
          /\ fpc \notin {"copy", "seq2"} => UNCHANGED reordered
      BY <3>a, <3>d, <3>e DEF loop
    <3> QED BY <2>0, <3>1
  <2>5. CASE EnterFlush
    BY <2>5 DEF EnterFlush, stores
  <2>6. CASE ReadSeq1
    <3>1. /\ UNCHANGED <<written, bytes, marked, seen, seq>>
          /\ fpc' = "copy" /\ s1' = seq /\ copied' = {} /\ held' = {seen}
          /\ reordered' = ~Prefix
      BY <2>6 DEF ReadSeq1, stores
    <3>2. ASSUME ~reordered'
          PROVE  Prefix' /\ \E p \in 0..written : Explains(p)'
      <4>1. Prefix /\ Prefix'
        BY <3>1, <3>2 DEF Prefix
      <4>2. PICK p \in 0..written : At(p) /\ p \in seq..(seq + 1)
        BY <4>1 DEF SeesPrefix
      <4>3. At(p)'
        BY <3>1, <4>2 DEF At
      <4>4. Explains(p)'
        BY <3>1, <4>2, <4>3 DEF Explains
      <4> QED BY <3>1, <4>1, <4>4
    <3> QED BY <2>0, <3>1, <3>2
  <2>7. ASSUME NEW c \in Cell, CopyByte(c) PROVE Inv'
    <3>1. /\ UNCHANGED <<written, bytes, marked, seen, seq, s1, stable,
                         held, reordered>>
          /\ fpc = "copy" /\ copied' = copied \cup {c}
          /\ fpc' \in {"copy", "seq2"} /\ (fpc' = "seq2" => copied' = Cell)
      BY <2>7 DEF CopyByte, stores, ghosts
    <3>2. snap'[c] = seen[c] /\ \A d \in Cell : d # c => snap'[d] = snap[d]
      BY <2>0, <2>7 DEF CopyByte, Image
    <3>3. ASSUME NEW p \in 0..written, Explains(p) PROVE Explains(p)'
      <4>1. At(p)' /\ p \in s1'..(s1' + 1)
        BY <3>1, <3>3 DEF Explains, At
      <4>2. CASE \A d \in copied : snap[d] = seen[d]
        <5>1. \A d \in copied' : snap'[d] = seen'[d]
          BY <2>0, <3>1, <3>2, <4>2
        <5> QED BY <4>1, <5>1 DEF Explains
      <4>3. CASE ~\A d \in copied : snap[d] = seen[d]
        <5>1. PICK h \in held, e \in Cell :
                   /\ \A d \in Cell \ {e} : h[d] = seen[d]
                   /\ \A d \in copied : snap[d] \in {h[d], seen[d]}
          BY <3>3, <4>3 DEF Explains
        <5>2. p = s1 + 1
          BY <3>3, <4>3 DEF Explains
        <5>3. \A d \in copied' : snap'[d] \in {h[d], seen[d]}
          BY <2>0, <3>1, <3>2, <5>1
        <5> QED BY <3>1, <4>1, <5>1, <5>2, <5>3 DEF Explains
      <4> QED BY <4>2, <4>3
    <3>4. Prefix => Prefix'
      BY <3>1 DEF Prefix
    <3> QED BY <3>1, <3>3, <3>4
  <2>8. CASE ReadSeq2
    <3>1. /\ UNCHANGED <<snap, held, reordered>>
          /\ fpc = "seq2" /\ fpc' \in {"open", "seq1"} /\ stable' = (s1 = seq)
      BY <2>8 DEF ReadSeq2, stores, ghosts
    <3>2. ASSUME s1 = seq, ~reordered PROVE snap \in held
      <4>1. PICK p \in 0..written : Explains(p)
        BY <3>1, <3>2
      <4>2. seen \in held /\ copied = Cell
        BY <3>1
      <4>3. CASE \A c \in copied : snap[c] = seen[c]
        <5>1. snap = seen
          BY <2>0, <4>2, <4>3 DEF Image
        <5> QED BY <4>2, <5>1
      <4>4. CASE ~\A c \in copied : snap[c] = seen[c]
        <5>1. PICK h \in held, e \in Cell :
                   /\ \A c \in Cell \ {e} : h[c] = seen[c]
                   /\ \A c \in copied : snap[c] \in {h[c], seen[c]}
          BY <4>1, <4>4 DEF Explains
        <5>2. h \in Image /\ \A c \in Cell : snap[c] \in {h[c], seen[c]}
          BY <2>0, <4>2, <5>1
        <5>3. \A c \in Cell \ {e} : snap[c] = h[c] /\ snap[c] = seen[c]
          BY <5>1, <5>2
        <5>4. CASE snap[e] = h[e]
          <6>1. \A c \in Cell : snap[c] = h[c]
            BY <5>3, <5>4
          <6>2. snap = h
            BY <2>0, <5>2, <6>1 DEF Image
          <6> QED BY <5>1, <6>2
        <5>5. CASE snap[e] = seen[e]
          <6>1. \A c \in Cell : snap[c] = seen[c]
            BY <5>3, <5>5
          <6>2. snap = seen
            BY <2>0, <6>1 DEF Image
          <6> QED BY <4>2, <6>2
        <5> QED BY <5>1, <5>2, <5>4, <5>5
      <4> QED BY <4>3, <4>4
    <3> QED BY <3>1, <3>2
  <2>9. CASE OpenTmp \/ WriteTmp \/ SyncTmp \/ UnlinkFinal \/ RenameTmp
    <3>1. /\ fpc \in Writing
          /\ Return \/ (fpc' \in Writing /\ UNCHANGED <<loop, held, reordered>>)
      BY <2>9 DEF OpenTmp, WriteTmp, SyncTmp, UnlinkFinal, RenameTmp, Abandon,
                  Proceed
    <3> QED BY <3>1 DEF Return, loop
  <2>10. CASE ClearDirty \/ PowerCycle
    BY <2>10 DEF ClearDirty, PowerCycle, Return
  <2>11. CASE ToggleSyx
    BY <2>11 DEF ToggleSyx, stores, loop, ghosts
  <2>12. CASE UNCHANGED vars
    <3>1. /\ UNCHANGED <<written, bytes, marked, seen, seq>>
          /\ UNCHANGED <<fpc, s1, copied, snap, stable, held, reordered>>
      BY <2>12 DEF vars, stores, loop, ghosts
    <3>2. /\ Prefix' = Prefix
          /\ \A p \in 0..written : Explains(p) => Explains(p)'
      BY <3>1 DEF Prefix, Explains, At
    <3> QED BY <3>1, <3>2
  <2>13. QED
    BY <2>1, <2>2, <2>3, <2>4, <2>5, <2>6, <2>7, <2>8, <2>9, <2>10, <2>11,
       <2>12
       DEF Next, Visible, PeriodicFlush, ManualFlush, FlushStep
<1>3. QED
  BY <1>1, <1>2, PrefixIsSeen, TypeCorrect, StoresInvariant, PTL DEF Spec

-----------------------------------------------------------------------------
(* What is lost.                                                           *)

LEMMA FlushInvariant == Spec => [](FlushInv /\ SavedInv)
<1> USE DEF FlushInv, SavedInv, Writing
<1>1. Init => FlushInv /\ SavedInv
  BY DEF Init, Late
<1>2. TypeOK /\ TmpInv /\ FlushInv /\ SavedInv /\ [Next]_vars
        => (FlushInv /\ SavedInv)'
  <2> SUFFICES ASSUME TypeOK, TmpInv, FlushInv, SavedInv, [Next]_vars
               PROVE  FlushInv' /\ SavedInv'
    OBVIOUS
  <2>0. /\ written \in Nat /\ marked \in 0..written /\ seen \in Image
        /\ snap \in Image /\ excused \subseteq Cell /\ copied \subseteq Cell
    BY DEF TypeOK
  <2>1. ASSUME NEW c \in Cell, NEW v \in Val, MCU_Write(c, v)
        PROVE  FlushInv' /\ SavedInv'
    <3>1. /\ UNCHANGED <<seen, dirty, fpc, copied, snap, final>>
          /\ marked' # written'
      BY <2>0, <2>1 DEF MCU_Write, loop, card
    <3>2. Late' = Late \cup {c}
      <4> DEFINE new == [n |-> written + 1, cell |-> c, val |-> v]
      <4>1. bytes' = bytes \cup {new} /\ new.cell = c
        BY <2>1 DEF MCU_Write
      <4> HIDE DEF new
      <4> QED BY <4>1 DEF Late
    <3>3. /\ fpc = "idle" => excused' = excused
          /\ fpc # "idle" => excused' = excused \cup {c}
      BY <2>1 DEF MCU_Write
    <3>4. FlushInv'
      BY <3>1, <3>2, <3>3
    <3>5. SavedInv'
      BY <3>1
    <3> QED BY <3>4, <3>5
  <2>2. ASSUME NEW b \in bytes, StoreByte(b) PROVE FlushInv' /\ SavedInv'
    <3>1. UNCHANGED <<written, marked, dirty, fpc, copied, snap, final, excused>>
      BY <2>2 DEF StoreByte, loop, card
    <3>2. Late' \subseteq Late /\ b.cell \in Late
      BY <2>2 DEF StoreByte, Late
    <3>3. \A c \in Cell \ {b.cell} : seen'[c] = seen[c]
      BY <2>2, ByteType
    <3>4. fpc # "idle" => b.cell \in excused
      BY <3>2
    <3>5. FlushInv'
      BY <2>0, <3>1, <3>2, <3>3, <3>4
    <3>6. SavedInv'
      BY <3>1, <3>2, <3>3
    <3> QED BY <3>5, <3>6
  <2>3. CASE StoreDirty
    <3>1. /\ UNCHANGED <<bytes, seen, fpc, copied, snap, final, excused>>
          /\ dirty'
      BY <2>3 DEF StoreDirty, loop, card
    <3> QED BY <3>1 DEF Late
  <2>4. CASE StoreSeq
    <3>1. UNCHANGED <<written, bytes, marked, seen, dirty, fpc, copied, snap,
                      final, excused>>
      BY <2>4 DEF StoreSeq, loop, card
    <3> QED BY <3>1 DEF Late
  <2>5. CASE EnterFlush
    <3>1. /\ UNCHANGED <<bytes, dirty>> /\ dirty
          /\ fpc' = "seq1" /\ excused' = Late
      BY <2>5 DEF EnterFlush, stores
    <3> QED BY <3>1 DEF Late
  <2>6. CASE ReadSeq1
    <3>1. /\ UNCHANGED <<bytes, dirty, excused>>
          /\ fpc = "seq1" /\ fpc' = "copy" /\ copied' = {}
      BY <2>6 DEF ReadSeq1, stores
    <3> QED BY <3>1 DEF Late
  <2>7. ASSUME NEW c \in Cell, CopyByte(c) PROVE FlushInv' /\ SavedInv'
    <3>1. /\ UNCHANGED <<bytes, seen, dirty, final, excused>>
          /\ fpc = "copy" /\ copied' = copied \cup {c}
          /\ fpc' \in {"copy", "seq2"} /\ (fpc' = "seq2" => copied' = Cell)
      BY <2>7 DEF CopyByte, stores, card, ghosts
    <3>2. snap'[c] = seen[c] /\ \A d \in Cell : d # c => snap'[d] = snap[d]
      BY <2>0, <2>7 DEF CopyByte, Image
    <3> QED BY <2>0, <3>1, <3>2 DEF Late
  <2>8. CASE ReadSeq2
    <3>1. /\ UNCHANGED <<bytes, seen, dirty, snap, final, excused>>
          /\ fpc = "seq2" /\ fpc' \in {"open", "seq1"}
      BY <2>8 DEF ReadSeq2, stores, card, ghosts
    <3> QED BY <3>1 DEF Late
  <2>9. CASE OpenTmp \/ WriteTmp \/ SyncTmp \/ UnlinkFinal \/ RenameTmp
    <3>1. UNCHANGED <<bytes, seen, dirty, excused>>
      BY <2>9 DEF OpenTmp, WriteTmp, SyncTmp, UnlinkFinal, RenameTmp, stores
    <3>2. /\ fpc \in Writing
          /\ \/ fpc' = "idle"
             \/ fpc' \in Writing /\ UNCHANGED snap
      BY <2>9 DEF OpenTmp, WriteTmp, SyncTmp, UnlinkFinal, RenameTmp, Abandon,
                  Return, Proceed, loop
    <3>3. fpc' = "clear" => final' = tmp /\ tmp = snap /\ UNCHANGED snap
      BY <2>9 DEF OpenTmp, WriteTmp, SyncTmp, UnlinkFinal, RenameTmp, Abandon,
                  Return, Proceed, loop, TmpInv
    <3>4. dirty /\ dirty'
      BY <3>1, <3>2
    <3> QED BY <3>1, <3>2, <3>3, <3>4 DEF Late
  <2>10. CASE ClearDirty
    <3>1. /\ UNCHANGED <<bytes, seen, final, excused>>
          /\ fpc = "clear" /\ fpc' = "idle"
      BY <2>10 DEF ClearDirty, Return, stores, card
    <3>2. Loaded(final) = snap /\ Late \subseteq excused
      BY <2>0, <3>1 DEF Loaded
    <3> QED BY <3>1, <3>2 DEF Late, Loaded
  <2>11. CASE ToggleSyx
    BY <2>11 DEF ToggleSyx, stores, loop, card, ghosts, Late
  <2>12. CASE PowerCycle
    <3>1. /\ fpc' = "idle" /\ bytes' = {} /\ final' = final
          /\ \/ seen' = Loaded(final) /\ excused' = {}
             \/ excused' = Cell
      BY <2>12 DEF PowerCycle, Return, card
    <3>2. Late' = {}
      BY <3>1 DEF Late
    <3> QED BY <3>1, <3>2 DEF Loaded
  <2>13. CASE UNCHANGED vars
    <3>1. UNCHANGED <<written, bytes, marked, seen, dirty, fpc, copied, snap,
                      final, excused>>
      BY <2>13 DEF vars, stores, loop, card, ghosts
    <3> QED BY <3>1 DEF Late
  <2>14. QED
    BY <2>1, <2>2, <2>3, <2>4, <2>5, <2>6, <2>7, <2>8, <2>9, <2>10, <2>11,
       <2>12, <2>13
       DEF Next, Visible, PeriodicFlush, ManualFlush, FlushStep
<1>3. QED
  BY <1>1, <1>2, TypeAndTmp, PTL DEF Spec

(* In whatever order the stores come: once all have come and the flag is   *)
(* down, only bytes with a store on its way while a flush was in progress  *)
(* may differ between the file and the card.                               *)
THEOREM LossOnlyRacing == Spec => []LossOnlyFromRacingStores
<1>1. SavedInv /\ StoresInv => LossOnlyFromRacingStores
  BY DEF SavedInv, StoresInv, SeenIsCard, LossOnlyFromRacingStores, Late
<1>2. QED
  BY <1>1, FlushInvariant, StoresInvariant, PTL

(* cardram_dirty goes down only behind a completed replacement.            *)
THEOREM DirtyCleared == Spec => DirtyClearedOnlyBySave
<1>1. TypeOK /\ FlushInv /\ [Next]_vars =>
        [dirty /\ ~dirty' => final = snap \/ cycles' # cycles]_vars
  <2> SUFFICES ASSUME TypeOK, FlushInv, [Next]_vars, dirty, ~dirty'
               PROVE  final = snap \/ cycles' # cycles
    OBVIOUS
  <2>1. CASE ClearDirty
    BY <2>1 DEF ClearDirty, FlushInv
  <2>2. CASE PowerCycle
    BY <2>2 DEF PowerCycle, TypeOK
  <2>3. CASE ~ClearDirty /\ ~PowerCycle
    <3>1. (dirty' = dirty) \/ dirty'
      BY <2>3 DEF Next, vars, Visible, MCU_Write, StoreByte, StoreDirty,
           StoreSeq, PeriodicFlush, ManualFlush, EnterFlush, FlushStep,
           ReadSeq1, CopyByte, ReadSeq2, OpenTmp, WriteTmp, SyncTmp,
           UnlinkFinal, RenameTmp, ToggleSyx
    <3> QED
      BY <3>1
  <2> QED
    BY <2>1, <2>2, <2>3
<1>2. QED
  BY <1>1, TypeCorrect, FlushInvariant, PTL DEF Spec, DirtyClearedOnlyBySave

-----------------------------------------------------------------------------
(* The flush implements the abstract save.                                 *)

\* Each byte copied was one the card had, as core 0 sees it, since this copy
\* began; and a flush begins with its first attempt.
CopiesInv ==
  /\ fpc = "idle" => try = 0
  /\ fpc \in {"copy", "seq2"} =>
       seen \in held /\ \A c \in copied : \E h \in held : snap[c] = h[c]
  /\ fpc = "seq2" => copied = Cell
  /\ fpc \in Writing => \A c \in Cell : \E h \in held : snap[c] = h[c]

LEMMA CopiesInvariant == Spec => []CopiesInv
<1> USE DEF CopiesInv, Writing
<1>1. Init => CopiesInv
  BY DEF Init
<1>2. TypeOK /\ CopiesInv /\ [Next]_vars => CopiesInv'
  <2> SUFFICES ASSUME TypeOK, CopiesInv, [Next]_vars PROVE CopiesInv'
    OBVIOUS
  <2>1. ASSUME NEW c \in Cell, NEW v \in Val, MCU_Write(c, v) PROVE CopiesInv'
    BY <2>1 DEF MCU_Write, loop
  <2>2. ASSUME NEW b \in bytes, StoreByte(b) PROVE CopiesInv'
    <3>1. /\ UNCHANGED <<fpc, try, copied, snap>>
          /\ held' = IF fpc \in {"copy", "seq2"} THEN held \cup {seen'} ELSE held
      BY <2>2 DEF StoreByte, loop
    <3> QED BY <3>1
  <2>3. CASE StoreDirty
    <3>1. UNCHANGED <<seen, fpc, try, copied, snap, held>>
      BY <2>3 DEF StoreDirty, loop
    <3> QED BY <3>1
  <2>4. CASE StoreSeq
    <3>1. UNCHANGED <<seen, fpc, try, copied, snap, held>>
      BY <2>4 DEF StoreSeq, loop
    <3> QED BY <3>1
  <2>5. CASE EnterFlush \/ ReadSeq1
    BY <2>5 DEF EnterFlush, ReadSeq1, stores
  <2>6. ASSUME NEW c \in Cell, CopyByte(c) PROVE CopiesInv'
    <3>1. snap'[c] = seen[c] /\ \A d \in Cell : d # c => snap'[d] = snap[d]
      BY <2>6 DEF CopyByte, TypeOK, Image
    <3>2. /\ UNCHANGED <<seen, held, try>> /\ copied' = copied \cup {c}
          /\ fpc = "copy" /\ fpc' \in {"copy", "seq2"}
          /\ fpc' = "seq2" => copied' = Cell
      BY <2>6 DEF CopyByte, stores, ghosts
    <3>3. copied \subseteq Cell
      BY DEF TypeOK
    <3> QED BY <3>1, <3>2, <3>3
  <2>7. CASE ReadSeq2
    BY <2>7 DEF ReadSeq2, stores, ghosts
  <2>8. CASE OpenTmp \/ WriteTmp \/ SyncTmp \/ UnlinkFinal \/ RenameTmp
    <3>1. /\ fpc \in Writing
          /\ \/ fpc' = "idle"
             \/ fpc' \in Writing /\ UNCHANGED <<snap, held>>
          /\ fpc' = "idle" => try' = 0
      BY <2>8 DEF OpenTmp, WriteTmp, SyncTmp, UnlinkFinal, RenameTmp, Abandon,
                  Return, Proceed, loop
    <3> QED BY <3>1
  <2>9. CASE ClearDirty \/ PowerCycle
    BY <2>9 DEF ClearDirty, PowerCycle, Return
  <2>10. CASE ToggleSyx
    BY <2>10 DEF ToggleSyx, stores, loop, ghosts
  <2>11. CASE UNCHANGED vars
    BY <2>11 DEF vars, stores, loop, ghosts
  <2> QED
    BY <2>1, <2>2, <2>3, <2>4, <2>5, <2>6, <2>7, <2>8, <2>9, <2>10, <2>11
       DEF Next, Visible, PeriodicFlush, ManualFlush, FlushStep
<1> QED BY <1>1, <1>2, TypeCorrect, PTL DEF Spec

saving == <<seen, dirty, final, Step, Copies, held, Ready>>

\* What a save is at each place of the flush.
LEMMA SaveIs ==
  /\ fpc = "idle" => Step = "idle" /\ Copies = 0 /\ Ready = Missing
  /\ fpc = "seq1" => Step = "copying" /\ Copies = try /\ Ready = Missing
  /\ fpc \in {"copy", "seq2", "open", "write", "sync"} =>
       Step = "copying" /\ Copies = try + 1 /\ Ready = Missing
  /\ fpc \in {"unlink", "rename"} =>
       Step = "ready" /\ Copies = try + 1 /\ Ready = tmp
  /\ fpc = "clear" => Step = "done" /\ Copies = try + 1 /\ Ready = Missing
BY DEF Step, Copies, Ready

LEMMA SaveWillBe ==
  /\ fpc' = "idle" => Step' = "idle" /\ Copies' = 0 /\ Ready' = Missing
  /\ fpc' = "seq1" => Step' = "copying" /\ Copies' = try' /\ Ready' = Missing
  /\ fpc' \in {"copy", "seq2", "open", "write", "sync"} =>
       Step' = "copying" /\ Copies' = try' + 1 /\ Ready' = Missing
  /\ fpc' \in {"unlink", "rename"} =>
       Step' = "ready" /\ Copies' = try' + 1 /\ Ready' = tmp'
  /\ fpc' = "clear" => Step' = "done" /\ Copies' = try' + 1 /\ Ready' = Missing
BY DEF Step, Copies, Ready

\* A flush that returns is no save any more.
LEMMA ReturnEnds == Return => Saved!NoSave'
BY SaveWillBe DEF Return, Saved!NoSave

\* Core 2: only the stores of the byte and of the flag are steps of the card,
\* when they come.
LEMMA StoresAreWrites ==
  ASSUME TypeOK, \/ \E c \in Cell, v \in Val : MCU_Write(c, v)
                 \/ Visible
  PROVE  Saved!Write \/ Saved!Mark \/ UNCHANGED saving
<1>1. ASSUME NEW c \in Cell, NEW v \in Val, MCU_Write(c, v)
      PROVE  UNCHANGED saving
  BY <1>1 DEF MCU_Write, loop, card, saving, Step, Copies, Ready
<1>2. ASSUME NEW b \in bytes, StoreByte(b) PROVE Saved!Write
  <2>1. UNCHANGED <<dirty, final, fpc, try, tmp>>
    BY <1>2 DEF StoreByte, loop, card
  <2>2. b.cell \in Cell /\ b.val \in Val /\ seen' = [seen EXCEPT ![b.cell] = b.val]
    BY <1>2, ByteType DEF StoreByte
  <2>3. held' = IF fpc \in {"copy", "seq2"} THEN held \cup {seen'} ELSE held
    BY <1>2 DEF StoreByte
  <2>4. UNCHANGED <<Step, Copies, Ready>>
    BY <2>1 DEF Step, Copies, Ready
  <2>5. (Step = "copying" /\ held' = held \cup {seen'}) \/ held' = held
    BY <2>3, SaveIs
  <2> QED BY <2>1, <2>2, <2>4, <2>5 DEF Saved!Write
<1>3. CASE StoreDirty
  <2>1. UNCHANGED <<seen, final, fpc, try, tmp, held>> /\ dirty' = TRUE
    BY <1>3 DEF StoreDirty, loop, card
  <2> QED BY <2>1 DEF Saved!Mark, Step, Copies, Ready
<1>4. CASE StoreSeq
  <2>1. UNCHANGED <<seen, dirty, final, fpc, try, tmp, held>>
    BY <1>4 DEF StoreSeq, loop, card
  <2> QED BY <2>1 DEF saving, Step, Copies, Ready
<1> QED BY <1>1, <1>2, <1>3, <1>4 DEF Visible

\* The snapshot loop: its copying and its second read of cardram_seq are
\* hidden.
LEMMA SnapshotIsCopy ==
  ASSUME TypeOK, CopiesInv,
         EnterFlush \/ ReadSeq1 \/ (\E c \in Cell : CopyByte(c)) \/ ReadSeq2
  PROVE  Saved!Begin \/ Saved!Copy \/ UNCHANGED saving
<1>0. try \in Nat /\ try < MaxTries
  BY CardAssumption DEF TypeOK, CardAssumption
<1>1. CASE EnterFlush
  <2>1. /\ fpc = "idle" /\ fpc' = "seq1" /\ dirty
        /\ UNCHANGED <<seen, dirty, final, held, try>>
    BY <1>1 DEF EnterFlush, stores, loop, card
  <2>2. Copies' = Copies
    <3>1. try = 0
      BY <2>1 DEF CopiesInv
    <3> QED BY <2>1, <3>1, SaveIs, SaveWillBe
  <2> QED BY <2>1, <2>2, SaveIs, SaveWillBe DEF Saved!Begin
<1>2. CASE ReadSeq1
  <2>1. /\ fpc = "seq1" /\ fpc' = "copy" /\ held' = {seen}
        /\ UNCHANGED <<seen, dirty, final, try>>
    BY <1>2 DEF ReadSeq1, stores, card
  <2> QED BY <1>0, <2>1, SaveIs, SaveWillBe DEF Saved!Copy
<1>3. ASSUME NEW c \in Cell, CopyByte(c) PROVE UNCHANGED saving
  <2>1. /\ fpc = "copy" /\ fpc' \in {"copy", "seq2"}
        /\ UNCHANGED <<seen, dirty, final, held, try>>
    BY <1>3 DEF CopyByte, stores, card, ghosts
  <2> QED BY <2>1, SaveIs, SaveWillBe DEF saving
<1>4. CASE ReadSeq2
  <2>1. /\ fpc = "seq2" /\ UNCHANGED <<seen, dirty, final, held>>
        /\ \/ fpc' = "open" /\ try' = try
           \/ fpc' = "seq1" /\ try' = try + 1
    BY <1>4 DEF ReadSeq2, stores, card, ghosts
  <2> QED BY <2>1, SaveIs, SaveWillBe DEF saving
<1> QED BY <1>1, <1>2, <1>3, <1>4

\* The sync of the temp file makes the copy ready.
LEMMA SyncPrepares ==
  ASSUME TypeOK, CopiesInv, SyncTmp PROVE Saved!Prepare \/ Saved!Fail
<1>1. CASE Proceed("unlink") /\ tmp' = snap /\ UNCHANGED final
  <2>1. /\ fpc = "sync" /\ fpc' = "unlink" /\ tmp' = snap
        /\ UNCHANGED <<seen, dirty, final, held, try>>
    BY <1>1 DEF SyncTmp, Proceed, stores, loop
  <2>2. /\ Step = "copying" /\ Step' = "ready" /\ Copies = try + 1
        /\ Copies' = try + 1 /\ Ready' = snap
    BY <2>1, SaveIs, SaveWillBe
  <2>3. try + 1 > 0
    BY CardAssumption DEF TypeOK, CardAssumption
  <2>4. snap \in Saved!Mixed(held)
    BY <2>1 DEF TypeOK, CopiesInv, Writing, Saved!Mixed, Saved!Image, Image
  <2> QED BY <2>1, <2>2, <2>3, <2>4 DEF Saved!Prepare
<1>2. CASE Abandon
  <2>1. fpc = "sync" /\ Return /\ UNCHANGED <<seen, dirty, final>>
    BY <1>2 DEF SyncTmp, Abandon, stores
  <2> QED BY <2>1, SaveIs, ReturnEnds DEF Saved!Fail
<1> QED BY <1>1, <1>2 DEF SyncTmp

\* The other calls of WriteCardRamFileAtomic, each of which may fail.
LEMMA CallsReplace ==
  ASSUME TypeOK, OpenTmp \/ WriteTmp \/ UnlinkFinal \/ RenameTmp \/ ClearDirty
  PROVE  \/ Saved!Remove \/ Saved!Replace \/ Saved!Clean \/ Saved!Fail
         \/ UNCHANGED saving
<1>1. CASE OpenTmp \/ WriteTmp
  <2>1. /\ fpc \in {"open", "write"} /\ UNCHANGED <<seen, dirty, final>>
        /\ \/ Return
           \/ fpc' \in {"write", "sync"} /\ UNCHANGED <<try, held>>
    BY <1>1 DEF OpenTmp, WriteTmp, Abandon, Proceed, stores, loop, card
  <2>2. CASE Return
    BY <2>1, <2>2, SaveIs, ReturnEnds DEF Saved!Fail
  <2>3. CASE ~Return
    BY <2>1, <2>3, SaveIs, SaveWillBe DEF saving
  <2> QED BY <2>2, <2>3
<1>2. CASE UnlinkFinal
  <2>1. /\ fpc = "unlink" /\ fpc' = "rename" /\ final' \in {Missing, final}
        /\ UNCHANGED <<seen, dirty, held, try, tmp>>
    BY <1>2 DEF UnlinkFinal, Proceed, stores, loop
  <2>2. Step = "ready" /\ UNCHANGED <<Step, Copies, Ready>>
    BY <2>1, SaveIs, SaveWillBe
  <2> QED BY <2>1, <2>2 DEF saving, Saved!Remove
<1>3. CASE RenameTmp
  <2>1. fpc = "rename" /\ UNCHANGED <<seen, dirty>>
    BY <1>3 DEF RenameTmp, stores
  <2>2. CASE Proceed("clear")
    <3>1. /\ fpc' = "clear" /\ UNCHANGED <<try, held>>
          /\ final = Missing /\ final' = tmp
      BY <1>3, <2>2 DEF RenameTmp, Proceed, Abandon, Return, loop
    <3> QED BY <2>1, <3>1, SaveIs, SaveWillBe DEF Saved!Replace
  <2>3. CASE ~Proceed("clear")
    <3>1. Return /\ UNCHANGED final
      BY <1>3, <2>3 DEF RenameTmp, Abandon
    <3> QED BY <2>1, <3>1, SaveIs, ReturnEnds DEF Saved!Fail
  <2> QED BY <2>2, <2>3
<1>4. CASE ClearDirty
  <2>1. /\ fpc = "clear" /\ Return /\ dirty' = FALSE /\ UNCHANGED <<seen, final>>
    BY <1>4 DEF ClearDirty, stores, card
  <2> QED BY <2>1, SaveIs, ReturnEnds DEF Saved!Clean
<1> QED BY <1>1, <1>2, <1>3, <1>4

(* The stores in any order, the snapshot loop and the storage calls with   *)
(* their failures implement a save: the old file goes only when a copy is  *)
(* whole, each byte of what replaces it is one the card had, as core 0     *)
(* sees it, since that copy began, and the flag goes down last.            *)
THEOREM FlushIsSave == Spec => RefinesSavedCard
<1>1. Init => Saved!Init
  <2> SUFFICES ASSUME Init PROVE Saved!Init
    OBVIOUS
  <2>1. Saved!NoSave
    BY SaveIs DEF Init, Saved!NoSave
  <2> QED BY <2>1 DEF Init, Saved!Init, Loaded, Saved!Boot, Image, Saved!Image
<1>2. TypeOK /\ CopiesInv /\ [Next]_vars => [Saved!Next]_saving
  <2> SUFFICES ASSUME TypeOK, CopiesInv, [Next]_vars
               PROVE  Saved!Next \/ UNCHANGED saving
    OBVIOUS
  <2>1. CASE (\E c \in Cell, v \in Val : MCU_Write(c, v)) \/ Visible
    BY <2>1, StoresAreWrites DEF Saved!Next
  <2>2. CASE PeriodicFlush \/ ManualFlush
    BY <2>2, SnapshotIsCopy DEF PeriodicFlush, ManualFlush, Saved!Next
  <2>3. CASE FlushStep
    BY <2>3, SnapshotIsCopy, SyncPrepares, CallsReplace
       DEF FlushStep, Saved!Next
  <2>4. CASE ToggleSyx
    BY <2>4 DEF ToggleSyx, stores, loop, card, ghosts, saving, Step, Copies,
                Ready
  <2>5. CASE PowerCycle
    <3>1. seen' \in {Saved!Boot(final), Saved!Boot(Missing)}
      BY <2>5, CardAssumption
         DEF PowerCycle, Loaded, Saved!Boot, Image, Saved!Image,
             CardAssumption
    <3>2. Saved!NoSave'
      BY <2>5, ReturnEnds DEF PowerCycle
    <3> QED BY <2>5, <3>1, <3>2 DEF PowerCycle, card, Saved!Restart, Saved!Next
  <2>6. CASE UNCHANGED vars
    BY <2>6 DEF vars, stores, loop, card, ghosts, saving, Step, Copies, Ready
  <2> QED BY <2>1, <2>2, <2>3, <2>4, <2>5, <2>6 DEF Next
<1> QED BY <1>1, <1>2, TypeCorrect, CopiesInvariant, PTL
           DEF Spec, RefinesSavedCard, Saved!Spec, saving
=============================================================================
