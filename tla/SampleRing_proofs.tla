-------------------------- MODULE SampleRing_proofs --------------------------
(***************************************************************************)
(* The sample ring for every size of the ring, range of its indices and    *)
(* length of a pass: as long as core 2 is never more than a ring ahead, no *)
(* lock is needed.                                                         *)
(***************************************************************************)
EXTENDS SampleRing, SequenceTheorems, TLAPS

LEMMA Constants ==
  /\ Size \in Nat /\ Size > 1 /\ Chunk \in 1..(Size - 1)
  /\ Modulus \in Nat /\ Modulus > Size /\ Modulus % Size = 0
  /\ MaxBacklog \in Nat /\ MaxBacklog > 0
  BY SizeAssumption, ModulusAssumption, BacklogAssumption

(* Indices wrap, and with them their differences.                          *)

LEMMA DiffValue ==
  \A a, b \in Index : /\ Diff(a, b) = IF b <= a THEN a - b ELSE a - b + Modulus
                      /\ Diff(a, b) \in Index
<1> SUFFICES ASSUME NEW a \in Index, NEW b \in Index
             PROVE  /\ Diff(a, b) = IF b <= a THEN a - b ELSE a - b + Modulus
                    /\ Diff(a, b) \in Index
  OBVIOUS
<1>1. \A x \in 0..Modulus - 1 : x % Modulus = x
  BY Constants
<1>2. \A x \in Modulus..2 * Modulus - 1 : x % Modulus = x - Modulus
  BY Constants
<1>. QED BY <1>1, <1>2, Constants DEF Diff, Index

LEMMA PlusValue ==
  \A a \in Index, n \in 0..Modulus :
    /\ Plus(a, n) = IF a + n < Modulus THEN a + n ELSE a + n - Modulus
    /\ Plus(a, n) \in Index
<1> SUFFICES ASSUME NEW a \in Index, NEW n \in 0..Modulus
             PROVE  /\ Plus(a, n) = IF a + n < Modulus THEN a + n
                                    ELSE a + n - Modulus
                    /\ Plus(a, n) \in Index
  OBVIOUS
<1>1. \A x \in 0..Modulus - 1 : x % Modulus = x
  BY Constants
<1>2. \A x \in Modulus..2 * Modulus - 1 : x % Modulus = x - Modulus
  BY Constants
<1>. QED BY <1>1, <1>2, Constants DEF Plus, Index

LEMMA Advance ==
  ASSUME NEW a \in Index, NEW b \in Index
  PROVE  /\ Diff(a, b) + 1 < Modulus => Diff(Plus(a, 1), b) = Diff(a, b) + 1
         /\ \A n \in 0..Diff(a, b) : Diff(a, Plus(b, n)) = Diff(a, b) - n
<1>1. Modulus \in Nat /\ Modulus > 1 /\ a \in 0..Modulus - 1
      /\ b \in 0..Modulus - 1
  BY Constants DEF Index
<1>2. Diff(a, b) = (IF b <= a THEN a - b ELSE a - b + Modulus)
      /\ Diff(a, b) \in 0..Modulus - 1
  BY DiffValue DEF Index
<1>3. ASSUME Diff(a, b) + 1 < Modulus
      PROVE  Diff(Plus(a, 1), b) = Diff(a, b) + 1
  <2>1. Plus(a, 1) = (IF a + 1 < Modulus THEN a + 1 ELSE a + 1 - Modulus)
        /\ Plus(a, 1) \in Index
    BY <1>1, PlusValue
  <2>2. Diff(Plus(a, 1), b) =
          IF b <= Plus(a, 1) THEN Plus(a, 1) - b ELSE Plus(a, 1) - b + Modulus
    BY <2>1, DiffValue
  <2>. QED BY <1>1, <1>2, <1>3, <2>1, <2>2
<1>4. ASSUME NEW n \in 0..Diff(a, b)
      PROVE  Diff(a, Plus(b, n)) = Diff(a, b) - n
  <2>1. n \in 0..Modulus
    BY <1>1, <1>2
  <2>2. Plus(b, n) = (IF b + n < Modulus THEN b + n ELSE b + n - Modulus)
        /\ Plus(b, n) \in Index
    BY <2>1, PlusValue
  <2>3. Diff(a, Plus(b, n)) =
          IF Plus(b, n) <= a THEN a - Plus(b, n) ELSE a - Plus(b, n) + Modulus
    BY <2>2, DiffValue
  <2>. QED BY <1>1, <1>2, <2>1, <2>2, <2>3
<1>. QED BY <1>3, <1>4

(* Slots of indices less than a ring apart are different; going once round *)
(* the indices leaves the slot as it is.                                   *)

LEMMA SlotRange == \A i \in Nat : Slot(i) \in 0..(Size - 1)
  BY Constants DEF Slot

LEMMA Division ==
  ASSUME NEW i \in Nat
  PROVE  /\ i \div Size \in Int /\ Slot(i) \in 0..(Size - 1)
         /\ i = Size * (i \div Size) + Slot(i)
<1>1. Size \in Nat /\ Size > 0
  BY Constants
<1> HIDE SizeAssumption, ModulusAssumption
<1>2. i \div Size \in Int
  BY <1>1
<1>3. (i % Size) \in 0..Size - 1
  BY <1>1
<1>4. i = Size * (i \div Size) + (i % Size)
  BY <1>1
<1>. QED BY <1>2, <1>3, <1>4 DEF Slot

LEMMA Multiples ==
  ASSUME NEW s \in Nat, NEW k \in Int
  PROVE  /\ k >= 1 => s * k >= s
         /\ k <= -1 => s * k <= -s
         /\ k = 0 => s * k = 0
<1>1. k >= 1 => s * k >= s
  OBVIOUS
<1>2. k <= -1 => s * k <= -s
  OBVIOUS
<1>. QED BY <1>1, <1>2

LEMMA SlotApart == \A i \in Nat, d \in 1..(Size - 1) : Slot(i) # Slot(i + d)
<1> SUFFICES ASSUME NEW i \in Nat, NEW d \in 1..(Size - 1),
                    Slot(i) = Slot(i + d)
             PROVE  FALSE
  OBVIOUS
<1> DEFINE p == i \div Size
           q == (i + d) \div Size
<1>1. Size \in Nat /\ d \in Nat /\ d < Size /\ d >= 1
  BY Constants
<1>2. /\ p \in Int /\ Slot(i) \in 0..(Size - 1) /\ i = Size * p + Slot(i)
      /\ q \in Int /\ i + d = Size * q + Slot(i)
  <2>1. i + d \in Nat
    BY <1>1
  <2>2. /\ q \in Int /\ i + d = Size * q + Slot(i + d)
    BY <2>1, Division, Zenon
  <2>3. p \in Int /\ Slot(i) \in 0..(Size - 1) /\ i = Size * p + Slot(i)
    BY Division, Zenon
  <2>. QED BY <2>2, <2>3
<1> HIDE DEF p, q
<1>3. d = Size * q - Size * p
  BY <1>1, <1>2
<1>4. d = Size * (q - p) /\ q - p \in Int
  BY <1>1, <1>2, <1>3
<1>5. PICK k \in Int : k = q - p
  BY <1>4
<1>6. d = Size * k
  BY <1>4, <1>5
<1>7. k >= 1 \/ k <= -1 \/ k = 0
  BY <1>5
<1>8. Size * k >= Size \/ Size * k <= -Size \/ Size * k = 0
  BY <1>1, <1>7, Multiples
<1>. QED BY <1>1, <1>6, <1>8

LEMMA SlotWrap == \A i \in Nat : Slot(i + Modulus) = Slot(i)
<1> SUFFICES ASSUME NEW i \in Nat PROVE Slot(i + Modulus) = Slot(i)
  OBVIOUS
<1> DEFINE m == Modulus \div Size
           p == i \div Size
           q == (i + Modulus) \div Size
<1>1. Size \in Nat /\ Modulus \in Nat /\ Slot(Modulus) = 0 /\ Size > 1
  BY Constants DEF Slot
<1>2. /\ m \in Int /\ Modulus = Size * m
      /\ p \in Int /\ Slot(i) \in 0..(Size - 1) /\ i = Size * p + Slot(i)
      /\ q \in Int /\ Slot(i + Modulus) \in 0..(Size - 1)
      /\ i + Modulus = Size * q + Slot(i + Modulus)
  <2>1. i + Modulus \in Nat
    BY <1>1
  <2>2. /\ q \in Int /\ Slot(i + Modulus) \in 0..(Size - 1)
        /\ i + Modulus = Size * q + Slot(i + Modulus)
    BY <2>1, Division, Zenon
  <2>3. p \in Int /\ Slot(i) \in 0..(Size - 1) /\ i = Size * p + Slot(i)
    BY Division, Zenon
  <2>4. m \in Int /\ Modulus = Size * m + Slot(Modulus)
    BY <1>1, Division, Zenon
  <2>5. Modulus = Size * m
    <3> HIDE DEF m
    <3>1. Size * m \in Int
      BY <1>1, <2>4
    <3>. QED BY <1>1, <2>4, <3>1
  <2>. QED BY <2>2, <2>3, <2>4, <2>5
<1> HIDE DEF m, p, q
<1>3. PICK k \in Int : k = p + m - q
  BY <1>2
<1>4. Slot(i + Modulus) - Slot(i) = Size * p + Size * m - Size * q
  <2> DEFINE x == Size * p
             y == Size * m
             z == Size * q
  <2>1. x \in Int /\ y \in Int /\ z \in Int
    BY <1>1, <1>2
  <2>2. i = x + Slot(i) /\ Modulus = y /\ i + Modulus = z + Slot(i + Modulus)
        /\ Slot(i) \in Int /\ Slot(i + Modulus) \in Int
    BY <1>2
  <2> HIDE DEF x, y, z
  <2>3. Slot(i + Modulus) - Slot(i) = x + y - z
    BY <2>1, <2>2
  <2>. QED BY <2>3 DEF x, y, z
<1>5. Slot(i + Modulus) - Slot(i) = Size * k
  BY <1>1, <1>2, <1>3, <1>4
<1>6. k >= 1 \/ k <= -1 \/ k = 0
  BY <1>3
<1>7. Size * k >= Size \/ Size * k <= -Size \/ Size * k = 0
  BY <1>1, <1>6, Multiples
<1>8. Slot(i) \in 0..(Size - 1) /\ Slot(i + Modulus) \in 0..(Size - 1)
  BY <1>2
<1> DEFINE a == Slot(i + Modulus)
           b == Slot(i)
           e == Size * k
<1>9. a - b = e /\ a \in 0..(Size - 1) /\ b \in 0..(Size - 1)
      /\ (e >= Size \/ e <= -Size \/ e = 0)
  BY <1>5, <1>7, <1>8
<1> HIDE DEF a, b, e
<1>10. a = b
  BY <1>1, <1>9
<1>. QED BY <1>10 DEF a, b

LEMMA SlotAhead ==
  \A a, b \in Index : Slot(a) = Slot(b + Diff(a, b))
<1> SUFFICES ASSUME NEW a \in Index, NEW b \in Index
             PROVE  Slot(a) = Slot(b + Diff(a, b))
  OBVIOUS
<1>1. b + Diff(a, b) = a \/ b + Diff(a, b) = a + Modulus
  <2>1. Diff(a, b) = IF b <= a THEN a - b ELSE a - b + Modulus
    BY DiffValue
  <2>. QED BY <2>1, Constants DEF Index
<1>2. a \in Nat
  BY Constants DEF Index
<1>. QED BY <1>1, <1>2, SlotWrap
----------------------------------------------------------------------------
(* The invariant.                                                          *)

Copied ==
  /\ cr = r /\ Diff(cw, r) <= Diff(w, r) /\ Len(copy) <= Diff(cw, r)
  /\ \A k \in 1..Len(copy) : copy[k] = buf[Slot(r + k - 1)]

(* While the ring is calm, core 3 finds room for the frame it is about to  *)
(* publish, so that only core 2 moves the read index; core 2 works on what *)
(* was published when it looked.                                           *)
Calm ==
  /\ rpc = "off" /\ Ahead <= Size
  /\ ppc # "drop" /\ (ppc # "idle" => cur = w)
  /\ ppc \in {"check", "publish"} => buf[Slot(w)] = made
  /\ cpc = "loadr" => Diff(cw, r) <= Diff(w, r)
  /\ cpc = "copy" => Copied

Kept ==
  /\ TypeOK /\ copy \in Seq(0..Silence) /\ calm \in BOOLEAN
  /\ cpc # "copy" => copy = <<>>

Inv == Kept /\ (calm => Calm)

LEMMA Ranges ==
  ASSUME Kept
  PROVE  /\ w \in Index /\ r \in Index /\ cur \in Index
         /\ cw \in Index /\ cr \in Index
         /\ due \in Nat /\ need \in Nat /\ Len(copy) \in Nat
         /\ Diff(w, r) \in Index /\ Diff(cw, cr) \in Index
         /\ Index \subseteq Nat
<1>1. w \in Index /\ r \in Index /\ cur \in Index /\ cw \in Index /\ cr \in Index
  BY DEF Kept, TypeOK
<1>2. due \in Nat /\ need \in Nat /\ Len(copy) \in Nat
  BY Constants DEF Kept, TypeOK
<1>3. Diff(w, r) \in Index /\ Diff(cw, cr) \in Index
  BY <1>1, DiffValue
<1>4. Index \subseteq Nat
  BY Constants DEF Index
<1>. QED BY <1>1, <1>2, <1>3, <1>4

(* The smaller of two numbers.                                             *)
LEMMA MinOfTwo ==
  \A a, b \in Nat : /\ Min({a, b}) \in Nat
                    /\ Min({a, b}) <= a /\ Min({a, b}) <= b
                    /\ Min({a, b}) \in {a, b}
<1> SUFFICES ASSUME NEW a \in Nat, NEW b \in Nat
             PROVE  /\ Min({a, b}) \in {a, b}
                    /\ Min({a, b}) <= a /\ Min({a, b}) <= b
  OBVIOUS
<1>1. \E x \in {a, b} : \A y \in {a, b} : x <= y
  OBVIOUS
<1>. QED BY <1>1 DEF Min

LEMMA WhatToCopy ==
  ASSUME Kept
  PROVE  ToCopy \in Nat /\ ToCopy <= need /\ ToCopy <= Diff(cw, cr)
<1>1. need \in Nat /\ Diff(cw, cr) \in Nat
  BY Ranges
<1>. QED BY <1>1, MinOfTwo DEF ToCopy

LEMMA InvInit == Init => Inv
<1> SUFFICES ASSUME Init PROVE Inv
  OBVIOUS
<1> USE DEF Init
<1>1. /\ 0 \in Index /\ 0 \in 0..MaxBacklog
      /\ 0 \in 0..Chunk /\ 0 \in 0..(Frames - 1)
  BY Constants DEF Index, Frames
<1>2. buf \in [0..(Size - 1) -> 0..Silence]
  BY Constants DEF Silence, Frames
<1>3. Kept
  BY <1>1, <1>2 DEF Kept, TypeOK
<1>4. Diff(w, r) = 0
  BY <1>1, DiffValue
<1>5. Ahead = 0
  BY <1>4 DEF Ahead
<1>6. Calm
  BY <1>5, Constants DEF Calm
<1>. QED BY <1>3, <1>6 DEF Inv

LEMMA PostKept == Kept /\ PostSample => Kept'
<1> SUFFICES ASSUME Kept, PostSample PROVE Kept'
  OBVIOUS
<1> USE DEF Kept, TypeOK, consumer, race
<1>1. CASE LoadWrite
  BY <1>1, Constants DEF LoadWrite
<1>2. CASE StoreFrame
  <2>1. Slot(cur) \in 0..(Size - 1) /\ made \in 0..Silence
    <3>1. cur \in Nat
      BY Ranges
    <3>2. made \in 0..Silence
      BY Constants DEF Frames, Silence
    <3>. QED BY <3>1, <3>2, SlotRange
  <2>. QED BY <1>2, <2>1 DEF StoreFrame
<1>3. CASE CheckRoom
  BY <1>3 DEF CheckRoom
<1>4. CASE DropOldest
  <2>1. 1 \in 0..Modulus /\ Size \in Index
    BY Constants DEF Index
  <2>2. Plus(cur, 1) \in Index
    BY <2>1, PlusValue
  <2>3. r' \in Index
    BY <1>4, <2>1, <2>2, DiffValue DEF DropOldest
  <2>. QED BY <1>4, <2>3 DEF DropOldest
<1>5. CASE Publish
  <2>1. 1 \in 0..Modulus /\ 0 \in Index
    BY Constants DEF Index
  <2>2. Plus(cur, 1) \in Index
    BY <2>1, PlusValue
  <2>3. (made + 1) % Frames \in 0..(Frames - 1)
    BY Constants DEF Frames
  <2>. QED BY <1>5, <2>1, <2>2, <2>3 DEF Publish
<1>. QED BY <1>1, <1>2, <1>3, <1>4, <1>5 DEF PostSample

LEMMA PassKept == Kept /\ OutputPass => Kept'
<1> SUFFICES ASSUME Kept, OutputPass PROVE Kept'
  OBVIOUS
<1> USE DEF Kept, TypeOK, producer, race
<1>1. 0 \in Index /\ Index \subseteq Nat /\ Chunk \in Nat
  BY Constants DEF Index
<1>2. CASE BeginPass
  BY <1>1, <1>2 DEF BeginPass
<1>3. CASE LoadWriteIdx
  BY <1>3 DEF LoadWriteIdx
<1>4. CASE LoadReadIdx
  <2>1. /\ cw' \in Index /\ cr' \in Index
        /\ cpc' \in {"burst", "copy"} /\ copy = <<>>
    BY <1>1, <1>4 DEF LoadReadIdx
  <2>. QED BY <1>4, <2>1 DEF LoadReadIdx
<1>5. CASE CopyFrame
  <2>1. cr + Len(copy) \in Nat
    <3>1. cr \in Nat /\ Len(copy) \in Nat
      BY Ranges
    <3>. QED BY <3>1
  <2>2. Slot(cr + Len(copy)) \in 0..(Size - 1)
    BY <2>1, SlotRange
  <2>3. buf[Slot(cr + Len(copy))] \in 0..Silence
    BY <2>2
  <2>4. copy' \in Seq(0..Silence) /\ Len(copy') = Len(copy) + 1
    BY <1>5, <2>3 DEF CopyFrame
  <2>5. Len(copy') <= need
    BY <1>5, <2>4, WhatToCopy DEF CopyFrame
  <2>. QED BY <1>5, <2>4, <2>5 DEF CopyFrame
<1>6. CASE StoreRead
  <2>1. Len(copy) \in 0..Modulus
    BY <1>6, WhatToCopy, Ranges, Constants DEF StoreRead, Index
  <2>2. r' \in Index
    BY <1>6, <2>1, PlusValue DEF StoreRead
  <2>3. need' \in 0..Chunk
    BY <1>1, <1>6, Ranges DEF StoreRead
  <2>4. cpc' \in {"idle", "load"}
    BY <1>6 DEF StoreRead
  <2>. QED BY <1>1, <1>6, <2>2, <2>3, <2>4 DEF StoreRead
<1>7. CASE RunBurst
  <2>1. due' \in 0..MaxBacklog
    <3>1. due \in Nat /\ Diff(w, r) \in Nat /\ MaxBacklog \in Nat
      BY Ranges, Constants
    <3>2. Ahead >= due
      BY <3>1 DEF Ahead
    <3>3. Ahead \in Nat
      BY <3>1 DEF Ahead
    <3>. QED BY <1>7, <3>1, <3>2, <3>3 DEF RunBurst
  <2>2. calm' \in BOOLEAN
    BY <1>7 DEF RunBurst
  <2>. QED BY <1>7, <2>1, <2>2 DEF RunBurst
<1>. QED BY <1>2, <1>3, <1>4, <1>5, <1>6, <1>7 DEF OutputPass

LEMMA KeptStep == Kept /\ [Next]_vars => Kept'
<1> SUFFICES ASSUME Kept, [Next]_vars PROVE Kept'
  OBVIOUS
<1> USE DEF Kept, TypeOK, producer, consumer
<1>1. 0 \in Index /\ 0 \in 0..MaxBacklog /\ 0 \in 0..Chunk
  BY Constants DEF Index
<1>2. Emptied \in [0..(Size - 1) -> 0..Silence]
  BY Constants DEF Emptied, Silence, Frames
<1>3. CASE SC55_Reset
  BY <1>1, <1>2, <1>3 DEF SC55_Reset, race
<1>4. CASE ResetRing
  BY <1>1, <1>2, <1>4 DEF ResetRing, ResetWrite, ResetRead, ResetBuffer
<1>5. CASE UNCHANGED vars
  BY <1>5 DEF vars, race
<1>. QED BY <1>3, <1>4, <1>5, PostKept, PassKept DEF Next

(* What is in the ring is not where core 3 writes.                         *)
LEMMA NotInTheWay ==
  ASSUME Kept, Diff(w, r) < Size, NEW k \in 1..Diff(w, r)
  PROVE  Slot(r + k - 1) # Slot(w)
<1>1. Diff(w, r) \in Nat /\ r \in Nat /\ Size \in Nat /\ k \in Nat
  BY Ranges, Constants
<1>2. Slot(w) = Slot(r + Diff(w, r))
  BY Ranges, SlotAhead
<1>3. PICK i \in Nat, d \in 1..(Size - 1) :
        i = r + k - 1 /\ i + d = r + Diff(w, r)
  <2>1. r + k - 1 \in Nat /\ Diff(w, r) - k + 1 \in 1..(Size - 1)
        /\ r + k - 1 + (Diff(w, r) - k + 1) = r + Diff(w, r)
    BY <1>1
  <2>. QED BY <2>1
<1>. QED BY <1>2, <1>3, SlotApart

LEMMA PostCalm ==
  ASSUME Inv, PostSample, calm'
  PROVE  Calm'
<1> USE DEF Inv
<1>1. /\ calm /\ Calm /\ rpc' = "off" /\ Kept
      /\ cpc' = cpc /\ cw' = cw /\ cr' = cr /\ copy' = copy
  BY DEF PostSample, LoadWrite, StoreFrame, CheckRoom, DropOldest, Publish,
         race, consumer, Calm
<1>2. /\ Diff(w, r) \in Nat /\ due \in Nat /\ Size \in Nat /\ Size < Modulus
      /\ w \in Index /\ r \in Index
  BY Ranges, Constants
<1>3. Ahead = IF ppc = "idle" THEN due + Diff(w, r) ELSE due + Diff(w, r) + 1
  BY <1>2 DEF Ahead
<1>4. CASE LoadWrite
  <2>1. /\ w' = w /\ r' = r /\ buf' = buf /\ ppc = "idle" /\ ppc' = "store"
        /\ cur' = w /\ due' = due - 1 /\ due > 0
    BY <1>4 DEF LoadWrite
  <2>2. Diff(w, r)' = Diff(w, r) /\ Diff(cw, r)' = Diff(cw, r)
    BY <1>1, <2>1 DEF Diff
  <2>3. Ahead' = Ahead
    BY <1>2, <1>3, <2>1, <2>2 DEF Ahead
  <2>. QED BY <1>1, <2>1, <2>2, <2>3 DEF Calm, Copied
<1>5. CASE StoreFrame
  <2>1. /\ w' = w /\ r' = r /\ ppc = "store" /\ ppc' = "check"
        /\ cur' = cur /\ due' = due /\ made' = made /\ cur = w
        /\ buf' = [buf EXCEPT ![Slot(w)] = made]
    BY <1>1, <1>5 DEF StoreFrame, Calm
  <2>2. Diff(w, r)' = Diff(w, r) /\ Diff(cw, r)' = Diff(cw, r)
    BY <1>1, <2>1 DEF Diff
  <2>3. Ahead' = Ahead /\ Diff(w, r) < Size
    BY <1>1, <1>2, <1>3, <2>1, <2>2 DEF Ahead, Calm
  <2>4. Slot(w) \in 0..(Size - 1) /\ buf \in [0..(Size - 1) -> 0..Silence]
    BY <1>1, <1>2, SlotRange, Ranges DEF Kept, TypeOK
  <2>5. buf'[Slot(w)] = made
    BY <2>1, <2>4
  <2>6. \A k \in 1..Diff(w, r) :
          buf'[Slot(r + k - 1)] = buf[Slot(r + k - 1)]
    <3> TAKE k \in 1..Diff(w, r)
    <3>1. Slot(r + k - 1) # Slot(w)
      BY <1>1, <2>3, NotInTheWay
    <3>. QED BY <2>1, <2>4, <3>1
  <2>7. ASSUME cpc = "copy" PROVE Copied'
    <3>1. Copied /\ Len(copy) \in Nat /\ Diff(cw, r) \in Nat
          /\ \A k \in 1..Len(copy) : k \in 1..Diff(w, r)
      <4>1. Copied /\ cw \in Index
        BY <1>1, <2>7, Ranges DEF Calm
      <4>2. Len(copy) \in Nat /\ Diff(cw, r) \in Nat
        BY <1>1, <1>2, <4>1, Ranges, DiffValue
      <4>. QED BY <1>2, <4>1, <4>2 DEF Copied
    <3>. QED BY <1>1, <2>1, <2>2, <2>6, <3>1 DEF Copied
  <2>. QED BY <1>1, <2>1, <2>2, <2>3, <2>5, <2>7 DEF Calm
<1>6. CASE CheckRoom
  <2>1. /\ w' = w /\ r' = r /\ buf' = buf /\ ppc = "check" /\ cur = w
        /\ cur' = cur /\ due' = due /\ made' = made
        /\ ppc' = IF Diff(Plus(w, 1), r) > Size THEN "drop" ELSE "publish"
    BY <1>1, <1>6 DEF CheckRoom, Calm
  <2>2. Diff(w, r) + 1 <= Size
    BY <1>1, <1>2, <1>3, <2>1 DEF Calm
  <2>3. Diff(Plus(w, 1), r) = Diff(w, r) + 1
    <3>1. Diff(w, r) + 1 < Modulus
      BY <1>2, <2>2, Constants
    <3>. QED BY <1>2, <3>1, Advance
  <2>4. ppc' = "publish"
    BY <1>2, <2>1, <2>2, <2>3
  <2>5. Diff(w, r)' = Diff(w, r) /\ Diff(cw, r)' = Diff(cw, r)
    BY <1>1, <2>1 DEF Diff
  <2>6. Ahead' = Ahead
    BY <1>2, <1>3, <2>1, <2>4, <2>5 DEF Ahead
  <2>. QED BY <1>1, <2>1, <2>4, <2>5, <2>6 DEF Calm, Copied
<1>7. CASE DropOldest
  BY <1>1, <1>7 DEF DropOldest, Calm
<1>8. CASE Publish
  <2>1. /\ w' = Plus(w, 1) /\ r' = r /\ buf' = buf /\ ppc = "publish"
        /\ ppc' = "idle" /\ due' = due
    BY <1>1, <1>8 DEF Publish, Calm
  <2>2. Diff(w, r) + 1 <= Size
    BY <1>1, <1>2, <1>3, <2>1 DEF Calm
  <2>3. Diff(Plus(w, 1), r) = Diff(w, r) + 1
    <3>1. Diff(w, r) + 1 < Modulus
      BY <1>2, <2>2, Constants
    <3>. QED BY <1>2, <3>1, Advance
  <2>4. Diff(w, r)' = Diff(w, r) + 1 /\ Diff(cw, r)' = Diff(cw, r)
    <3>1. Diff(w, r)' = Diff(w', r') /\ Diff(cw, r)' = Diff(cw', r')
      BY DEF Diff
    <3>. QED BY <1>1, <2>1, <2>3, <3>1
  <2>5. Ahead' = Ahead
    BY <1>2, <1>3, <2>1, <2>4 DEF Ahead
  <2>6. Diff(cw, r) \in Nat
    BY <1>1, Ranges, DiffValue
  <2>. QED BY <1>1, <1>2, <2>1, <2>4, <2>5, <2>6 DEF Calm, Copied
<1>. QED BY <1>4, <1>5, <1>6, <1>7, <1>8 DEF PostSample

(* A frame more is copied, the oldest that was not.                        *)
LEMMA CopyCalm ==
  ASSUME Inv, CopyFrame, calm
  PROVE  Copied'
<1> USE DEF Inv
<1>1. /\ w' = w /\ r' = r /\ buf' = buf /\ cw' = cw /\ cr' = cr
      /\ Len(copy) < ToCopy /\ Copied /\ Kept
      /\ copy' = Append(copy, buf[Slot(r + Len(copy))])
  BY DEF CopyFrame, Calm, producer, Copied
<1>2. /\ Len(copy) \in Nat /\ r \in Nat /\ copy \in Seq(0..Silence)
      /\ Len(copy) + 1 <= Diff(cw, r)
  <2>1. Len(copy) \in Nat /\ r \in Nat /\ cr = r /\ Diff(cw, cr) \in Nat
    BY <1>1, Ranges DEF Copied
  <2>. QED BY <1>1, <2>1, WhatToCopy DEF Kept
<1>3. buf[Slot(r + Len(copy))] \in 0..Silence
  <2>1. r + Len(copy) \in Nat
    BY <1>2
  <2>2. Slot(r + Len(copy)) \in 0..(Size - 1)
    BY <2>1, SlotRange
  <2>. QED BY <1>1, <2>2 DEF Kept, TypeOK
<1>4. /\ Len(copy') = Len(copy) + 1
      /\ \A k \in 1..Len(copy) : copy'[k] = copy[k]
      /\ copy'[Len(copy) + 1] = buf[Slot(r + Len(copy))]
  BY <1>1, <1>2, <1>3
<1>5. ASSUME NEW k \in 1..Len(copy') PROVE copy'[k] = buf[Slot(r + k - 1)]
  <2>1. CASE k = Len(copy) + 1
    <3>1. r + k - 1 = r + Len(copy)
      BY <1>2, <2>1
    <3>. QED BY <1>4, <2>1, <3>1
  <2>2. CASE k # Len(copy) + 1
    <3>1. k \in 1..Len(copy)
      BY <1>2, <1>4, <2>2
    <3>. QED BY <1>1, <1>4, <3>1 DEF Copied
  <2>. QED BY <2>1, <2>2
<1>6. Diff(w, r)' = Diff(w, r) /\ Diff(cw, r)' = Diff(cw, r)
  BY <1>1 DEF Diff
<1>. QED BY <1>1, <1>2, <1>4, <1>5, <1>6 DEF Copied

(* Core 2 takes no more than there was when it looked.                     *)
LEMMA Taken ==
  ASSUME Inv, StoreRead, calm
  PROVE  /\ Len(copy) \in 0..Diff(w, r) /\ r' = Plus(r, Len(copy))
         /\ Diff(w, r)' = Diff(w, r) - Len(copy)
         /\ w' = w /\ buf' = buf /\ made' = made
<1> USE DEF Inv
<1>1. /\ Kept /\ Copied /\ w' = w /\ buf' = buf /\ made' = made
      /\ r' = Plus(r, Len(copy)) /\ cw \in Index /\ w \in Index /\ r \in Index
  BY Ranges DEF StoreRead, Calm, Copied, producer
<1>2. Len(copy) \in Nat /\ Diff(cw, r) \in Nat /\ Diff(w, r) \in Nat
  BY <1>1, Ranges, DiffValue
<1>3. Len(copy) \in 0..Diff(w, r)
  BY <1>1, <1>2 DEF Copied
<1>4. Diff(w, r)' = Diff(w', r')
  BY DEF Diff
<1>. QED BY <1>1, <1>3, <1>4, Advance

LEMMA PassCalm ==
  ASSUME Inv, OutputPass, calm'
  PROVE  Calm'
<1> USE DEF Inv
<1>1. /\ calm /\ Calm /\ rpc' = "off" /\ Kept
      /\ w' = w /\ buf' = buf /\ ppc' = ppc /\ cur' = cur /\ made' = made
  BY DEF OutputPass, BeginPass, LoadWriteIdx, LoadReadIdx, CopyFrame, StoreRead,
         RunBurst, race, producer, Calm
<1>2. /\ Diff(w, r) \in Nat /\ due \in Nat /\ Size \in Nat
      /\ w \in Index /\ r \in Index
  BY Ranges, Constants
<1>3. ASSUME r' = r, due' = due PROVE Ahead' = Ahead /\ Diff(w, r)' = Diff(w, r)
  BY <1>1, <1>3 DEF Ahead, Diff
<1>4. CASE BeginPass
  BY <1>1, <1>3, <1>4 DEF BeginPass, Calm
<1>5. CASE LoadWriteIdx
  <2>1. r' = r /\ due' = due /\ cw' = w /\ cpc' = "loadr"
    BY <1>5 DEF LoadWriteIdx
  <2>2. Diff(cw, r)' = Diff(w, r)
    BY <2>1 DEF Diff
  <2>. QED BY <1>1, <1>2, <1>3, <2>1, <2>2 DEF Calm
<1>6. CASE LoadReadIdx
  <2>1. r' = r /\ due' = due /\ copy' = <<>> /\ cpc = "loadr"
    BY <1>6 DEF LoadReadIdx, Kept
  <2>2. CASE cw = r
    BY <1>1, <1>3, <1>6, <2>1, <2>2 DEF LoadReadIdx, Calm
  <2>3. CASE cw # r
    <3>1. cw' = cw /\ cr' = r /\ cpc' = "copy"
      BY <1>6, <2>3 DEF LoadReadIdx
    <3>2. Diff(cw, r)' = Diff(cw, r) /\ Diff(cw, r) \in Nat
      BY <1>2, <2>1, <3>1, Ranges, DiffValue DEF Diff
    <3>3. Copied'
      BY <1>1, <1>3, <2>1, <3>1, <3>2 DEF Calm, Copied
    <3>. QED BY <1>1, <1>3, <2>1, <3>1, <3>3 DEF Calm
  <2>. QED BY <2>2, <2>3
<1>7. CASE CopyFrame
  <2>1. r' = r /\ due' = due /\ cpc' = "copy"
    BY <1>7 DEF CopyFrame
  <2>. QED BY <1>1, <1>3, <1>7, <2>1, CopyCalm DEF Calm
<1>8. CASE StoreRead
  <2>1. due' = due /\ cpc' \in {"idle", "load"}
    BY <1>8 DEF StoreRead
  <2>2. Diff(w, r)' \in Nat /\ Diff(w, r)' <= Diff(w, r)
    BY <1>1, <1>2, <1>8, Taken
  <2>3. Ahead' <= Ahead /\ Ahead \in Nat /\ Ahead' \in Nat
    <3> DEFINE d == Diff(w, r)'
    <3>1. Ahead' = due + d + (IF ppc = "idle" THEN 0 ELSE 1)
      BY <1>1, <2>1 DEF Ahead
    <3> HIDE DEF d
    <3>2. d \in Nat /\ d <= Diff(w, r)
      BY <2>2 DEF d
    <3>. QED BY <1>2, <3>1, <3>2 DEF Ahead
  <2>. QED BY <1>1, <1>2, <2>1, <2>3 DEF Calm
<1>9. CASE RunBurst
  <2>1. r' = r /\ cpc' = "load" /\ Ahead' <= Size
    BY <1>9 DEF RunBurst
  <2>. QED BY <1>1, <2>1 DEF Calm
<1>. QED BY <1>4, <1>5, <1>6, <1>7, <1>8, <1>9 DEF OutputPass

LEMMA InvStep == Inv /\ [Next]_vars => Inv'
<1> SUFFICES ASSUME Inv, [Next]_vars PROVE Inv'
  OBVIOUS
<1>1. Kept'
  BY KeptStep DEF Inv
<1>2. ASSUME calm' PROVE Calm'
  <2>1. CASE SC55_Reset
    <3>1. /\ calm /\ Calm /\ rpc' = "off" /\ ppc' = "idle" /\ due' = 0
          /\ w' = 0 /\ r' = 0 /\ cpc' = "idle"
      BY <1>2, <2>1 DEF SC55_Reset, race, producer, Inv, Calm
    <3>2. Diff(0, 0) = 0
      <4>1. 0 \in Index
        BY Constants DEF Index
      <4>. QED BY <4>1, DiffValue
    <3>3. Ahead' = 0
      <4>1. Diff(w, r)' = 0
        BY <3>1, <3>2 DEF Diff
      <4>. QED BY <3>1, <4>1 DEF Ahead
    <3>. QED BY <3>1, <3>3, Constants DEF Calm
  <2>2. CASE ResetRing
    BY <1>2, <2>2 DEF ResetRing, ResetWrite, ResetRead, ResetBuffer, Inv, Calm
  <2>3. CASE UNCHANGED vars
    BY <1>2, <2>3
       DEF vars, race, producer, consumer, Inv, Calm, Copied, Ahead, Diff
  <2>. QED BY <1>2, <2>1, <2>2, <2>3, PostCalm, PassCalm DEF Next
<1>. QED BY <1>1, <1>2 DEF Inv

----------------------------------------------------------------------------
(* What is unread, as the abstract queue sees it.                          *)

UnreadOK ==
  /\ Unread \in Seq(0..Silence) /\ Len(Unread) = Diff(w, r)
  /\ \A k \in 1..Diff(w, r) : Unread[k] = buf[Slot(r + k - 1)]

LEMMA UnreadIs == Kept => UnreadOK
<1> SUFFICES ASSUME Kept PROVE UnreadOK
  OBVIOUS
<1>1. Diff(w, r) \in Nat /\ r \in Nat
  BY Ranges
<1>2. \A k \in 1..Diff(w, r) : buf[Slot(r + k - 1)] \in 0..Silence
  <2> TAKE k \in 1..Diff(w, r)
  <2>1. r + k - 1 \in Nat
    BY <1>1
  <2>2. Slot(r + k - 1) \in 0..(Size - 1)
    BY <2>1, SlotRange
  <2>. QED BY <2>2 DEF Kept, TypeOK
<1> DEFINE n == Diff(w, r)
           at(k) == buf[Slot(r + k - 1)]
<1>3. n \in Nat /\ Unread = [k \in 1..n |-> at(k)]
      /\ \A k \in 1..n : at(k) \in 0..Silence
  BY <1>1, <1>2 DEF Unread
<1> HIDE DEF n, at
<1>4. /\ Unread \in Seq(0..Silence) /\ Len(Unread) = n
      /\ \A k \in 1..n : Unread[k] = at(k)
  BY <1>3
<1>. QED BY <1>4 DEF n, at, UnreadOK

LEMMA PublishPuts ==
  ASSUME Inv, Inv', Publish, calm
  PROVE  Queue!Put
<1>0. UnreadOK /\ UnreadOK'
  BY UnreadIs, PTL DEF Inv
<1> USE DEF Inv
<1>1. /\ Kept /\ Kept' /\ Calm /\ w' = Plus(w, 1) /\ r' = r /\ buf' = buf
      /\ made' = (made + 1) % Frames /\ buf[Slot(w)] = made /\ ppc = "publish"
  BY DEF Publish, Calm
<1>2. /\ Diff(w, r) \in Nat /\ due \in Nat /\ Size \in Nat /\ Size < Modulus
      /\ w \in Index /\ r \in Index /\ made \in 0..Silence
  <2>1. made \in 0..Silence
    BY Constants DEF Kept, TypeOK, Silence, Frames
  <2>. QED BY <2>1, Ranges, Constants
<1>3. Diff(w, r) < Size
  BY <1>1, <1>2 DEF Calm, Ahead
<1>4. Diff(w, r)' = Diff(w, r) + 1
  <2>1. Diff(w, r)' = Diff(Plus(w, 1), r)
    BY <1>1 DEF Diff
  <2>2. Diff(w, r) + 1 < Modulus
    BY <1>2, <1>3, Constants
  <2>. QED BY <1>2, <2>1, <2>2, Advance
<1>5. Slot(r + Diff(w, r)) = Slot(w)
  BY <1>2, SlotAhead
<1>6. /\ Unread' \in Seq(0..Silence) /\ Len(Unread') = Diff(w, r) + 1
      /\ \A k \in 1..Diff(w, r) + 1 : Unread'[k] = buf[Slot(r + k - 1)]
  <2>1. /\ Unread' \in Seq(0..Silence) /\ Len(Unread') = Diff(w, r)'
        /\ \A k \in 1..Diff(w, r)' : Unread'[k] = buf'[Slot(r' + k - 1)]
    BY <1>0 DEF UnreadOK, Slot
  <2>. QED BY <1>1, <1>4, <2>1
<1>7. Unread' = Append(Unread, made)
  <2> DEFINE n == Diff(w, r)
             a == Append(Unread, made)
  <2>1. /\ a \in Seq(0..Silence) /\ Len(a) = n + 1
        /\ \A k \in 1..n : a[k] = Unread[k]
        /\ a[n + 1] = made
    BY <1>0, <1>2 DEF UnreadOK
  <2>2. ASSUME NEW k \in 1..n + 1 PROVE Unread'[k] = a[k]
    <3>1. Unread'[k] = buf[Slot(r + k - 1)]
      BY <1>6
    <3>2. CASE k = n + 1
      <4>1. r + k - 1 = r + n
        BY <1>2, <3>2
      <4>2. Unread'[k] = made
        BY <1>1, <1>5, <3>1, <4>1, Zenon
      <4>. QED BY <2>1, <3>2, <4>2, Zenon
    <3>3. CASE k # n + 1
      <4>1. k \in 1..n
        BY <1>2, <3>3
      <4>. QED BY <1>0, <2>1, <3>1, <4>1 DEF UnreadOK
    <3>. QED BY <3>2, <3>3
  <2> HIDE DEF n, a
  <2>3. Unread' \in Seq(0..Silence) /\ Len(Unread') = n + 1
    BY <1>6 DEF n
  <2>4. Unread' = a
    BY <2>1, <2>2, <2>3, SeqEqual
  <2>. QED BY <2>4 DEF a
<1>. QED BY <1>0, <1>1, <1>3, <1>7 DEF UnreadOK, Queue!Put

LEMMA Rest ==
  ASSUME NEW S, NEW s \in Seq(S), NEW n \in 1..Len(s)
  PROVE  /\ SubSeq(s, n + 1, Len(s)) \in Seq(S)
         /\ Len(SubSeq(s, n + 1, Len(s))) = Len(s) - n
         /\ \A k \in 1..Len(s) - n : SubSeq(s, n + 1, Len(s))[k] = s[n + k]
<1>1. SubSeq(s, n + 1, Len(s)) \in Seq(S)
  OBVIOUS
<1>2. Len(SubSeq(s, n + 1, Len(s))) = Len(s) - n
  OBVIOUS
<1>3. ASSUME NEW k \in 1..Len(s) - n
      PROVE  SubSeq(s, n + 1, Len(s))[k] = s[n + k]
  OBVIOUS
<1>. QED BY <1>1, <1>2, <1>3

LEMMA ReadTakes ==
  ASSUME Inv, Inv', StoreRead, calm
  PROVE  [Queue!Take]_<<Unread, made>>
<1>0. UnreadOK /\ UnreadOK'
  BY UnreadIs, PTL DEF Inv
<1> USE DEF Inv
<1> DEFINE n == Len(copy)
           d == Diff(w, r)
<1>1. /\ Kept /\ Kept' /\ n \in 0..d /\ r' = Plus(r, n)
      /\ Diff(w, r)' = d - n /\ w' = w /\ buf' = buf /\ made' = made
      /\ d \in Nat /\ r \in Index /\ r \in Nat
  BY Taken, Ranges
<1>2. n \in 0..Modulus
  BY <1>1, Ranges, Constants DEF Index
<1>3. r' \in Nat /\ (r + n = r' \/ r + n = r' + Modulus)
  <2>1. r' = IF r + n < Modulus THEN r + n ELSE r + n - Modulus
    BY <1>1, <1>2, PlusValue
  <2>2. r' \in Index
    BY <1>1, <1>2, PlusValue
  <2>. QED BY <1>1, <1>2, <2>1, <2>2, Constants DEF Index
<1>4. \A k \in 1..d - n : Slot(r' + k - 1) = Slot(r + (n + k) - 1)
  <2> SUFFICES ASSUME NEW k \in 1..d - n
               PROVE  Slot(r' + k - 1) = Slot(r + (n + k) - 1)
    OBVIOUS
  <2> DEFINE i == r' + k - 1
  <2>1. i \in Nat /\ k \in Nat
    BY <1>1, <1>3
  <2>2. r + (n + k) - 1 = i \/ r + (n + k) - 1 = i + Modulus
    BY <1>1, <1>3, <2>1, Constants
  <2> HIDE DEF i
  <2>3. Slot(i) = Slot(r + (n + k) - 1)
    BY <2>1, <2>2, SlotWrap, Zenon
  <2>. QED BY <2>3 DEF i
<1>5. /\ Unread' \in Seq(0..Silence) /\ Len(Unread') = d - n
      /\ \A k \in 1..d - n : Unread'[k] = buf[Slot(r' + k - 1)]
  <2>1. /\ Unread' \in Seq(0..Silence) /\ Len(Unread') = Diff(w, r)'
        /\ \A k \in 1..Diff(w, r)' : Unread'[k] = buf'[Slot(r' + k - 1)]
    BY <1>0 DEF UnreadOK, Slot
  <2>. QED BY <1>1, <2>1
<1>6. /\ Unread \in Seq(0..Silence) /\ Len(Unread) = d
      /\ \A k \in 1..d : Unread[k] = buf[Slot(r + k - 1)]
  BY <1>0 DEF UnreadOK
<1>7. ASSUME NEW k \in 1..d - n PROVE Unread'[k] = Unread[n + k]
  <2>1. n + k \in 1..d
    BY <1>1
  <2>2. Unread[n + k] = buf[Slot(r + (n + k) - 1)]
    BY <1>6, <2>1, Zenon
  <2>. QED BY <1>4, <1>5, <2>2, Zenon
<1>8. CASE n = 0
  <2>1. r' = r
    BY <1>1, <1>2, <1>8, PlusValue, Constants DEF Index
  <2>2. Unread' = Unread
    BY <1>1, <2>1 DEF Unread, Diff, Slot
  <2>. QED BY <1>1, <2>2
<1>9. CASE n # 0
  <2> DEFINE rest == SubSeq(Unread, n + 1, d)
  <2>1. n \in 1..d
    BY <1>1, <1>9
  <2> HIDE DEF n, d
  <2>2. /\ rest \in Seq(0..Silence) /\ Len(rest) = d - n
        /\ \A k \in 1..d - n : rest[k] = Unread[n + k]
    <3>1. Unread \in Seq(0..Silence) /\ Len(Unread) = d
      BY <1>6
    <3>. QED BY <2>1, <3>1, Rest
  <2>3. \A k \in 1..d - n : Unread'[k] = rest[k]
    BY <1>7, <2>2, Zenon
  <2> HIDE DEF rest
  <2>4. Unread' = rest
    BY <1>5, <2>2, <2>3, SeqEqual
  <2>. QED BY <1>1, <1>6, <2>1, <2>4 DEF rest, Queue!Take
<1>. QED BY <1>8, <1>9

LEMMA StoresAside ==
  ASSUME Inv, StoreFrame, calm
  PROVE  Unread' = Unread
<1> USE DEF Inv
<1>1. /\ Kept /\ Calm /\ w' = w /\ r' = r /\ ppc = "store" /\ cur = w
      /\ buf' = [buf EXCEPT ![Slot(w)] = made]
  BY DEF StoreFrame, Calm
<1>2. Diff(w, r) < Size /\ Diff(w, r) \in Nat
  <2>1. Diff(w, r) \in Nat /\ due \in Nat /\ Size \in Nat
    BY Ranges, Constants
  <2>. QED BY <1>1, <2>1 DEF Calm, Ahead
<1>3. \A k \in 1..Diff(w, r) : buf'[Slot(r + k - 1)] = buf[Slot(r + k - 1)]
  BY <1>1, <1>2, NotInTheWay DEF Kept, TypeOK
<1>. QED BY <1>1, <1>3 DEF Unread, Diff, Slot

LEMMA QueueStep ==
  Inv /\ Inv' /\ [Next]_vars => [calm' => [Queue!Next]_<<Unread, made>>]_vars
<1> SUFFICES ASSUME Inv, Inv', Next, calm'
             PROVE  [Queue!Next]_<<Unread, made>>
  OBVIOUS
<1>1. ASSUME UNCHANGED <<w, r, buf, made>> PROVE UNCHANGED <<Unread, made>>
  BY <1>1 DEF Unread, Diff, Slot
<1>2. CASE PostSample
  <2>1. calm /\ Calm
    BY <1>2 DEF PostSample, LoadWrite, StoreFrame, CheckRoom, DropOldest,
                Publish, race, Inv
  <2>2. CASE LoadWrite \/ CheckRoom
    BY <1>1, <2>2 DEF LoadWrite, CheckRoom
  <2>3. CASE StoreFrame
    BY <2>1, <2>3, StoresAside DEF StoreFrame
  <2>4. CASE DropOldest
    BY <2>1, <2>4 DEF DropOldest, Calm
  <2>5. CASE Publish
    BY <2>1, <2>5, PublishPuts DEF Queue!Next
  <2>. QED BY <1>2, <2>2, <2>3, <2>4, <2>5 DEF PostSample
<1>3. CASE OutputPass
  <2>1. calm
    BY <1>3 DEF OutputPass, BeginPass, LoadWriteIdx, LoadReadIdx, CopyFrame,
                StoreRead, RunBurst, race
  <2>2. CASE BeginPass \/ LoadWriteIdx \/ LoadReadIdx \/ CopyFrame \/ RunBurst
    BY <1>1, <2>2 DEF BeginPass, LoadWriteIdx, LoadReadIdx, CopyFrame, RunBurst,
                      producer
  <2>3. CASE StoreRead
    BY <2>1, <2>3, ReadTakes DEF Queue!Next
  <2>. QED BY <1>3, <2>2, <2>3 DEF OutputPass
<1>4. CASE SC55_Reset
  <2>1. w' = 0 /\ r' = 0 /\ made' = made
    BY <1>4 DEF SC55_Reset, producer
  <2>2. Diff(w, r)' = 0
    <3>1. 0 \in Index
      BY Constants DEF Index
    <3>. QED BY <2>1, <3>1, DiffValue DEF Diff
  <2>3. Unread' = <<>>
    BY <2>2 DEF Unread
  <2>. QED BY <2>1, <2>3 DEF Queue!Next, Queue!Clear
<1>5. CASE ResetRing
  BY <1>5 DEF ResetRing, ResetWrite, ResetRead, ResetBuffer, Inv, Calm
<1>. QED BY <1>2, <1>3, <1>4, <1>5 DEF Next

----------------------------------------------------------------------------
(* Whatever the indices are, after an overflow and after a reset beside    *)
(* the running cores too, core 2 never copies more than it asked for.      *)
THEOREM OutBufHolds == Spec => []TypeOK
<1>1. Inv => TypeOK
  BY DEF Inv, Kept
<1>. QED BY InvInit, InvStep, <1>1, PTL DEF Spec

(* The ring never claims to hold more frames than it has slots, as long as *)
(* core 2 is never more than a ring ahead.                                 *)
THEOREM RingStaysValid == Spec => []RingValid
<1>1. Inv => RingValid
  <2> SUFFICES ASSUME Inv, calm PROVE Diff(w, r) <= Size
    BY DEF RingValid
  <2>1. Diff(w, r) \in Nat /\ due \in Nat /\ Size \in Nat /\ Ahead <= Size
    BY Ranges, Constants DEF Inv, Calm
  <2>. QED BY <2>1 DEF Ahead
<1>. QED BY InvInit, InvStep, <1>1, PTL DEF Spec

(* What core 2 has copied is the oldest unread frames, none of them lost,  *)
(* repeated or overwritten while it is copied.                             *)
THEOREM CopiesStayOldest == Spec => []CopiesOldest
<1>1. Inv => CopiesOldest
  <2> SUFFICES ASSUME Inv, calm, cpc = "copy"
               PROVE  /\ Len(copy) <= Len(Unread)
                      /\ \A k \in 1..Len(copy) : copy[k] = Unread[k]
    BY DEF CopiesOldest
  <2>1. /\ Copied /\ Diff(w, r) \in Nat /\ Len(copy) \in Nat
        /\ Diff(cw, r) \in Nat
    BY Ranges, DiffValue DEF Inv, Calm
  <2>2. Len(copy) <= Diff(w, r)
    BY <2>1 DEF Copied
  <2>3. /\ Len(Unread) = Diff(w, r)
        /\ \A k \in 1..Diff(w, r) : Unread[k] = buf[Slot(r + k - 1)]
    BY UnreadIs DEF Inv, UnreadOK
  <2>4. \A k \in 1..Len(copy) : k \in 1..Diff(w, r)
    BY <2>1, <2>2
  <2>. QED BY <2>1, <2>2, <2>3, <2>4 DEF Copied
<1>. QED BY InvInit, InvStep, <1>1, PTL DEF Spec

(* The ring, with its index loads and stores in any interleaving,          *)
(* implements the bounded queue of numbered frames as long as core 2 is    *)
(* never more than a ring ahead.                                           *)
THEOREM RingIsQueue == Spec => Queue!Init /\ RefinesQueue
<1>1. Init => Queue!Init
  <2> SUFFICES ASSUME Init PROVE Unread = <<>> /\ made = 0
    BY DEF Queue!Init
  <2>1. 0 \in Index
    BY Constants DEF Index
  <2>2. Diff(w, r) = 0
    BY <2>1, DiffValue DEF Init
  <2>. QED BY <2>2 DEF Init, Unread
<1>. QED BY InvInit, InvStep, QueueStep, <1>1, PTL DEF Spec, RefinesQueue
=============================================================================
