---------------------------- MODULE DmaWriterProofs ----------------------------
(***************************************************************************)
(* Proofs about DmaWriter for every buffer size, bound and write length:   *)
(* the inductive invariant behind WriterContract and its steps.  The       *)
(* theorem about the whole program is in FirmwareProofs.                   *)
(***************************************************************************)
EXTENDS DmaWriter, DmaIndexProofs

-------------------------------------------------------------------------------
(* The inductive invariant. *)

Writing == wpc \in {"copy", "len2", "len2_pos"}

Syncing == wpc \in {"len1_pos", "len2_pos"}

Resetting == wpc \in {"reset", "resync", "resync_pos"}

\* The indices mean something: the ring is built, and neither being reset nor
\* given up by stop() or the drop.
Tracking == wpc \in {"idle", "len1", "len1_pos", "parked"} \/ Writing

WriterTypes ==
  /\ ChannelTypeOK
  /\ count_diff \in Nat
  /\ read_index \in Index
  /\ write_index \in Index
  /\ writable \in Nat
  /\ copied \in Nat
  /\ want \in Nat
  /\ slots \in [0 .. Cap - 1 -> Int]
  /\ next \in Nat
  /\ base \in Int
  /\ missed \subseteq Int

\* Passes the controller has completed that read_index does not count yet.
Bit(b) == IF b THEN 1 ELSE 0
Uncounted == complete_count + Bit(tcif) + (IF Syncing THEN count_diff ELSE 0)

\* The number of the element at read_index, and of the one in slot 0 of its pass.
ReadNumber == next - diff(write_index, read_index)
ReadPass == ReadNumber - read_index.pos

\* The element that a dma_sync which ended now would put at read_index.
SyncNumber == next - diff(write_index, SyncedRead)

CircularInv ==
  /\ cr.circ /\ cr.htie /\ cr.tcie
  /\ pos < Cap
  /\ \E q \in Nat : pass = q * Cap

\* read_index is behind the controller by passes that are counted somewhere, and
\* write_index is at most a buffer ahead of it.
TrackInv ==
  /\ read_index.pos < Cap
  /\ ReadNumber <= Moved
  /\ Cap <= next
  /\ next + writable <= ReadNumber + Cap
  /\ pass = ReadPass + Uncounted * Cap

\* What the task has written is in its slot until it has been sent.
InPlace ==
  \A k \in Nat : k >= base /\ k >= Moved /\ k < next + copied => slots[k % Cap] = k

\* Only elements that were not yet written have been missed.
MissedInv == \A k \in missed : next <= k /\ k < Moved

\* The controller has sent elements of this write before they were written.
Overtaken == \E k \in missed : k < next + writable

\* A write that was overtaken is going to see it: no pass ends between the loads of
\* its second dma_sync.
WriteInv ==
  IF Writing
  THEN /\ wop \in {"write", "exact"}
       /\ writable <= want
       /\ IF wpc = "copy" THEN copied < writable ELSE copied = writable
       /\ wpc = "len2_pos" /\ Overtaken => complete_count = 0 /\ ~tcif
  ELSE copied = 0 /\ writable = 0

ResultInv ==
  /\ outcome = "overrun" => Moved > next
  /\ outcome # "unsynced"

\* A task in a future is registered or woken; a pass that ended after the counter
\* was taken has woken it; asleep, it has seen every boundary but those flagged.
Waiting == wpc = "parked" \/ (wop \in {"exact", "error"} /\ (Writing \/ wpc \in {"len1", "len1_pos"}))

WakeInv ==
  /\ Waiting => waker \/ woken
  /\ Waiting /\ Syncing /\ complete_count # 0 => woken
  /\ wpc = "parked" /\ ~woken =>
       \A k \in ReadNumber + 1 .. Moved :
         /\ k % Cap = 0 => tcif
         /\ k % Cap = Half => htif

UnbuiltInv ==
  /\ complete_count = 0 /\ ~tcif /\ ~cr.en
  /\ missed = {} /\ outcome = "ok" /\ copied = 0 /\ writable = 0

WriterInv ==
  /\ WriterTypes
  /\ ResultInv
  /\ wpc = "unbuilt" => UnbuiltInv
  /\ Tracking \/ Resetting => CircularInv
  /\ Tracking => TrackInv /\ InPlace /\ MissedInv /\ WriteInv /\ WakeInv
  /\ wpc = "resync_pos" => complete_count = 0 /\ ~tcif

-------------------------------------------------------------------------------
(* Element numbers and slots. *)

\* Whole passes do not change a slot.
LEMMA PassesSlot ==
  ASSUME NEW a \in Nat, NEW z \in Int, a + z * Cap \in Nat
  PROVE  (a + z * Cap) % Cap = a % Cap
<1> DEFINE b == a + z * Cap
           q == a \div Cap
           r == a % Cap
           p == b \div Cap
           s == b % Cap
<1>1. q \in Nat /\ r \in 0 .. Cap - 1 /\ a = q * Cap + r
  BY Division
<1>2. b \in Nat
  OBVIOUS
<1>3. p \in Nat /\ s \in 0 .. Cap - 1 /\ b = p * Cap + s
  <2> HIDE DEF b
  <2> QED
    BY <1>2, Division
<1> HIDE DEF q, r, p, s
<1>4. (q + z - p) * Cap = q * Cap + z * Cap - p * Cap
  BY <1>1, <1>3, CapPositive, SMT
<1>5. (q + z - p) * Cap = s - r
  <2>1. q * Cap \in Int /\ z * Cap \in Int /\ p * Cap \in Int
    BY <1>1, <1>3, CapPositive
  <2> QED
    BY <1>1, <1>3, <1>4, <2>1
<1>6. q + z - p = 0
  <2> DEFINE c == q + z - p
  <2>1. c \in Int
    BY <1>1, <1>3
  <2>2. c * Cap > -Cap /\ c * Cap < Cap
    BY <1>1, <1>3, <1>5, CapPositive
  <2> HIDE DEF c
  <2>3. c = 0
    BY <2>1, <2>2, Passes, CapPositive
  <2> QED
    BY <2>3 DEF c
<1> QED
  <2>1. s = r
    BY <1>1, <1>3, <1>5, <1>6, Passes
  <2> QED
    BY <2>1 DEF s, r

LEMMA ShortSlot == \A a \in 0 .. Cap - 1 : a % Cap = a
  BY ShortDivision, CapPositive

\* Numbers less than a buffer apart have different slots.
LEMMA SlotsDiffer ==
  ASSUME NEW a \in Nat, NEW b \in Nat, a < b, b < a + Cap
  PROVE  a % Cap # b % Cap
<1>1. /\ a \div Cap \in Nat /\ a % Cap \in 0 .. Cap - 1 /\ a = (a \div Cap) * Cap + (a % Cap)
      /\ b \div Cap \in Nat /\ b % Cap \in 0 .. Cap - 1 /\ b = (b \div Cap) * Cap + (b % Cap)
  BY Division
<1> DEFINE c == (b \div Cap) - (a \div Cap)
<1>2. c \in Int
  BY <1>1
<1>3. c * Cap = (b \div Cap) * Cap - (a \div Cap) * Cap
  BY <1>1, CapPositive, SMT
<1>4. (b \div Cap) * Cap \in Int /\ (a \div Cap) * Cap \in Int
  BY <1>1, CapPositive
<1>5. a % Cap = b % Cap => c * Cap = b - a
  BY <1>1, <1>3, <1>4
<1> HIDE DEF c
<1> QED
  BY <1>2, <1>5, Passes, CapPositive

\* The controller is at the slot of its element number.
LEMMA MovedSlot ==
  ASSUME WriterTypes, CircularInv
  PROVE  Moved % Cap = pos /\ Moved \in Nat
<1>1. PICK q \in Nat : pass = q * Cap
  BY DEF CircularInv
<1>2. pos \in Nat /\ pos \in 0 .. Cap - 1 /\ pass \in Nat
  BY CapPositive DEF WriterTypes, ChannelTypeOK, CircularInv
<1>3. Moved = pos + q * Cap /\ Moved \in Nat
  BY <1>1, <1>2, CapPositive DEF Moved
<1>4. (pos + q * Cap) % Cap = pos % Cap
  BY <1>2, <1>3, PassesSlot
<1> QED
  BY <1>2, <1>3, <1>4, ShortSlot

LEMMA Numbers ==
  ASSUME WriterTypes
  PROVE  /\ diff(write_index, read_index) \in Int
         /\ ReadNumber \in Int /\ ReadPass \in Int /\ Uncounted \in Nat
         /\ read_index.pos \in Nat /\ write_index.pos \in Nat
         /\ SyncedRead \in Index /\ SyncedRead.pos \in 0 .. Cap
         /\ diff(write_index, SyncedRead) \in Int /\ SyncNumber \in Int
         /\ Moved \in Nat
<1>1. Remaining \in 0 .. Cap
  BY CapPositive DEF WriterTypes, ChannelTypeOK, Remaining
<1>2. SyncedRead \in Index /\ SyncedRead.pos \in 0 .. Cap
  BY <1>1, SyncType DEF WriterTypes, SyncedRead
<1>3. read_index \in Index /\ write_index \in Index /\ next \in Nat /\ pos \in Nat /\ pass \in Nat
  BY CapPositive DEF WriterTypes, ChannelTypeOK
<1>4. diff(write_index, read_index) \in Int /\ diff(write_index, SyncedRead) \in Int
  BY <1>2, <1>3, LowerType
<1>5. Uncounted \in Nat
  BY DEF WriterTypes, ChannelTypeOK, Uncounted, Bit
<1> QED
  BY <1>2, <1>3, <1>4, <1>5 DEF ReadNumber, ReadPass, SyncNumber, Moved, Index

\* write_index is at the slot of the next element.
LEMMA NextSlot ==
  ASSUME WriterTypes, CircularInv, TrackInv, NEW i \in Nat
  PROVE  as_index(write_index, i) = (next + i) % Cap
<1> DEFINE w == write_index.complete_count
           r == read_index.complete_count
           z == w - r - Uncounted
<1>1. PICK q \in Nat : pass = q * Cap
  BY DEF CircularInv
<1>2. /\ w \in Nat /\ r \in Nat /\ write_index.pos \in Nat /\ read_index.pos \in Nat
      /\ next \in Nat /\ Uncounted \in Nat
  BY Numbers DEF WriterTypes, Index
<1>3. w * Cap \in Int /\ r * Cap \in Int /\ Uncounted * Cap \in Int /\ q * Cap \in Int
  BY <1>2, CapPositive
<1>4. next = pass - Uncounted * Cap + (w * Cap - r * Cap) + write_index.pos
  <2>1. ReadPass = next - ((w * Cap + write_index.pos) - (r * Cap + read_index.pos)) - read_index.pos
    BY DEF ReadPass, ReadNumber, diff
  <2>2. pass = ReadPass + Uncounted * Cap
    BY DEF TrackInv
  <2> HIDE DEF w, r
  <2> QED
    BY <1>1, <1>2, <1>3, <2>1, <2>2
<1>5. (q + z) * Cap = q * Cap + (w * Cap - r * Cap) - Uncounted * Cap
  <2> HIDE DEF w, r
  <2> QED
    BY <1>2, CapPositive, SMT
<1>6. next + i = (write_index.pos + i) + (q + z) * Cap /\ q + z \in Int
  <2> HIDE DEF w, r
  <2> QED
    BY <1>1, <1>2, <1>3, <1>4, <1>5
<1> HIDE DEF z
<1>7. write_index.pos + i \in Nat /\ next + i \in Nat
  BY <1>2
<1>8. ((write_index.pos + i) + (q + z) * Cap) % Cap = (write_index.pos + i) % Cap
  BY <1>6, <1>7, PassesSlot
<1> QED
  BY <1>6, <1>8 DEF as_index

\* What a dma_sync finds: at least what the last one found, never more than the
\* controller has moved, and all of that if no pass ended after it took the counter.
LEMMA SyncFacts ==
  ASSUME WriterTypes, CircularInv, TrackInv, Syncing
  PROVE  /\ ReadNumber <= SyncNumber
         /\ SyncNumber <= Moved
         /\ SyncedRead.pos < Cap
         /\ pass = SyncNumber - SyncedRead.pos + (complete_count + Bit(tcif)) * Cap
         /\ complete_count = 0 /\ ~tcif => SyncNumber = Moved
<1> DEFINE u == complete_count + Bit(tcif)
           late == pos < read_index.pos /\ count_diff = 0
<1>1. /\ u \in Nat /\ (u = 0 <=> complete_count = 0 /\ ~tcif)
      /\ count_diff \in Nat /\ pos \in Nat /\ pos < Cap /\ pass \in Nat
      /\ read_index.pos \in Nat /\ read_index.pos < Cap
      /\ read_index.complete_count \in Nat
      /\ ReadNumber \in Int /\ ReadNumber <= Moved
      /\ Cap \in Nat /\ Cap >= 2
  <2>1. complete_count \in Nat /\ tcif \in BOOLEAN /\ count_diff \in Nat
        /\ pos \in 0 .. Cap /\ pass \in Nat
    BY DEF WriterTypes, ChannelTypeOK
  <2>2. u \in Nat /\ (u = 0 <=> complete_count = 0 /\ ~tcif)
    BY <2>1 DEF Bit
  <2>3. read_index.pos \in Nat /\ read_index.complete_count \in Nat
    BY DEF WriterTypes, Index
  <2>4. pos < Cap /\ read_index.pos < Cap /\ ReadNumber <= Moved /\ ReadNumber \in Int
    BY Numbers DEF CircularInv, TrackInv
  <2> HIDE DEF u
  <2> QED
    BY <2>1, <2>2, <2>3, <2>4, CapPositive
<1>2. /\ SyncedRead.complete_count = read_index.complete_count + count_diff
      /\ SyncedRead.pos = IF late THEN Cap - 1 ELSE pos
  BY <1>1 DEF SyncedRead, dma_sync, Remaining
<1>3. (read_index.complete_count + count_diff) * Cap
        = read_index.complete_count * Cap + count_diff * Cap
  BY <1>1, SMT
<1>4. /\ read_index.complete_count * Cap \in Int /\ count_diff * Cap \in Int
      /\ u * Cap \in Int /\ write_index.complete_count * Cap \in Int
      /\ write_index.pos \in Int
  BY <1>1, CapPositive DEF WriterTypes, Index
<1>5. SyncNumber = ReadPass + count_diff * Cap + SyncedRead.pos
  <2>1. next \in Int /\ SyncedRead.pos \in Int
    BY Numbers DEF WriterTypes
  <2> DEFINE wp == write_index.complete_count * Cap
             rp == read_index.complete_count * Cap
             cp == count_diff * Cap
  <2>2. SyncNumber = next - ((wp + write_index.pos) - (rp + cp + SyncedRead.pos))
    BY <1>2, <1>3 DEF SyncNumber, diff
  <2>3. ReadPass = next - ((wp + write_index.pos) - (rp + read_index.pos)) - read_index.pos
    BY DEF ReadPass, ReadNumber, diff
  <2>4. wp \in Int /\ rp \in Int /\ cp \in Int
    BY <1>4
  <2> HIDE DEF wp, rp, cp
  <2>5. SyncNumber = ReadPass + cp + SyncedRead.pos
    BY <1>1, <1>4, <2>1, <2>2, <2>3, <2>4
  <2> QED
    BY <2>5 DEF cp
<1>6. pass = ReadPass + count_diff * Cap + u * Cap
  <2>1. Uncounted = u + count_diff
    BY <1>1 DEF Uncounted
  <2>2. (u + count_diff) * Cap = u * Cap + count_diff * Cap
    BY <1>1, SMT
  <2> HIDE DEF u
  <2> QED
    BY <1>1, <1>4, <2>1, <2>2, Numbers DEF TrackInv
<1>7. ReadPass = ReadNumber - read_index.pos
  BY DEF ReadPass
<1>8. /\ u = 0 => u * Cap = 0
      /\ u >= 1 => u * Cap >= Cap
      /\ count_diff = 0 => count_diff * Cap = 0
      /\ count_diff >= 1 => count_diff * Cap >= Cap
  BY <1>1, Passes
<1>9. late => u >= 1
  BY <1>1, <1>4, <1>6, <1>7, <1>8 DEF Moved
<1>10. SyncedRead.pos \in 0 .. Cap - 1
  BY <1>1, <1>2
<1> HIDE DEF u
<1>11. CASE late
  BY <1>1, <1>2, <1>4, <1>5, <1>6, <1>7, <1>8, <1>9, <1>10, <1>11 DEF u, Moved
<1>12. CASE ~late
  BY <1>1, <1>2, <1>4, <1>5, <1>6, <1>7, <1>8, <1>10, <1>12 DEF u, Moved
<1> QED
  BY <1>11, <1>12

LEMMA MovedSlotPrime == (WriterTypes /\ CircularInv => Moved % Cap = pos)'
  BY MovedSlot, PTL

-------------------------------------------------------------------------------
(* The controller. *)

\* One more element is moved, whether or not the pass ends.
LEMMA MoveFacts ==
  ASSUME WriterTypes, MoveElement
  PROVE  /\ ChannelTypeOK' /\ Moved' = Moved + 1
         /\ cr.circ /\ pos < Cap /\ (\E q \in Nat : pass = q * Cap)
              => pos' < Cap /\ (\E q \in Nat : pass' = q * Cap)
         /\ LastOfPass /\ cr.circ
              => pass' = pass + Cap /\ pos' = 0 /\ ~tcif /\ tcif'
         /\ ~LastOfPass => pass' = pass /\ pos' = pos + 1 /\ tcif' = tcif
         /\ pos + 1 = Half => htif'
         /\ UNCHANGED <<cr, complete_count, waker, woken>>
<1>1. /\ pos \in 0 .. Cap /\ pos < Cap /\ pass \in Nat /\ htif \in BOOLEAN /\ tcif \in BOOLEAN
      /\ Cap \in Nat /\ Cap >= 2
  BY CapPositive DEF WriterTypes, ChannelTypeOK, MoveElement
<1>2. /\ pos' = IF LastOfPass /\ cr.circ THEN 0 ELSE pos + 1
      /\ pass' = IF LastOfPass /\ cr.circ THEN pass + Cap ELSE pass
      /\ htif' = (htif \/ pos + 1 = Half)
      /\ tcif' = (tcif \/ LastOfPass)
      /\ LastOfPass => ~tcif
      /\ UNCHANGED <<cr, complete_count, waker, woken>>
  BY DEF MoveElement
<1>3. pos' \in 0 .. Cap /\ pass' \in Nat /\ htif' \in BOOLEAN /\ tcif' \in BOOLEAN
  <2>1. htif' \in BOOLEAN /\ tcif' \in BOOLEAN
    BY <1>2
  <2>2. pos' \in 0 .. Cap /\ pass' \in Nat
    BY <1>1, <1>2
  <2> QED
    BY <2>1, <2>2
<1>4. ChannelTypeOK'
  BY <1>2, <1>3 DEF WriterTypes, ChannelTypeOK
<1>5. Moved' = Moved + 1
  BY <1>1, <1>2 DEF Moved, LastOfPass
<1>6. ASSUME NEW q \in Nat, pass = q * Cap PROVE \E p \in Nat : pass' = p * Cap
  <2>1. (q + 1) * Cap = q * Cap + Cap
    BY Passes
  <2>2. pass' = q * Cap \/ pass' = (q + 1) * Cap
    BY <1>2, <1>6, <2>1
  <2> QED
    BY <2>2
<1>7. LastOfPass \/ ~LastOfPass => (~LastOfPass => tcif' = tcif) /\ (pos + 1 = Half => htif')
  BY <1>1, <1>2
<1>8. cr.circ => pos' < Cap
  BY <1>1, <1>2 DEF LastOfPass
<1> QED
  BY <1>1, <1>2, <1>4, <1>5, <1>6, <1>7, <1>8

LEMMA ReadStep ==
  ASSUME WriterInv, DmaRead
  PROVE  WriterInv'
<1>1. /\ ~Straddles /\ MoveElement
      /\ missed' = IF Moved >= base /\ slots[pos] # Moved THEN missed \cup {Moved} ELSE missed
      /\ UNCHANGED <<wpc, wop, want, count_diff, read_index, write_index, next, writable, copied,
                     slots, base, outcome, cr, complete_count, waker, woken>>
  BY DEF DmaRead, ringVars, MoveElement
<1>2. /\ ChannelTypeOK' /\ Moved' = Moved + 1 /\ Moved \in Nat
      /\ cr.circ /\ pos < Cap /\ (\E q \in Nat : pass = q * Cap)
           => pos' < Cap /\ (\E q \in Nat : pass' = q * Cap)
      /\ LastOfPass /\ cr.circ => pass' = pass + Cap /\ pos' = 0 /\ ~tcif /\ tcif'
      /\ ~LastOfPass => pass' = pass /\ pos' = pos + 1 /\ tcif' = tcif
      /\ pos + 1 = Half => htif'
  BY <1>1, MoveFacts, Numbers DEF WriterInv
<1>3. WriterTypes'
  BY <1>1, <1>2 DEF WriterInv, WriterTypes
<1>4. ResultInv'
  BY <1>1, <1>2 DEF WriterInv, WriterTypes, ResultInv
<1>5. wpc # "unbuilt"
  BY <1>1 DEF WriterInv, UnbuiltInv, MoveElement
<1>6. (Tracking <=> Tracking') /\ (Resetting <=> Resetting') /\ (Writing <=> Writing')
      /\ (Syncing <=> Syncing') /\ (Waiting <=> Waiting')
  BY <1>1 DEF Tracking, Resetting, Writing, Syncing, Waiting
<1>7. Tracking \/ Resetting => CircularInv /\ CircularInv'
  BY <1>1, <1>2, <1>6 DEF WriterInv, CircularInv
<1>8. wpc = "resync_pos" => ~LastOfPass
  BY <1>1 DEF Straddles
<1>9. ASSUME Tracking PROVE TrackInv' /\ InPlace' /\ MissedInv' /\ WriteInv' /\ WakeInv'
  <2>1. /\ WriterTypes /\ TrackInv /\ InPlace /\ MissedInv /\ WriteInv /\ WakeInv /\ CircularInv
        /\ CircularInv' /\ cr.circ
    BY <1>7, <1>9 DEF WriterInv, CircularInv
  <2>2. ReadNumber' = ReadNumber /\ ReadPass' = ReadPass /\ ReadNumber \in Int /\ ReadPass \in Int
    BY <1>1, <2>1, Numbers DEF ReadNumber, ReadPass
  <2>3. pass' = ReadPass + Uncounted' * Cap
    <3>1. CASE LastOfPass
      <4>1. Uncounted' = Uncounted + 1 /\ Uncounted \in Nat
        <5>1. Bit(tcif) = 0 /\ Bit(tcif') = 1
          BY <1>2, <2>1, <3>1 DEF Bit
        <5>2. complete_count \in Nat /\ count_diff \in Nat
          BY <2>1 DEF WriterTypes, ChannelTypeOK
        <5> QED
          BY <1>1, <1>6, <5>1, <5>2 DEF Uncounted, Bit
      <4>2. (Uncounted + 1) * Cap = Uncounted * Cap + Cap /\ Uncounted * Cap \in Int
        BY <4>1, Passes
      <4> QED
        BY <1>2, <2>1, <2>2, <3>1, <4>1, <4>2, CapPositive DEF TrackInv
    <3>2. CASE ~LastOfPass
      <4>1. Uncounted' = Uncounted
        BY <1>1, <1>2, <1>6, <3>2 DEF Uncounted, Bit
      <4> QED
        BY <1>2, <2>1, <3>2, <4>1 DEF TrackInv
    <3> QED
      BY <3>1, <3>2
  <2>4. TrackInv'
    BY <1>1, <1>2, <2>1, <2>2, <2>3 DEF TrackInv
  <2>5. InPlace'
    BY <1>1, <1>2, <2>1 DEF InPlace
  <2>6. /\ next \in Nat /\ copied \in Nat /\ writable \in Nat /\ base \in Int
        /\ \A k \in missed : k \in Int
    BY <2>1 DEF WriterTypes
  <2>7. \A k \in missed' : k \in missed \/ (k = Moved /\ k >= next + copied)
    <3>1. Moved >= base /\ slots[pos] # Moved => ~(Moved < next + copied)
      BY <1>2, <2>1, MovedSlot DEF InPlace
    <3> QED
      BY <1>1, <1>2, <2>6, <3>1
  <2>8. MissedInv'
    BY <1>1, <1>2, <2>1, <2>6, <2>7 DEF MissedInv
  <2>9. WriteInv'
    <3>1. ASSUME wpc = "len2_pos", Overtaken' PROVE complete_count' = 0 /\ ~tcif'
      <4>1. copied = writable
        BY <2>1, <3>1 DEF WriteInv, Writing
      <4>2. Overtaken
        BY <1>1, <1>2, <2>6, <2>7, <3>1, <4>1 DEF Overtaken
      <4>3. ~LastOfPass
        BY <1>1, <3>1, <4>2 DEF Overtaken, Straddles
      <4> QED
        BY <1>1, <1>2, <2>1, <3>1, <4>2, <4>3 DEF WriteInv, Writing
    <3> QED
      BY <1>1, <1>6, <2>1, <3>1 DEF WriteInv
  <2>10. WakeInv'
    <3>1. ASSUME wpc = "parked", ~woken, NEW k \in ReadNumber' + 1 .. Moved'
          PROVE  (k % Cap = 0 => tcif') /\ (k % Cap = Half => htif')
      <4>1. CASE k = Moved'
        <5>1. k % Cap = pos'
          BY <1>3, <2>1, <4>1, MovedSlotPrime
        <5>2. pos \in Nat /\ Half \in Nat /\ Half > 0 /\ Half < Cap
          BY <2>1, CapPositive, SMT DEF WriterTypes, ChannelTypeOK, Half
        <5> QED
          BY <1>2, <2>1, <5>1, <5>2 DEF LastOfPass
      <4>2. CASE k # Moved'
        <5>1. k \in ReadNumber + 1 .. Moved
          BY <1>2, <2>2, <3>1, <4>2
        <5>2. (k % Cap = 0 => tcif) /\ (k % Cap = Half => htif)
          BY <2>1, <3>1, <5>1 DEF WakeInv
        <5>3. (tcif => tcif') /\ (htif => htif')
          BY <1>1 DEF MoveElement
        <5> QED
          BY <5>2, <5>3
      <4> QED
        BY <4>1, <4>2
    <3> QED
      BY <1>1, <1>6, <2>1, <3>1 DEF WakeInv
  <2> QED
    BY <2>4, <2>5, <2>8, <2>9, <2>10
<1> QED
  BY <1>1, <1>2, <1>3, <1>4, <1>5, <1>6, <1>7, <1>8, <1>9 DEF WriterInv

-------------------------------------------------------------------------------
(* The interrupt handler. *)

LEMMA InterruptFacts ==
  ASSUME WriterTypes, on_irq
  PROVE  /\ ChannelTypeOK'
         /\ UNCHANGED <<pos, pass>>
         /\ cr'.circ = cr.circ /\ cr'.htie = cr.htie /\ cr'.tcie = cr.tcie
         /\ woken' = (woken \/ waker)
         /\ complete_count' + Bit(tcif') = complete_count + Bit(tcif)
         /\ ~tcif => tcif' = tcif /\ complete_count' = complete_count
<1>1. /\ cr \in [en : BOOLEAN, circ : BOOLEAN, htie : BOOLEAN, tcie : BOOLEAN]
      /\ tcif \in BOOLEAN /\ complete_count \in Nat
      /\ woken \in BOOLEAN /\ waker \in BOOLEAN /\ htif \in BOOLEAN
      /\ pos \in 0 .. Cap /\ pass \in Nat
  BY DEF WriterTypes, ChannelTypeOK
<1>2. waker' = FALSE /\ woken' = (woken \/ waker) /\ UNCHANGED <<pos, pass>>
  BY DEF on_irq, on_irq_half, on_irq_complete, Wake
<1>3. CASE on_irq_half
  <2>1. UNCHANGED <<cr, tcif, complete_count>> /\ htif' = FALSE
    BY <1>3 DEF on_irq_half
  <2>2. woken' \in BOOLEAN
    BY <1>1, <1>2
  <2> QED
    BY <1>1, <1>2, <2>1, <2>2 DEF ChannelTypeOK
<1>4. CASE on_irq_complete
  <2>1. /\ tcif = TRUE /\ tcif' = FALSE /\ complete_count' = complete_count + 1
        /\ cr' = [cr EXCEPT !.en = @ /\ Remaining # 0] /\ htif' = htif
    BY <1>1, <1>4 DEF on_irq_complete
  <2>2. woken' \in BOOLEAN
    BY <1>1, <1>2
  <2>3. /\ cr' \in [en : BOOLEAN, circ : BOOLEAN, htie : BOOLEAN, tcie : BOOLEAN]
        /\ cr'.circ = cr.circ /\ cr'.htie = cr.htie /\ cr'.tcie = cr.tcie
    BY <1>1, <2>1
  <2>4. complete_count' + Bit(tcif') = complete_count + Bit(tcif)
    BY <1>1, <2>1 DEF Bit
  <2>5. ChannelTypeOK'
    <3>1. complete_count' \in Nat
      BY <1>1, <2>1
    <3>2. pos' \in 0 .. Cap /\ pass' \in Nat
      BY <1>1, <1>2
    <3>3. htif' \in BOOLEAN /\ tcif' \in BOOLEAN /\ waker' \in BOOLEAN
      BY <1>1, <1>2, <2>1, Zenon
    <3> QED
      BY <2>2, <2>3, <3>1, <3>2, <3>3 DEF ChannelTypeOK
  <2> QED
    BY <1>2, <2>1, <2>3, <2>4, <2>5
<1> QED
  BY <1>3, <1>4 DEF on_irq

LEMMA InterruptStep ==
  ASSUME WriterInv, DmaInterrupt
  PROVE  WriterInv'
<1>1. /\ on_irq
      /\ UNCHANGED <<wpc, wop, want, count_diff, read_index, write_index, next, writable, copied,
                     slots, base, missed, outcome>>
  BY DEF DmaInterrupt, ringVars, ghostVars
<1>2. /\ ChannelTypeOK'
      /\ UNCHANGED <<pos, pass>> /\ Moved' = Moved
      /\ cr'.circ = cr.circ /\ cr'.htie = cr.htie /\ cr'.tcie = cr.tcie
      /\ woken' = (woken \/ waker)
      /\ complete_count' + Bit(tcif') = complete_count + Bit(tcif)
      /\ ~tcif => tcif' = tcif /\ complete_count' = complete_count
  BY <1>1, InterruptFacts DEF WriterInv, Moved
<1>3. WriterTypes'
  BY <1>1, <1>2 DEF WriterInv, WriterTypes
<1>4. ResultInv'
  BY <1>1, <1>2 DEF WriterInv, ResultInv
<1>5. (Tracking <=> Tracking') /\ (Resetting <=> Resetting') /\ (Writing <=> Writing')
      /\ (Syncing <=> Syncing') /\ (Waiting <=> Waiting') /\ (Overtaken <=> Overtaken')
  BY <1>1 DEF Tracking, Resetting, Writing, Syncing, Waiting, Overtaken
<1>6. Tracking \/ Resetting => CircularInv'
  BY <1>2 DEF WriterInv, CircularInv
<1>7. wpc = "unbuilt" => UnbuiltInv'
  <2>1. ASSUME wpc = "unbuilt" PROVE on_irq_half
    BY <1>1, <2>1 DEF WriterInv, UnbuiltInv, on_irq, on_irq_complete
  <2> QED
    BY <1>1, <1>2, <2>1 DEF WriterInv, UnbuiltInv, on_irq_half
<1>8. ASSUME Tracking PROVE TrackInv' /\ InPlace' /\ MissedInv' /\ WriteInv' /\ WakeInv'
  <2>1. /\ WriterTypes /\ TrackInv /\ InPlace /\ MissedInv /\ WriteInv /\ WakeInv
    BY <1>8 DEF WriterInv
  <2>2. ReadNumber' = ReadNumber /\ ReadPass' = ReadPass
    BY <1>1 DEF ReadNumber, ReadPass
  <2>3. Uncounted' = Uncounted
    BY <1>1, <1>2, <1>5 DEF Uncounted
  <2>4. TrackInv'
    BY <1>1, <1>2, <2>1, <2>2, <2>3 DEF TrackInv
  <2>5. InPlace' /\ MissedInv'
    BY <1>1, <1>2, <2>1 DEF InPlace, MissedInv
  <2>6. WriteInv'
    BY <1>1, <1>2, <1>5, <2>1 DEF WriteInv
  <2>7. Waiting => woken'
    BY <1>2, <2>1 DEF WakeInv
  <2>8. WakeInv'
    BY <1>1, <1>5, <2>7 DEF WakeInv, Waiting
  <2> QED
    BY <2>4, <2>5, <2>6, <2>8
<1> QED
  BY <1>1, <1>2, <1>3, <1>4, <1>5, <1>6, <1>7, <1>8 DEF WriterInv

-------------------------------------------------------------------------------
(* The task's steps, which leave the controller alone. *)

\* Whatever does not touch what the invariant relates, and goes from one step of an
\* operation to another where it says no more, keeps it.
LEMMA TrackFrame ==
  ASSUME UNCHANGED <<pos, pass, tcif, complete_count, read_index, write_index, next, writable,
                     copied, slots, base, missed>>,
         Syncing <=> Syncing', UNCHANGED count_diff
  PROVE  /\ TrackInv => TrackInv'
         /\ InPlace => InPlace'
         /\ MissedInv => MissedInv'
         /\ Moved' = Moved /\ ReadNumber' = ReadNumber
         /\ (Overtaken <=> Overtaken')
<1>1. Moved' = Moved /\ ReadNumber' = ReadNumber /\ ReadPass' = ReadPass /\ Uncounted' = Uncounted
  BY DEF Moved, ReadNumber, ReadPass, Uncounted
<1>2. TrackInv => TrackInv'
  BY <1>1 DEF TrackInv
<1>3. (InPlace => InPlace') /\ (MissedInv => MissedInv')
  BY <1>1 DEF InPlace, MissedInv
<1> QED
  BY <1>1, <1>2, <1>3 DEF Overtaken

\* An operation begins.
LEMMA BeginStep ==
  ASSUME WriterInv, NEW operation \in {"write", "exact", "len", "error", "clear"}, NEW n \in Nat,
         NEW first \in {"len1", "reset"}, operation = "clear" <=> first = "reset",
         write_begins(operation, n, first)
  PROVE  WriterInv'
<1>1. /\ wpc = "idle" /\ wpc' = first /\ wop' = operation /\ want' = n
      /\ UNCHANGED <<cr, htif, tcif, pos, pass, complete_count, count_diff, read_index,
                     write_index, next, writable, copied, outcome, slots, base, missed>>
      /\ waker' \in BOOLEAN /\ woken' \in BOOLEAN
      /\ operation \in {"exact", "error"} => waker'
  BY DEF write_begins, WriterRuns, ringVars, ghostVars, Register, WriterInv, WriterTypes,
         ChannelTypeOK
<1>2. WriterTypes'
  BY <1>1 DEF WriterInv, WriterTypes, ChannelTypeOK
<1>3. Syncing <=> Syncing'
  BY <1>1 DEF Syncing
<1>4. Tracking /\ ~Writing
  BY <1>1 DEF Tracking, Writing
<1>5. TrackInv' /\ InPlace' /\ MissedInv' /\ Moved' = Moved
  BY <1>1, <1>3, <1>4, TrackFrame DEF WriterInv
<1>6. CircularInv' /\ ResultInv'
  BY <1>1, <1>4, <1>5 DEF WriterInv, CircularInv, ResultInv
<1>7. WriteInv'
  BY <1>1, <1>4 DEF WriterInv, WriteInv, Writing
<1>8. first = "len1" => WakeInv'
  BY <1>1 DEF WakeInv, Waiting, Writing, Syncing
<1> QED
  BY <1>1, <1>2, <1>5, <1>6, <1>7, <1>8 DEF WriterInv, Tracking, Writing

LEMMA RepollStep == WriterInv /\ write_repoll => WriterInv'
<1> SUFFICES ASSUME WriterInv, write_repoll PROVE WriterInv'
  OBVIOUS
<1>1. /\ wpc = "parked" /\ wpc' = "len1" /\ waker' = TRUE /\ woken' = FALSE
      /\ UNCHANGED <<cr, htif, tcif, pos, pass, complete_count, count_diff, read_index, wop, want,
                     write_index, next, writable, copied, outcome, slots, base, missed>>
  BY DEF write_repoll, WriterRuns, ringVars, ghostVars, Register
<1>2. WriterTypes'
  BY <1>1 DEF WriterInv, WriterTypes, ChannelTypeOK
<1>3. Syncing <=> Syncing'
  BY <1>1 DEF Syncing
<1>4. Tracking /\ ~Writing
  BY <1>1 DEF Tracking, Writing
<1>5. TrackInv' /\ InPlace' /\ MissedInv' /\ Moved' = Moved
  BY <1>1, <1>3, <1>4, TrackFrame DEF WriterInv
<1>6. CircularInv' /\ ResultInv'
  BY <1>1, <1>4, <1>5 DEF WriterInv, CircularInv, ResultInv
<1>7. WriteInv' /\ WakeInv'
  BY <1>1, <1>4 DEF WriterInv, WriteInv, Writing, WakeInv, Waiting, Syncing
<1> QED
  BY <1>1, <1>2, <1>5, <1>6, <1>7 DEF WriterInv, Tracking, Writing

LEMMA CancelStep == WriterInv /\ write_cancelled => WriterInv'
<1> SUFFICES ASSUME WriterInv, write_cancelled PROVE WriterInv'
  OBVIOUS
<1>1. /\ wpc = "parked" /\ wpc' = "idle" /\ wop' = "none" /\ want' = 0
      /\ count_diff' = 0 /\ writable' = 0 /\ copied' = 0
      /\ UNCHANGED <<cr, htif, tcif, pos, pass, complete_count, waker, woken, read_index,
                     write_index, next, outcome, slots, base, missed>>
  BY DEF write_cancelled, WriterRuns, WriterReturns, ringVars, ghostVars, channelVars
<1>2. WriterTypes'
  BY <1>1 DEF WriterInv, WriterTypes, ChannelTypeOK
<1>3. Tracking /\ ~Writing /\ ~Syncing /\ ~Syncing'
  BY <1>1 DEF Tracking, Writing, Syncing
<1>4. copied = 0 /\ writable = 0
  BY <1>3 DEF WriterInv, WriteInv
<1>5. Moved' = Moved /\ ReadNumber' = ReadNumber /\ ReadPass' = ReadPass /\ Uncounted' = Uncounted
  BY <1>1, <1>3 DEF Moved, ReadNumber, ReadPass, Uncounted
<1>6. TrackInv' /\ InPlace' /\ MissedInv'
  BY <1>1, <1>3, <1>4, <1>5 DEF WriterInv, TrackInv, InPlace, MissedInv
<1>7. CircularInv' /\ ResultInv'
  BY <1>1, <1>3, <1>5 DEF WriterInv, CircularInv, ResultInv
<1>8. WriteInv' /\ WakeInv'
  BY <1>1 DEF WriteInv, Writing, WakeInv, Waiting
<1> QED
  BY <1>1, <1>2, <1>6, <1>7, <1>8 DEF WriterInv, Tracking, Writing

LEMMA TakeStep == WriterInv /\ take_count => WriterInv'
<1> SUFFICES ASSUME WriterInv, take_count PROVE WriterInv'
  OBVIOUS
<1>1. /\ wpc \in {"len1", "len2", "reset", "resync"} /\ wpc' = NextLoad[wpc]
      /\ count_diff' = complete_count /\ complete_count' = 0 /\ ~IrqPending
      /\ UNCHANGED <<cr, htif, tcif, pos, pass, waker, woken, wop, want, read_index,
                     write_index, next, writable, copied, outcome, slots, base, missed>>
  BY DEF take_count, WriterRuns, ringVars, ghostVars, reset_complete_count, NextLoad
<1>2. wpc' = CASE wpc = "len1" -> "len1_pos" [] wpc = "len2" -> "len2_pos"
               [] wpc = "reset" -> "resync" [] wpc = "resync" -> "resync_pos"
  BY <1>1 DEF NextLoad
<1>3. WriterTypes'
  BY <1>1 DEF WriterInv, WriterTypes, ChannelTypeOK
<1>4. CircularInv /\ ~tcif
  BY <1>1 DEF WriterInv, Tracking, Resetting, Writing, CircularInv, IrqPending
<1>5. CircularInv' /\ ResultInv'
  BY <1>1, <1>4 DEF WriterInv, CircularInv, ResultInv, Moved
<1>6. ASSUME wpc \in {"len1", "len2"} PROVE TrackInv' /\ InPlace' /\ MissedInv' /\ WriteInv' /\ WakeInv'
  <2>1. ~Syncing /\ Syncing' /\ Tracking
    BY <1>2, <1>6 DEF Syncing, Tracking, Writing
  <2>2. TrackInv /\ InPlace /\ MissedInv /\ WriteInv /\ WakeInv /\ WriterTypes
    BY <2>1 DEF WriterInv
  <2>3. Moved' = Moved /\ ReadNumber' = ReadNumber /\ ReadPass' = ReadPass
    BY <1>1 DEF Moved, ReadNumber, ReadPass
  <2>4. Uncounted' = Uncounted
    <3>1. complete_count \in Nat /\ Bit(tcif) = 0 /\ Bit(tcif') = 0
      BY <1>1, <1>4, <2>2 DEF WriterTypes, ChannelTypeOK, Bit
    <3> QED
      BY <1>1, <2>1, <3>1 DEF Uncounted
  <2>5. TrackInv' /\ InPlace' /\ MissedInv'
    BY <1>1, <2>2, <2>3, <2>4 DEF TrackInv, InPlace, MissedInv
  <2>6. WriteInv'
    BY <1>1, <1>2, <1>4, <1>6, <2>2 DEF WriteInv, Writing
  <2>7. WakeInv'
    BY <1>1, <1>2, <1>6, <2>2 DEF WakeInv, Waiting, Writing, Syncing
  <2> QED
    BY <2>5, <2>6, <2>7
<1>7. (wpc = "resync_pos" => complete_count = 0 /\ ~tcif)'
  BY <1>1, <1>4
<1> QED
  BY <1>1, <1>2, <1>3, <1>5, <1>6, <1>7 DEF WriterInv, Tracking, Writing

-------------------------------------------------------------------------------
(* The end of a dma_sync. *)

LEMMA Antisymmetric ==
  ASSUME NEW l \in Index, NEW r \in Index
  PROVE  diff(l, r) = -diff(r, l)
<1>1. /\ l.complete_count * Cap \in Int /\ r.complete_count * Cap \in Int
      /\ l.pos \in Int /\ r.pos \in Int
  BY CapPositive DEF Index
<1> QED
  BY <1>1 DEF diff

\* The indices are stored, normalized: they are as far apart as what was found.
LEMMA StoreFacts ==
  ASSUME WriterTypes, CircularInv, TrackInv, Syncing, ~IrqPending, StoreSynced
  PROVE  /\ read_index' \in Index /\ Lower(write_index, LowestCount) \in Index
         /\ read_index'.pos = SyncedRead.pos /\ read_index'.pos < Cap
         /\ Queued = diff(Lower(write_index, LowestCount), read_index')
         /\ Queued = next - SyncNumber /\ Queued \in Int
         /\ SyncNumber \in Int /\ ReadNumber <= SyncNumber /\ SyncNumber <= Moved
         /\ pass = SyncNumber - SyncedRead.pos + complete_count * Cap
         /\ complete_count = 0 => SyncNumber = Moved
         /\ ~tcif
<1>1. SyncedRead \in Index /\ write_index \in Index
      /\ SyncNumber \in Int /\ diff(write_index, SyncedRead) \in Int /\ next \in Nat
  BY Numbers DEF WriterTypes
<1> DEFINE l == Lower(SyncedRead, LowestCount)
           w == Lower(write_index, LowestCount)
<1>2. /\ l \in Index /\ w \in Index /\ l.pos = SyncedRead.pos
      /\ diff(l, w) = diff(SyncedRead, write_index)
  BY <1>1, LowerType DEF LowestCount
<1>3. diff(w, l) = diff(write_index, SyncedRead)
  BY <1>1, <1>2, Antisymmetric
<1>4. read_index' = l /\ Queued = diff(w, l)
  BY DEF StoreSynced, Queued
<1>5. ~tcif /\ Bit(tcif) = 0 /\ complete_count \in Nat
  BY DEF IrqPending, CircularInv, Bit, WriterTypes, ChannelTypeOK
<1>6. Queued = next - SyncNumber
  BY <1>1, <1>3, <1>4 DEF SyncNumber
<1> HIDE DEF l, w
<1>7. /\ ReadNumber <= SyncNumber /\ SyncNumber <= Moved /\ SyncedRead.pos < Cap
      /\ pass = SyncNumber - SyncedRead.pos + complete_count * Cap
      /\ complete_count = 0 => SyncNumber = Moved
  BY <1>5, SyncFacts
<1> QED
  BY <1>1, <1>2, <1>4, <1>5, <1>6, <1>7 DEF l, w

\* After it, the indices stand for what was found, and TrackInv has nothing pending but
\* the counter.
LEMMA StoreTracks ==
  ASSUME WriterTypes, CircularInv, TrackInv, Syncing, ~IrqPending, StoreSynced,
         UNCHANGED <<pass, pos, tcif, complete_count>>, ~Syncing',
         NEW n \in Nat, next' = next + n,
         write_index' \in Index,
         diff(write_index', read_index') = Queued + n,
         writable' \in Nat,
         next' + writable' <= SyncNumber + Cap
  PROVE  /\ TrackInv' /\ ReadNumber' = SyncNumber /\ Moved' = Moved
         /\ complete_count = 0 => ReadNumber' = Moved'
<1>1. /\ read_index' \in Index
      /\ read_index'.pos = SyncedRead.pos /\ read_index'.pos < Cap
      /\ Queued = next - SyncNumber
      /\ SyncNumber \in Int /\ SyncNumber <= Moved
      /\ pass = SyncNumber - SyncedRead.pos + complete_count * Cap
      /\ complete_count = 0 => SyncNumber = Moved
      /\ ~tcif
  BY StoreFacts
<1>2. next \in Nat /\ Cap <= next /\ complete_count \in Nat
  BY DEF WriterTypes, TrackInv, ChannelTypeOK
<1>3. ReadNumber' = SyncNumber /\ Moved' = Moved
  BY <1>1, <1>2 DEF ReadNumber, Moved
<1>4. Uncounted' = complete_count
  BY <1>1, <1>2 DEF Uncounted, Bit
<1>5. pass' = ReadPass' + Uncounted' * Cap
  BY <1>1, <1>3, <1>4 DEF ReadPass
<1>6. Cap <= next' /\ next' + writable' <= ReadNumber' + Cap /\ ReadNumber' <= Moved'
  <2>1. Cap <= next'
    BY <1>2, CapPositive
  <2>2. next' + writable' <= ReadNumber' + Cap
    BY <1>3
  <2>3. ReadNumber' <= Moved'
    BY <1>1, <1>3
  <2> QED
    BY <2>1, <2>2, <2>3
<1>7. TrackInv'
  BY <1>1, <1>5, <1>6, Zenon DEF TrackInv
<1> QED
  BY <1>1, <1>3, <1>7

LEMMA FailStep == WriterInv /\ sync_fails => WriterInv'
<1> SUFFICES ASSUME WriterInv, sync_fails PROVE WriterInv'
  OBVIOUS
<1>1. /\ ~IrqPending /\ wpc \in {"len1_pos", "len2_pos"} /\ Queued \notin 0 .. Cap
      /\ outcome' = IF Queued < 0 THEN "overrun" ELSE "unsynced"
      /\ wpc' \in {"idle", "reset"} /\ wop' = "none" /\ want' = 0
      /\ count_diff' = 0 /\ writable' = 0 /\ copied' = 0
      /\ StoreSynced /\ write_index' = Lower(write_index, LowestCount)
      /\ UNCHANGED <<cr, htif, tcif, pos, pass, complete_count, waker, woken, next,
                     slots, base, missed>>
  BY DEF sync_fails, WriterRuns, WriterReturns, ghostVars, channelVars
<1>2. /\ Syncing /\ Tracking /\ ~Syncing' /\ ~Writing'
      /\ WriterTypes /\ CircularInv /\ TrackInv /\ InPlace /\ MissedInv
  BY <1>1 DEF WriterInv, Syncing, Tracking, Writing
<1>3. /\ read_index' \in Index /\ write_index' \in Index
      /\ Queued = diff(write_index', read_index')
      /\ Queued = next - SyncNumber /\ Queued \in Int
      /\ SyncNumber \in Int /\ ReadNumber <= SyncNumber /\ SyncNumber <= Moved
  BY <1>1, <1>2, StoreFacts
<1>4. /\ next \in Nat /\ next <= ReadNumber + Cap /\ ReadNumber \in Int /\ Moved \in Nat
      /\ copied \in Nat
  <2>1. next \in Nat /\ writable \in Nat /\ copied \in Nat
    BY <1>2 DEF WriterTypes
  <2>2. next + writable <= ReadNumber + Cap
    BY <1>2 DEF TrackInv
  <2> QED
    BY <1>2, <2>1, <2>2, Numbers, CapPositive
<1>5. Queued < 0 /\ next < SyncNumber
  BY <1>1, <1>3, <1>4, CapPositive
<1>6. WriterTypes'
  BY <1>1, <1>2, <1>3 DEF WriterTypes, ChannelTypeOK
<1>7. TrackInv' /\ Moved' = Moved
  BY <1>1, <1>2, <1>3, <1>4, <1>5, CapPositive, StoreTracks
<1>8. InPlace' /\ MissedInv'
  BY <1>1, <1>2, <1>4, <1>7 DEF InPlace, MissedInv
<1>9. WriteInv' /\ WakeInv'
  BY <1>1, <1>2 DEF WriteInv, WakeInv, Waiting
<1>10. ResultInv' /\ CircularInv'
  BY <1>1, <1>2, <1>3, <1>4, <1>5, <1>7 DEF ResultInv, CircularInv
<1> QED
  BY <1>1, <1>6, <1>7, <1>8, <1>9, <1>10 DEF WriterInv

LEMMA LenStep == WriterInv /\ len_or_wait => WriterInv'
<1> SUFFICES ASSUME WriterInv, len_or_wait PROVE WriterInv'
  OBVIOUS
<1>1. /\ ~IrqPending /\ wpc = "len1_pos" /\ wop \in {"len", "error"} /\ Queued \in 0 .. Cap
      /\ outcome' = "ok"
      /\ wpc' = (IF wop = "len" THEN "idle" ELSE "parked")
      /\ wop' = (IF wop = "len" THEN "none" ELSE wop)
      /\ count_diff' = 0 /\ writable' = 0 /\ copied' = 0
      /\ StoreSynced /\ write_index' = Lower(write_index, LowestCount)
      /\ UNCHANGED <<cr, htif, tcif, pos, pass, complete_count, waker, woken, next, want,
                     slots, base, missed>>
  BY DEF len_or_wait, WriterRuns, WriterReturns, ghostVars, channelVars
<1>2. /\ Syncing /\ Tracking /\ ~Writing /\ ~Syncing' /\ ~Writing'
      /\ WriterTypes /\ CircularInv /\ TrackInv /\ InPlace /\ MissedInv /\ WakeInv
  BY <1>1 DEF WriterInv, Syncing, Tracking, Writing
<1>3. /\ read_index' \in Index /\ write_index' \in Index
      /\ Queued = diff(write_index', read_index')
      /\ Queued = next - SyncNumber /\ Queued \in Int
      /\ SyncNumber \in Int /\ ReadNumber <= SyncNumber /\ SyncNumber <= Moved
  BY <1>1, <1>2, StoreFacts
<1>4. next \in Nat /\ copied \in Nat /\ Moved \in Nat
  BY <1>2, Numbers DEF WriterTypes
<1>5. WriterTypes'
  BY <1>1, <1>2, <1>3 DEF WriterTypes, ChannelTypeOK
<1>6. TrackInv' /\ Moved' = Moved /\ (complete_count = 0 => ReadNumber' = Moved')
  BY <1>1, <1>2, <1>3, <1>4, CapPositive, StoreTracks
<1>7. InPlace' /\ MissedInv'
  BY <1>1, <1>2, <1>4, <1>6 DEF InPlace, MissedInv
<1>8. WriteInv'
  BY <1>1, <1>2 DEF WriteInv
<1>9. WakeInv'
  <2>1. CASE wop = "len"
    BY <1>1, <1>2, <2>1 DEF WakeInv, Waiting
  <2>2. CASE wop = "error"
    <3>1. (waker \/ woken) /\ (complete_count # 0 => woken)
      BY <1>1, <1>2, <2>2 DEF WakeInv, Waiting, Syncing
    <3>2. ~woken => ReadNumber' + 1 .. Moved' = {}
      BY <1>4, <1>6, <3>1
    <3> QED
      BY <1>1, <1>2, <2>2, <3>1, <3>2 DEF WakeInv
  <2> QED
    BY <1>1, <2>1, <2>2
<1>10. ResultInv' /\ CircularInv'
  BY <1>1, <1>2 DEF ResultInv, CircularInv
<1> QED
  BY <1>1, <1>5, <1>6, <1>7, <1>8, <1>9, <1>10 DEF WriterInv

-------------------------------------------------------------------------------
(* A write. *)

LEMMA StartStep == WriterInv /\ write_starts => WriterInv'
<1> SUFFICES ASSUME WriterInv, write_starts PROVE WriterInv'
  OBVIOUS
<1>1. /\ ~IrqPending /\ wpc = "len1_pos" /\ wop \in {"write", "exact"} /\ Queued \in 0 .. Cap
      /\ writable' = (IF Space <= want THEN Space ELSE want)
      /\ wpc' = (IF writable' = 0 THEN "len2" ELSE "copy")
      /\ count_diff' = 0
      /\ StoreSynced /\ write_index' = Lower(write_index, LowestCount)
      /\ UNCHANGED <<cr, htif, tcif, pos, pass, complete_count, waker, woken, next, want, wop,
                     copied, outcome, slots, base, missed>>
  BY DEF write_starts, WriterRuns, ghostVars, channelVars
<1>2. /\ Syncing /\ Tracking /\ ~Writing /\ ~Syncing' /\ Writing'
      /\ WriterTypes /\ CircularInv /\ TrackInv /\ InPlace /\ MissedInv /\ WriteInv /\ WakeInv
      /\ ResultInv
  BY <1>1 DEF WriterInv, Syncing, Tracking, Writing
<1>3. /\ read_index' \in Index /\ write_index' \in Index
      /\ Queued = diff(write_index', read_index')
      /\ Queued = next - SyncNumber /\ Queued \in Int
      /\ SyncNumber \in Int /\ ReadNumber <= SyncNumber /\ SyncNumber <= Moved
  BY <1>1, <1>2, StoreFacts
<1>4. next \in Nat /\ copied = 0 /\ want \in Nat
  BY <1>2 DEF WriterTypes, WriteInv
<1>5. writable' \in Nat /\ writable' <= want /\ next + writable' <= SyncNumber + Cap
  <2>1. Space = Cap - Queued
    BY DEF Space
  <2> QED
    BY <1>1, <1>3, <1>4, <2>1, CapPositive
<1>6. WriterTypes'
  BY <1>1, <1>2, <1>3, <1>5 DEF WriterTypes, ChannelTypeOK
<1>7. TrackInv' /\ Moved' = Moved
  BY <1>1, <1>2, <1>3, <1>4, <1>5, StoreTracks
<1>8. InPlace' /\ MissedInv'
  BY <1>1, <1>2, <1>7 DEF InPlace, MissedInv
<1>9. WriteInv'
  BY <1>1, <1>2, <1>4, <1>5 DEF WriteInv
<1>10. WakeInv'
  BY <1>1, <1>2 DEF WakeInv, Waiting, Writing
<1>11. ResultInv' /\ CircularInv'
  BY <1>1, <1>2, <1>7 DEF ResultInv, CircularInv
<1> QED
  BY <1>1, <1>2, <1>6, <1>7, <1>8, <1>9, <1>10, <1>11 DEF WriterInv

\* The element that is written is less than a buffer ahead of what was sent, so it
\* overwrites none that was not.
LEMMA CopyStep == WriterInv /\ write_buf => WriterInv'
<1> SUFFICES ASSUME WriterInv, write_buf PROVE WriterInv'
  OBVIOUS
<1>1. /\ wpc = "copy"
      /\ slots' = [slots EXCEPT ![as_index(write_index, copied)] = next + copied]
      /\ copied' = copied + 1
      /\ wpc' = (IF copied' = writable THEN "len2" ELSE "copy")
      /\ UNCHANGED <<cr, htif, tcif, pos, pass, complete_count, waker, woken, next, want, wop,
                     count_diff, read_index, write_index, writable, outcome, base, missed>>
  BY DEF write_buf, ghostVars, ringVars, channelVars
<1>2. /\ ~Syncing /\ Tracking /\ Writing /\ ~Syncing' /\ Writing'
      /\ WriterTypes /\ CircularInv /\ TrackInv /\ InPlace /\ MissedInv /\ WriteInv /\ WakeInv
      /\ ResultInv
  BY <1>1 DEF WriterInv, Syncing, Tracking, Writing
<1>3. next \in Nat /\ copied \in Nat /\ writable \in Nat /\ copied < writable
      /\ Moved \in Nat /\ ReadNumber \in Int /\ Cap \in Nat
  BY <1>1, <1>2, Numbers, CapPositive DEF WriterTypes, WriteInv
<1>4. as_index(write_index, copied) = (next + copied) % Cap
      /\ (next + copied) % Cap \in 0 .. Cap - 1
  BY <1>2, <1>3, NextSlot, Division
<1>5. slots \in [0 .. Cap - 1 -> Int]
  BY <1>2 DEF WriterTypes
<1>6. slots' = [slots EXCEPT ![(next + copied) % Cap] = next + copied]
  BY <1>1, <1>4
<1>7. slots' \in [0 .. Cap - 1 -> Int]
  BY <1>3, <1>4, <1>5, <1>6
<1>8. WriterTypes'
  BY <1>1, <1>2, <1>3, <1>7 DEF WriterTypes, ChannelTypeOK
<1>9. Moved' = Moved /\ ReadNumber' = ReadNumber /\ ReadPass' = ReadPass /\ Uncounted' = Uncounted
  BY <1>1, <1>2 DEF Moved, ReadNumber, ReadPass, Uncounted
<1>10. TrackInv' /\ MissedInv'
  BY <1>1, <1>2, <1>9 DEF TrackInv, MissedInv
<1>11. ASSUME NEW k \in Nat, k >= base, k >= Moved, k < next + copied + 1
       PROVE  slots'[k % Cap] = k
  <2>1. k % Cap \in 0 .. Cap - 1
    BY Division
  <2>2. CASE k = next + copied
    BY <1>4, <1>5, <1>6, <2>2
  <2>3. CASE k # next + copied
    <3>1. k < next + copied /\ next + copied < k + Cap
      <4>1. next + writable <= ReadNumber + Cap /\ ReadNumber <= Moved
        BY <1>2 DEF TrackInv
      <4> QED
        BY <1>3, <1>11, <2>3, <4>1
    <3>2. k % Cap # (next + copied) % Cap
      <4>1. k \in Nat /\ next + copied \in Nat
        BY <1>3
      <4> QED
        BY <3>1, <4>1, SlotsDiffer, Zenon
    <3>3. slots[k % Cap] = k
      BY <1>2, <1>11, <3>1 DEF InPlace
    <3> QED
      BY <1>5, <1>6, <2>1, <3>2, <3>3
  <2> QED
    BY <2>2, <2>3
<1>12. InPlace'
  <2>1. \A k \in Nat : k >= base /\ k >= Moved /\ k < next + copied + 1 => slots'[k % Cap] = k
    BY <1>11
  <2>2. base' = base /\ Moved' = Moved /\ next' + copied' = next + copied + 1
    BY <1>1, <1>3, <1>9
  <2> QED
    BY <2>1, <2>2, Zenon DEF InPlace
<1>13. WriteInv'
  BY <1>1, <1>2, <1>3 DEF WriteInv
<1>14. WakeInv'
  BY <1>1, <1>2 DEF WakeInv, Waiting, Writing
<1>15. ResultInv' /\ CircularInv'
  BY <1>1, <1>2, <1>9 DEF ResultInv, CircularInv
<1> QED
  BY <1>1, <1>2, <1>8, <1>10, <1>12, <1>13, <1>14, <1>15 DEF WriterInv

\* A write that was overtaken does not return: its second dma_sync finds the controller
\* beyond its first element.
LEMMA ReturnStep == WriterInv /\ write_returns => WriterInv'
<1> SUFFICES ASSUME WriterInv, write_returns PROVE WriterInv'
  OBVIOUS
<1> DEFINE w == Lower(write_index, LowestCount)
           waits == wop = "exact" /\ want # writable
<1>1. /\ ~IrqPending /\ wpc = "len2_pos" /\ Queued \in 0 .. Cap
      /\ StoreSynced /\ write_index' = advance(w, writable)
      /\ next' = next + writable
      /\ count_diff' = 0 /\ writable' = 0 /\ copied' = 0 /\ outcome' = "ok"
      /\ waits => wpc' = "parked" /\ wop' = wop /\ want' = want - writable
      /\ ~waits => wpc' = "idle" /\ wop' = "none" /\ want' = 0
      /\ UNCHANGED <<cr, htif, tcif, pos, pass, complete_count, waker, woken, slots, base, missed>>
  BY DEF write_returns, WriterRuns, WriterReturns, ghostVars, channelVars
<1>2. /\ Syncing /\ Tracking /\ Writing /\ ~Syncing' /\ ~Writing'
      /\ WriterTypes /\ CircularInv /\ TrackInv /\ InPlace /\ MissedInv /\ WriteInv /\ WakeInv
  BY <1>1 DEF WriterInv, Syncing, Tracking, Writing
<1>3. /\ read_index' \in Index /\ w \in Index
      /\ Queued = diff(w, read_index')
      /\ Queued = next - SyncNumber /\ Queued \in Int
      /\ SyncNumber \in Int /\ ReadNumber <= SyncNumber /\ SyncNumber <= Moved
      /\ complete_count = 0 => SyncNumber = Moved
  BY <1>1, <1>2, StoreFacts
<1>4. /\ next \in Nat /\ writable \in Nat /\ Moved \in Nat /\ ReadNumber \in Int
      /\ Cap \in Nat /\ \A k \in missed : k \in Int
  BY <1>2, Numbers, CapPositive DEF WriterTypes
<1> HIDE DEF w
<1>5. write_index' \in Index /\ diff(write_index', read_index') = Queued + writable
  <2>1. write_index' \in Index
    BY <1>1, <1>3, <1>4, AdvanceType
  <2> DEFINE a == diff(w, read_index')
             b == diff(write_index', read_index')
             c == diff(read_index', w)
             d == diff(read_index', write_index')
  <2>2. d = c - writable
    BY <1>1, <1>3, <1>4, AdvanceDiff
  <2>3. c = -a /\ d = -b
    BY <1>3, <2>1, Antisymmetric
  <2>4. a \in Int /\ b \in Int /\ c \in Int /\ d \in Int
    BY <1>3, <2>1, LowerType
  <2>5. Queued = a
    BY <1>3
  <2> HIDE DEF a, b, c, d
  <2>6. b = Queued + writable
    BY <1>4, <2>2, <2>3, <2>4, <2>5
  <2> QED
    BY <2>1, <2>6 DEF b
<1>6. want' \in Nat
  <2>1. writable <= want /\ want \in Nat
    BY <1>2 DEF WriterTypes, WriteInv
  <2> QED
    BY <1>1, <1>4, <2>1
<1>7. WriterTypes'
  BY <1>1, <1>2, <1>3, <1>4, <1>5, <1>6 DEF WriterTypes, ChannelTypeOK
<1>8. next + writable + 0 <= SyncNumber + Cap
  BY <1>2, <1>3, <1>4 DEF TrackInv
<1>9. TrackInv' /\ Moved' = Moved /\ (complete_count = 0 => ReadNumber' = Moved')
  BY <1>1, <1>2, <1>3, <1>4, <1>5, <1>8, StoreTracks
<1>10. copied = writable
  BY <1>1, <1>2 DEF WriteInv
<1>11. InPlace'
  BY <1>1, <1>2, <1>4, <1>9, <1>10 DEF InPlace
<1>12. ~Overtaken
  <2> SUFFICES ASSUME Overtaken PROVE FALSE
    OBVIOUS
  <2>1. complete_count = 0
    BY <1>1, <1>2 DEF WriteInv
  <2>2. PICK k \in missed : next <= k /\ k < Moved
    BY <1>2 DEF Overtaken, MissedInv
  <2> QED
    BY <1>1, <1>3, <1>4, <2>1, <2>2
<1>13. MissedInv'
  BY <1>1, <1>2, <1>4, <1>9, <1>12 DEF MissedInv, Overtaken
<1>14. WriteInv'
  BY <1>1, <1>2 DEF WriteInv
<1>15. WakeInv'
  <2>1. CASE ~waits
    BY <1>1, <1>2, <2>1 DEF WakeInv, Waiting
  <2>2. CASE waits
    <3>1. (waker \/ woken) /\ (complete_count # 0 => woken)
      BY <1>2, <2>2 DEF WakeInv, Waiting
    <3>2. ~woken => ReadNumber' + 1 .. Moved' = {}
      BY <1>4, <1>9, <3>1
    <3> QED
      BY <1>1, <1>2, <2>2, <3>1, <3>2 DEF WakeInv
  <2> QED
    BY <2>1, <2>2
<1>16. ResultInv' /\ CircularInv'
  BY <1>1, <1>2 DEF ResultInv, CircularInv
<1> QED
  BY <1>1, <1>7, <1>9, <1>11, <1>13, <1>14, <1>15, <1>16 DEF WriterInv

-------------------------------------------------------------------------------
(* The life of the ring buffer. *)

\* A ring that is full behind the controller: its indices are a buffer apart.
LEMMA FullRing ==
  ASSUME read_index' \in Index, write_index' \in Index, read_index'.pos < Cap,
         diff(write_index', read_index') = Cap,
         NEW m \in Nat, Moved' = m, next' = m + Cap, base' = m + Cap,
         copied' = 0, writable' = 0, missed' = {}, ~Syncing', ~Writing', ~Waiting',
         pass' = Moved' - read_index'.pos, complete_count' = 0, ~tcif'
  PROVE  TrackInv' /\ InPlace' /\ MissedInv' /\ WriteInv' /\ WakeInv'
<1>1. Cap \in Nat
  BY CapPositive
<1>2. ReadNumber' = m
  BY <1>1 DEF ReadNumber
<1>3. Uncounted' = 0 /\ 0 * Cap = 0
  BY <1>1, Passes DEF Uncounted, Bit
<1>4. read_index'.pos \in Nat
  BY DEF Index
<1>5. pass' = ReadPass' + Uncounted' * Cap
  BY <1>2, <1>3, <1>4 DEF ReadPass
<1>6. Cap <= next' /\ next' + writable' <= ReadNumber' + Cap /\ ReadNumber' <= Moved'
  BY <1>1, <1>2
<1>7. TrackInv'
  BY <1>5, <1>6, Zenon DEF TrackInv
<1>8. InPlace'
  <2>1. \A k \in Nat : ~(k >= base' /\ k < next' + copied')
    BY <1>1
  <2> QED
    BY <2>1, Zenon DEF InPlace
<1>9. MissedInv' /\ WriteInv' /\ WakeInv'
  BY DEF MissedInv, WriteInv, WakeInv, Waiting
<1> QED
  BY <1>7, <1>8, <1>9

LEMMA ResetStep == WriterInv /\ reset_returns => WriterInv'
<1> SUFFICES ASSUME WriterInv, reset_returns PROVE WriterInv'
  OBVIOUS
<1>1. /\ wpc = "resync_pos" /\ wpc' = "idle" /\ wop' = "none"
      /\ count_diff' = 0 /\ writable' = 0 /\ copied' = 0
      /\ read_index' = dma_sync(ZeroIndex, count_diff, Remaining)
      /\ write_index' = advance(read_index', Cap)
      /\ next' = Moved + Cap /\ base' = next' /\ missed' = {} /\ outcome' = "ok"
      /\ UNCHANGED <<cr, htif, tcif, pos, pass, complete_count, waker, woken, want, slots>>
  BY DEF reset_returns, WriterReturns, channelVars
<1>2. WriterTypes /\ CircularInv /\ complete_count = 0 /\ ~tcif
  BY <1>1 DEF WriterInv, Resetting
<1>3. /\ pos \in Nat /\ pos < Cap /\ pass \in Nat /\ count_diff \in Nat /\ Moved \in Nat
      /\ Cap \in Nat /\ Moved' = Moved
  BY <1>1, <1>2, Numbers, CapPositive DEF WriterTypes, ChannelTypeOK, CircularInv, Moved
<1>4. read_index' = [complete_count |-> count_diff, pos |-> pos]
  <2>1. Cap - Remaining = pos /\ ~(pos < 0) /\ 0 + count_diff = count_diff
    BY <1>3 DEF Remaining
  <2> QED
    BY <1>1, <2>1 DEF dma_sync, ZeroIndex
<1>5. read_index' \in Index /\ read_index'.pos = pos
  BY <1>3, <1>4 DEF Index
<1>6. write_index' \in Index
  BY <1>1, <1>3, <1>5, AdvanceType
<1>7. diff(write_index', read_index') = Cap
  <2>1. diff(read_index', write_index') = diff(read_index', read_index') - Cap
    BY <1>1, <1>3, <1>5, AdvanceDiff
  <2>2. diff(read_index', read_index') = 0
    <3>1. read_index'.complete_count * Cap \in Int /\ read_index'.pos \in Int
      BY <1>5, CapPositive DEF Index
    <3> QED
      BY <3>1 DEF diff
  <2>3. /\ diff(read_index', write_index') = -diff(write_index', read_index')
        /\ diff(write_index', read_index') \in Int
    BY <1>5, <1>6, Antisymmetric, LowerType
  <2> QED
    BY <1>3, <2>1, <2>2, <2>3
<1>8. pass' = Moved' - read_index'.pos
  BY <1>1, <1>3, <1>5 DEF Moved
<1>9. ~Syncing' /\ ~Writing' /\ ~Waiting' /\ ~Resetting'
  BY <1>1 DEF Syncing, Writing, Waiting, Resetting
<1>10. TrackInv' /\ InPlace' /\ MissedInv' /\ WriteInv' /\ WakeInv'
  BY <1>1, <1>2, <1>3, <1>5, <1>6, <1>7, <1>8, <1>9, FullRing
<1>11. WriterTypes'
  BY <1>1, <1>2, <1>3, <1>5, <1>6 DEF WriterTypes, ChannelTypeOK
<1>12. CircularInv' /\ ResultInv'
  BY <1>1, <1>2 DEF CircularInv, ResultInv
<1> QED
  BY <1>1, <1>10, <1>11, <1>12 DEF WriterInv

LEMMA NewStep == WriterInv /\ ring_new => WriterInv'
<1> SUFFICES ASSUME WriterInv, ring_new PROVE WriterInv'
  OBVIOUS
<1>1. /\ wpc = "unbuilt" /\ wpc' = "idle"
      /\ htif' = FALSE /\ tcif' = FALSE /\ pos' = 0 /\ pass' = 0
      /\ cr' = [en |-> FALSE, circ |-> TRUE, htie |-> TRUE, tcie |-> TRUE]
      /\ read_index' = ZeroIndex /\ write_index' = FirstWrite
      /\ next' = diff(FirstWrite, ZeroIndex) /\ base' = next'
      /\ UNCHANGED <<complete_count, waker, woken, wop, want, count_diff, writable, copied, slots,
                     missed, outcome>>
  BY DEF ring_new, configure_ring
<1>2. /\ WriterTypes /\ complete_count = 0 /\ missed = {} /\ outcome = "ok"
      /\ copied = 0 /\ writable = 0
  BY <1>1 DEF WriterInv, UnbuiltInv
<1>3. /\ ZeroIndex \in Index /\ FirstWrite \in Index /\ ZeroIndex.pos = 0
      /\ diff(FirstWrite, ZeroIndex) = Cap /\ Cap \in Nat
  BY CapPositive DEF ZeroIndex, FirstWrite, Index, diff
<1>4. Moved' = 0 /\ pass' = Moved' - read_index'.pos /\ next' = Moved' + Cap
  BY <1>1, <1>3 DEF Moved
<1>5. ~Syncing' /\ ~Writing' /\ ~Waiting' /\ ~Resetting'
  <2>1. ~Syncing' /\ ~Writing' /\ ~Resetting'
    BY <1>1 DEF Syncing, Writing, Resetting
  <2> QED
    BY <1>1, <2>1 DEF Waiting
<1>6. read_index' \in Index /\ write_index' \in Index /\ read_index'.pos < Cap
      /\ diff(write_index', read_index') = Cap
  BY <1>1, <1>3, CapPositive
<1>7. TrackInv' /\ InPlace' /\ MissedInv' /\ WriteInv' /\ WakeInv'
  BY <1>1, <1>2, <1>4, <1>5, <1>6, FullRing
<1>8. ChannelTypeOK'
  <2>1. cr' \in [en : BOOLEAN, circ : BOOLEAN, htie : BOOLEAN, tcie : BOOLEAN]
    BY <1>1
  <2>2. htif' \in BOOLEAN /\ tcif' \in BOOLEAN
    BY <1>1
  <2>3. pos' \in 0 .. Cap /\ pass' \in Nat
    BY <1>1, CapPositive
  <2>4. complete_count' \in Nat /\ waker' \in BOOLEAN /\ woken' \in BOOLEAN
    BY <1>1, <1>2 DEF WriterTypes, ChannelTypeOK
  <2> QED
    BY <2>1, <2>2, <2>3, <2>4 DEF ChannelTypeOK
<1>9. WriterTypes'
  BY <1>1, <1>2, <1>3, <1>8 DEF WriterTypes
<1>10. CircularInv'
  <2>1. 0 = 0 * Cap /\ 0 < Cap
    BY CapPositive
  <2> QED
    BY <1>1, <2>1 DEF CircularInv
<1>11. ResultInv'
  BY <1>1, <1>2 DEF ResultInv
<1> QED
  BY <1>1, <1>7, <1>9, <1>10, <1>11 DEF WriterInv

\* Before the transfer starts the buffer is full and its last elements are the caller's.
LEMMA ImmediateStep ==
  ASSUME WriterInv, NEW n \in Nat, write_immediate(n)
  PROVE  WriterInv'
<1> DEFINE first == Cap - n
<1>1. /\ wpc = "idle" /\ Moved = 0 /\ n <= Cap
      /\ slots' = [s \in DOMAIN slots |->
                     IF \E i \in first .. Cap - 1 : as_index(write_index, i) = s
                     THEN CHOOSE i \in first .. Cap - 1 : as_index(write_index, i) = s
                     ELSE slots[s]]
      /\ base' = (IF first < base THEN first ELSE base)
      /\ UNCHANGED <<cr, htif, tcif, pos, pass, complete_count, waker, woken, wpc, wop, want,
                     count_diff, read_index, write_index, next, writable, copied, missed, outcome>>
  <2> DEFINE place == [i \in first .. Cap - 1 |-> as_index(write_index, i)]
  <2>1. slots' = [s \in DOMAIN slots |->
                     IF \E i \in first .. Cap - 1 : place[i] = s
                     THEN CHOOSE i \in first .. Cap - 1 : place[i] = s
                     ELSE slots[s]]
    BY DEF write_immediate
  <2>2. \A i \in first .. Cap - 1 : place[i] = as_index(write_index, i)
    OBVIOUS
  <2> HIDE DEF place
  <2>3. ASSUME NEW s
        PROVE  (CHOOSE i \in first .. Cap - 1 : place[i] = s)
                 = (CHOOSE i \in first .. Cap - 1 : as_index(write_index, i) = s)
    BY <2>2
  <2>4. slots' = [s \in DOMAIN slots |->
                     IF \E i \in first .. Cap - 1 : as_index(write_index, i) = s
                     THEN CHOOSE i \in first .. Cap - 1 : as_index(write_index, i) = s
                     ELSE slots[s]]
    BY <2>1, <2>2, <2>3
  <2> QED
    BY <2>4 DEF write_immediate, channelVars, ringVars
<1>2. /\ WriterTypes /\ CircularInv /\ TrackInv /\ InPlace /\ MissedInv /\ WriteInv /\ WakeInv
      /\ ResultInv
  BY <1>1 DEF WriterInv, Tracking
<1>3. ~Writing /\ copied = 0 /\ writable = 0 /\ next \in Nat /\ base \in Int /\ Cap \in Nat
  BY <1>1, <1>2, CapPositive DEF WriteInv, Writing, WriterTypes
<1>4. next = Cap
  <2>1. Cap <= next /\ next + 0 <= ReadNumber + Cap /\ ReadNumber <= 0 /\ ReadNumber \in Int
    BY <1>1, <1>2, <1>3, Numbers DEF TrackInv
  <2> QED
    BY <1>3, <2>1
<1>5. ASSUME NEW i \in 0 .. Cap - 1 PROVE as_index(write_index, i) = i
  <2>1. as_index(write_index, i) = (Cap + i) % Cap
    BY <1>2, <1>4, NextSlot
  <2>2. i \in Nat /\ i + 1 * Cap = Cap + i /\ i + 1 * Cap \in Nat
    BY <1>3
  <2>3. (i + 1 * Cap) % Cap = i % Cap
    BY <2>2, PassesSlot
  <2> QED
    BY <2>1, <2>2, <2>3, ShortSlot
<1>6. first \in Nat /\ first \in 0 .. Cap
  BY <1>1, <1>3
<1> HIDE DEF first
<1>7. slots' = [s \in 0 .. Cap - 1 |-> IF s >= first THEN s ELSE slots[s]]
  <2>1. DOMAIN slots = 0 .. Cap - 1
    BY <1>2 DEF WriterTypes
  <2>2. ASSUME NEW s \in 0 .. Cap - 1, s >= first
        PROVE  /\ \E i \in first .. Cap - 1 : as_index(write_index, i) = s
               /\ (CHOOSE i \in first .. Cap - 1 : as_index(write_index, i) = s) = s
    <3>1. s \in first .. Cap - 1 /\ as_index(write_index, s) = s
      BY <1>5, <1>6, <2>2
    <3>2. \A i \in first .. Cap - 1 : as_index(write_index, i) = s <=> i = s
      BY <1>5, <1>6
    <3> QED
      BY <3>1, <3>2
  <2>3. ASSUME NEW s \in 0 .. Cap - 1, ~(s >= first)
        PROVE  ~ \E i \in first .. Cap - 1 : as_index(write_index, i) = s
    BY <1>5, <1>6, <2>3
  <2> QED
    BY <1>1, <2>1, <2>2, <2>3
<1>8. slots' \in [0 .. Cap - 1 -> Int] /\ base' \in Int
  <2>1. \A s \in 0 .. Cap - 1 : s \in Int /\ slots[s] \in Int
    BY <1>2 DEF WriterTypes
  <2>2. slots' \in [0 .. Cap - 1 -> Int]
    BY <1>7, <2>1
  <2> QED
    BY <1>1, <1>3, <1>6, <2>2
<1>9. WriterTypes'
  BY <1>1, <1>2, <1>8 DEF WriterTypes, ChannelTypeOK
<1>10. InPlace'
  <2>1. ASSUME NEW k \in Nat, k >= base', k < Cap
        PROVE  slots'[k % Cap] = k
    <3>1. k \in 0 .. Cap - 1 /\ k % Cap = k
      BY <1>3, <2>1, ShortSlot
    <3>2. k >= first \/ k >= base
      BY <1>1, <1>3, <1>6, <2>1
    <3>3. ~(k >= first) => slots[k % Cap] = k
      BY <1>1, <1>2, <1>3, <1>4, <2>1, <3>2 DEF InPlace
    <3> QED
      BY <1>7, <3>1, <3>3
  <2>2. next' + copied' = Cap
    BY <1>1, <1>3, <1>4
  <2> QED
    BY <2>1, <2>2 DEF InPlace
<1>11. Moved' = Moved /\ ReadNumber' = ReadNumber /\ ReadPass' = ReadPass /\ Uncounted' = Uncounted
  BY <1>1 DEF Moved, ReadNumber, ReadPass, Uncounted, Syncing
<1>12. TrackInv' /\ MissedInv'
  BY <1>1, <1>2, <1>11 DEF TrackInv, MissedInv
<1>13. WriteInv' /\ WakeInv'
  BY <1>1, <1>2, <1>3 DEF WriteInv, Writing, WakeInv, Waiting
<1>14. CircularInv' /\ ResultInv'
  BY <1>1, <1>2, <1>11 DEF CircularInv, ResultInv
<1> QED
  BY <1>1, <1>9, <1>10, <1>12, <1>13, <1>14 DEF WriterInv

\* start() and request_pause() change the enable bit only.
LEMMA EnableStep ==
  ASSUME WriterInv, wpc = "idle",
         cr' \in [en : BOOLEAN, circ : BOOLEAN, htie : BOOLEAN, tcie : BOOLEAN],
         cr'.circ = cr.circ, cr'.htie = cr.htie, cr'.tcie = cr.tcie,
         UNCHANGED <<htif, tcif, pos, pass, complete_count, waker, woken, wpc, wop, want,
                     count_diff, read_index, write_index, next, writable, copied, slots, base,
                     missed, outcome>>
  PROVE  WriterInv'
<1>1. WriterTypes'
  BY DEF WriterInv, WriterTypes, ChannelTypeOK
<1>2. Syncing <=> Syncing'
  BY DEF Syncing
<1>3. Tracking /\ ~Writing
  BY DEF Tracking, Writing
<1>4. TrackInv' /\ InPlace' /\ MissedInv' /\ Moved' = Moved
  BY <1>2, <1>3, TrackFrame DEF WriterInv
<1>5. CircularInv' /\ ResultInv'
  BY <1>3, <1>4 DEF WriterInv, CircularInv, ResultInv
<1>6. WriteInv' /\ WakeInv'
  BY <1>3 DEF WriterInv, WriteInv, Writing, WakeInv, Waiting
<1> QED
  BY <1>1, <1>4, <1>5, <1>6 DEF WriterInv

\* What is left when the ring is given up.
LEMMA GiveUpStep ==
  ASSUME WriterInv, wpc' \in {"stop", "stop_check", "stop_parked", "stopped", "closed"},
         cr' \in [en : BOOLEAN, circ : BOOLEAN, htie : BOOLEAN, tcie : BOOLEAN],
         waker' \in BOOLEAN, woken' \in BOOLEAN,
         UNCHANGED <<htif, tcif, pos, pass, complete_count, wop, want, count_diff,
                     read_index, write_index, next, writable, copied, slots, base, missed, outcome>>
  PROVE  WriterInv'
<1>1. WriterTypes' /\ ResultInv'
  BY DEF WriterInv, WriterTypes, ChannelTypeOK, ResultInv, Moved
<1>2. ~Tracking' /\ ~Resetting' /\ wpc' # "unbuilt" /\ wpc' # "resync_pos"
  BY DEF Tracking, Writing, Resetting
<1> QED
  BY <1>1, <1>2 DEF WriterInv

LEMMA ControlStep == WriterInv /\ ring_control => WriterInv'
<1> SUFFICES ASSUME WriterInv, ring_control PROVE WriterInv'
  OBVIOUS
<1>1. /\ cr \in [en : BOOLEAN, circ : BOOLEAN, htie : BOOLEAN, tcie : BOOLEAN]
      /\ waker \in BOOLEAN /\ woken \in BOOLEAN
  BY DEF WriterInv, WriterTypes, ChannelTypeOK
<1>2. UNCHANGED <<htif, tcif, pos, pass, complete_count, waker, woken, wop, want, count_diff,
                  read_index, write_index, next, writable, copied, slots, base, missed, outcome>>
  BY DEF ring_control, ringVars, ghostVars
<1>3. CASE wpc = "idle" /\ start /\ wpc' = wpc
  BY <1>1, <1>2, <1>3, EnableStep DEF start
<1>4. CASE wpc = "idle" /\ request_pause /\ wpc' = wpc
  BY <1>1, <1>2, <1>4, EnableStep DEF request_pause
<1>5. CASE request_stop /\ wpc' = "closed"
  BY <1>1, <1>2, <1>5, GiveUpStep DEF request_stop
<1> QED
  BY <1>3, <1>4, <1>5 DEF ring_control

LEMMA StopStep ==
  WriterInv /\ (ring_stop \/ ring_stop_poll \/ ring_poll_stop) => WriterInv'
<1> SUFFICES ASSUME WriterInv, ring_stop \/ ring_stop_poll \/ ring_poll_stop PROVE WriterInv'
  OBVIOUS
<1>1. /\ cr \in [en : BOOLEAN, circ : BOOLEAN, htie : BOOLEAN, tcie : BOOLEAN]
      /\ waker \in BOOLEAN /\ woken \in BOOLEAN
  BY DEF WriterInv, WriterTypes, ChannelTypeOK
<1>2. /\ wpc' \in {"stop", "stop_check", "stop_parked", "stopped"}
      /\ cr' \in [en : BOOLEAN, circ : BOOLEAN, htie : BOOLEAN, tcie : BOOLEAN]
      /\ waker' \in BOOLEAN /\ woken' \in BOOLEAN
      /\ UNCHANGED <<htif, tcif, pos, pass, complete_count, wop, want, count_diff,
                     read_index, write_index, next, writable, copied, slots, base, missed, outcome>>
  BY <1>1 DEF ring_stop, ring_stop_poll, ring_poll_stop, WriterRuns, ringVars, ghostVars,
              channelVars, Register, disable_circular_mode
<1> QED
  BY <1>2, GiveUpStep

-------------------------------------------------------------------------------
(* The invariant is inductive, and implies the contract. *)

LEMMA WriterInvInit == WriterInit => WriterInv
<1> SUFFICES ASSUME WriterInit PROVE WriterInv
  OBVIOUS
<1>1. ZeroIndex \in Index
  BY DEF ZeroIndex, Index
<1>2. ChannelTypeOK
  <2>1. cr \in [en : BOOLEAN, circ : BOOLEAN, htie : BOOLEAN, tcie : BOOLEAN]
    BY DEF WriterInit, ChannelInit
  <2>2. 0 \in 0 .. Cap
    BY CapPositive
  <2> QED
    BY <2>1, <2>2 DEF WriterInit, ChannelInit, ChannelTypeOK
<1>3. WriterTypes
  BY <1>1, <1>2 DEF WriterInit, WriterTypes
<1>4. wpc = "unbuilt" /\ UnbuiltInv /\ ResultInv
  BY DEF WriterInit, ChannelInit, UnbuiltInv, ResultInv
<1> QED
  BY <1>3, <1>4 DEF WriterInv, Tracking, Writing, Resetting

LEMMA WriterInvStep == WriterInv /\ [WriterNext]_writerVars => WriterInv'
<1>1. WriterInv /\ UNCHANGED writerVars => WriterInv'
  BY DEF writerVars, channelVars, ringVars, ghostVars, WriterInv, WriterTypes, ChannelTypeOK,
         ResultInv, UnbuiltInv, Tracking, Resetting, Writing, Syncing, CircularInv, TrackInv,
         InPlace, MissedInv, WriteInv, WakeInv, Waiting, Overtaken, ReadNumber, ReadPass,
         Uncounted, Moved, Bit
<1>2. ASSUME WriterInv, NEW n \in 1 .. MaxWrite,
             write_immediate(n) \/ write_begins("write", n, "len1")
               \/ write_begins("exact", n, "len1")
      PROVE  WriterInv'
  <2>1. n \in Nat
    BY WriterAssumption
  <2> QED
    BY <1>2, <2>1, ImmediateStep, BeginStep
<1>3. ASSUME WriterInv,
             write_begins("len", 0, "len1") \/ write_begins("error", 0, "len1")
               \/ write_begins("clear", 0, "reset")
      PROVE  WriterInv'
  BY <1>3, BeginStep
<1> QED
  BY <1>1, <1>2, <1>3, ReadStep, InterruptStep, NewStep, ControlStep, RepollStep, CancelStep,
     TakeStep, FailStep, LenStep, StartStep, CopyStep, ReturnStep, ResetStep, StopStep
     DEF WriterNext

LEMMA WriterInvContract == WriterInv => WriterContract
<1> SUFFICES ASSUME WriterInv PROVE WriterContract
  OBVIOUS
<1>1. wpc = "idle" => \A k \in missed : k >= next
  <2> SUFFICES ASSUME wpc = "idle", NEW k \in missed PROVE k >= next
    OBVIOUS
  <2>1. next <= k /\ k \in Int /\ next \in Nat
    BY DEF WriterInv, WriterTypes, Tracking, MissedInv
  <2> QED
    BY <2>1
<1>2. (outcome = "overrun" => Moved > next) /\ outcome # "unsynced"
  BY DEF WriterInv, ResultInv
<1>3. ASSUME wpc = "parked", ~woken, ~IrqPending,
             NEW k \in next - diff(write_index, read_index) + 1 .. Moved
      PROVE  k % Cap \notin {0, Half}
  <2>1. WakeInv /\ CircularInv
    BY <1>3 DEF WriterInv, Tracking
  <2>2. ~tcif /\ ~htif
    BY <1>3, <2>1 DEF IrqPending, CircularInv
  <2> QED
    BY <1>3, <2>1, <2>2 DEF WakeInv, ReadNumber
<1> QED
  BY <1>1, <1>2, <1>3 DEF WriterContract

===============================================================================
