--------------------------- MODULE DmaReaderProofs ----------------------------
(***************************************************************************)
(* Proofs about DmaReader for every buffer size, bound and read length:    *)
(* type correctness, and that a successful read returns exactly the        *)
(* elements that followed the last ones returned.                          *)
(***************************************************************************)
EXTENDS DmaReader, DmaIndexProofs

-------------------------------------------------------------------------------
(* The inductive invariant. *)

Reading == pc \in {"copy", "len2", "len2_pos"}

Syncing == pc \in {"len1_pos", "len2_pos"}

Resetting == pc \in {"reset", "resync", "resync_pos"}

\* The indices mean something: the ring is built, and neither being reset nor
\* given up by stop() or the drop.
Tracking == pc \in {"idle", "len1", "parked"} \/ Reading \/ Syncing

Bit(b) == IF b THEN 1 ELSE 0

\* Passes the controller has completed that write_index does not count yet.
Uncounted ==
  complete_count + Bit(tcif) + (IF Syncing THEN count_diff ELSE 0)

\* The number of the element that goes with slot 0 of write_index's pass.
WritePass == WriteNumber - write_index.pos

\* The pass in progress is write_index's pass plus the uncounted ones.
Counted == pass = WritePass + Uncounted * Cap

\* What write_index stands for when the dma_sync in progress ends now.
SyncNumber == next + diff(Synced, read_index)

\* Each slot holds the last element of its residue that the controller wrote.
BufferInv ==
  \A s \in 0 .. Cap - 1 :
    /\ s < pos => buf[s] = pass + s
    /\ s >= pos /\ pass > 0 => buf[s] = pass - Cap + s

\* The elements copied so far are the expected ones, or the controller has
\* since lapped read_index and the second dma_sync is going to show it.
CopyInv ==
  /\ pc = "copy" => Len(out) < readable
  /\ pc \in {"len2", "len2_pos"} => Len(out) = readable
  /\ op # "len"
  /\ next + readable <= WriteNumber
  /\ \A i \in 1 .. Len(out) :
       out[i] # next + i - 1 =>
         IF pc = "len2_pos" THEN SyncNumber > next + Cap ELSE Moved > next + Cap

TrackInv ==
  /\ write_index.pos < Cap
  /\ read_index.pos < Cap
  /\ next <= WriteNumber
  /\ WriteNumber <= Moved
  /\ Counted

CircularInv ==
  /\ cr.circ /\ cr.htie /\ cr.tcie
  /\ pos < Cap

UnbuiltInv ==
  /\ complete_count = 0 /\ ~tcif
  /\ pos = 0 /\ pass = 0 /\ next = 0
  /\ ~cr.en /\ delivered = <<>>

\* The state is well typed, successful reads were faithful, and what holds of
\* each phase of the ring's life.
IInv ==
  /\ IntactRead
  /\ next <= Moved
  /\ BufferInv
  /\ pc = "unbuilt" => UnbuiltInv
  /\ Tracking \/ Resetting => CircularInv
  /\ Tracking => TrackInv
  /\ Reading => CopyInv
  /\ pc \in {"len1", "len1_pos"} => out = <<>>
  /\ pc = "resync_pos" => complete_count = 0 /\ ~tcif

-------------------------------------------------------------------------------
(* Type correctness, for any constants. *)

LEMMA SyncedType ==
  ASSUME TypeOK
  PROVE  /\ Synced \in Index
         /\ Synced.pos \in 0 .. Cap
         /\ SyncedWrite \in Index
         /\ SyncedRead \in Index
         /\ SyncedWrite.pos = Synced.pos
         /\ SyncedRead.pos = read_index.pos
         /\ Available = diff(Synced, read_index)
         /\ Available \in Int
  <1>1. Remaining \in 0 .. Cap
    BY CapPositive DEF TypeOK, ChannelTypeOK, Remaining
  <1>2. Synced \in Index /\ Synced.pos \in 0 .. Cap
    BY <1>1, SyncType DEF Synced, TypeOK, TaskTypeOK
  <1>3. QED
    BY <1>2, LowerType DEF TypeOK, TaskTypeOK, SyncedWrite, SyncedRead, Available

\* The channel's variables keep their types, whoever changes them.
LEMMA ChannelType == ChannelTypeOK /\ [Next]_vars => ChannelTypeOK'
  <1> SUFFICES ASSUME ChannelTypeOK, [Next]_vars
               PROVE  ChannelTypeOK'
    OBVIOUS
  <1>1. CASE DmaWrite
    BY <1>1, CapPositive
       DEF DmaWrite, MoveElement, ChannelTypeOK, LastOfPass
  <1>2. CASE Interrupt
    <2>1. CASE on_irq_half
      BY <2>1 DEF on_irq_half, Wake, ChannelTypeOK
    <2>2. CASE on_irq_complete
      <3>1. cr' \in [en : BOOLEAN, circ : BOOLEAN, htie : BOOLEAN, tcie : BOOLEAN]
        BY <2>2 DEF on_irq_complete, ChannelTypeOK
      <3>2. waker' \in BOOLEAN /\ woken' \in BOOLEAN
        BY <2>2, Zenon DEF on_irq_complete, Wake
      <3>3. tcif' \in BOOLEAN /\ htif' \in BOOLEAN
        BY <2>2, Zenon DEF on_irq_complete, ChannelTypeOK
      <3>4. /\ pos' \in 0 .. Cap /\ pass' \in Nat
            /\ complete_count' \in Nat
        BY <2>2 DEF on_irq_complete, ChannelTypeOK
      <3>5. QED
        BY <3>1, <3>2, <3>3, <3>4, Zenon DEF ChannelTypeOK
    <2>3. QED
      BY <1>2, <2>1, <2>2 DEF Interrupt, on_irq
  <1>3. CASE TakeCount
    BY <1>3 DEF TakeCount, reset_complete_count, ChannelTypeOK
  <1>4. CASE read_exact_poll \/ stop_poll
    BY <1>4 DEF read_exact_poll, stop_poll, Register, ChannelTypeOK
  <1>5. CASE Control
    <2>1. CASE start \/ request_pause
      BY <1>5, <2>1 DEF Control, start, request_pause, ChannelTypeOK
    <2>2. CASE request_stop
      BY <1>5, <2>2 DEF Control, request_stop, ChannelTypeOK
    <2>3. QED
      BY <1>5, <2>1, <2>2 DEF Control
  <1>6. CASE new
    <2>1. cr' \in [en : BOOLEAN, circ : BOOLEAN, htie : BOOLEAN, tcie : BOOLEAN]
      BY <1>6, Zenon DEF new, configure_ring
    <2>2. pos' \in 0 .. Cap /\ pass' \in Nat
      BY <1>6, CapPositive DEF new, configure_ring
    <2>3. htif' \in BOOLEAN /\ tcif' \in BOOLEAN
      BY <1>6, Zenon DEF new, configure_ring
    <2>4. QED
      BY <1>6, <2>1, <2>2, <2>3 DEF new, configure_ring, ChannelTypeOK
  <1>7. CASE stop
    BY <1>7 DEF stop, disable_circular_mode, ChannelTypeOK
  <1>8. ASSUME NEW n \in 1 .. MaxRead, read_exact(n)
        PROVE  ChannelTypeOK'
    BY <1>8 DEF read_exact, Register, ChannelTypeOK
  <1>9. CASE UNCHANGED channelVars
    BY <1>9 DEF channelVars, ChannelTypeOK
  <1>10. CASE ~UNCHANGED channelVars
    BY <1>1, <1>2, <1>3, <1>4, <1>5, <1>6, <1>7, <1>8, <1>10
       DEF Next, TaskStep, Caller, vars, len_fails, len_returns, SyncFails,
           read_begins, read_buf, read_returns, reset_returns, poll_stop, read,
           len, clear, read_exact_cancel
  <1>11. QED
    BY <1>9, <1>10

\* The task's variables do.  A read never takes more than the caller asked for,
\* which TaskTypeOK needs and does not say.
ReadableInv == Reading => readable <= want

LEMMA TaskType ==
  ASSUME TypeOK, ReadableInv, [Next]_vars
  PROVE  TaskTypeOK' /\ ReadableInv'
  <1> USE DEF TaskTypeOK, ReadableInv, Reading
  <1> DEFINE Goal == TaskTypeOK' /\ ReadableInv'
  <1>1. CASE DmaWrite \/ Interrupt \/ UNCHANGED vars
    BY <1>1 DEF TypeOK, DmaWrite, Interrupt, vars, taskVars
  <1>2. CASE TakeCount
    BY <1>2 DEF TypeOK, ChannelTypeOK, TakeCount, AfterCount, indexVars,
                resultVars
  <1>3. CASE len_fails
    BY <1>3, SyncedType DEF TypeOK, len_fails, SyncFails, StoreSynced
  <1>4. CASE len_returns
    BY <1>4, SyncedType DEF TypeOK, len_returns, StoreSynced, resultVars
  <1>5. CASE read_begins
    BY <1>5, SyncedType, CapPositive
       DEF TypeOK, read_begins, StoreSynced, resultVars
  <1>6. CASE read_buf
    <2>1. read_index.pos + Len(out) \in Nat
      BY DEF TypeOK, Index
    <2>2. buf[as_index(read_index, Len(out))] \in Int
      BY <2>1, Division DEF TypeOK, as_index
    <2>3. out' \in Seq(Int)
      BY <1>6, <2>2 DEF read_buf, TypeOK
    <2>4. QED
      BY <1>6, <2>3 DEF read_buf, TypeOK, indexVars, resultVars
  <1>7. CASE read_returns
    <2>1. readable \in Nat
      BY CapPositive DEF TypeOK
    <2>2. SyncedRead \in Index /\ SyncedWrite \in Index /\ SyncedWrite.pos <= Cap
      BY SyncedType
    <2>3. /\ advance(SyncedRead, readable) \in Index
          /\ advance(SyncedRead, readable).pos \in 0 .. Cap - 1
      BY <2>1, <2>2, AdvanceType
    <2>4. want' \in 0 .. MaxRead /\ next' \in Nat
      BY <1>7, <2>1, ReaderAssumption DEF read_returns, TypeOK
    <2>5. QED
      BY <1>7, <2>2, <2>3, <2>4, CapPositive DEF read_returns, TypeOK
  <1>8. CASE reset_returns
    <2>1. Remaining \in 0 .. Cap /\ Moved \in Nat
      BY CapPositive DEF TypeOK, ChannelTypeOK, Remaining, Moved
    <2>2. ZeroIndex \in Index
      BY DEF ZeroIndex, Index
    <2>3. /\ dma_sync(ZeroIndex, count_diff, Remaining) \in Index
          /\ dma_sync(ZeroIndex, count_diff, Remaining).pos \in 0 .. Cap
      BY <2>1, <2>2, SyncType DEF TypeOK
    <2>4. QED
      BY <1>8, <2>1, <2>3, CapPositive DEF reset_returns, TypeOK
  <1>9. CASE new
    <2>1. ZeroIndex \in Index /\ ZeroIndex.pos <= Cap
      BY CapPositive DEF ZeroIndex, Index
    <2>2. QED
      BY <1>9, <2>1 DEF new, TypeOK, resultVars
  <1>10. CASE Control
    BY <1>10 DEF Control, TypeOK, indexVars, resultVars
  <1>11. ASSUME NEW n \in 1 .. MaxRead, read(n) \/ read_exact(n)
         PROVE  Goal
    <2>1. n \in 0 .. MaxRead
      BY ReaderAssumption
    <2>2. CASE read(n)
      BY <2>1, <2>2 DEF read, Begin, TypeOK, indexVars, resultVars
    <2>3. CASE read_exact(n)
      BY <2>1, <2>3 DEF read_exact, Begin, TypeOK, indexVars, resultVars
    <2>4. QED
      BY <1>11, <2>2, <2>3
  <1>12. CASE len \/ read_exact_cancel \/ read_exact_poll
    <2>1. CASE len
      BY <2>1 DEF len, Begin, TypeOK, indexVars, resultVars
    <2>2. CASE read_exact_cancel
      BY <2>2 DEF read_exact_cancel, TypeOK, indexVars, resultVars
    <2>3. CASE read_exact_poll
      BY <2>3 DEF read_exact_poll, TypeOK, indexVars, resultVars
    <2>4. QED
      BY <1>12, <2>1, <2>2, <2>3
  <1>13. CASE clear
    BY <1>13 DEF clear, Begin, TypeOK, indexVars
  <1>14. CASE stop \/ stop_poll \/ poll_stop
    BY <1>14 DEF stop, stop_poll, poll_stop, TypeOK, indexVars, resultVars
  <1>15. QED
    BY <1>1, <1>2, <1>3, <1>4, <1>5, <1>6, <1>7, <1>8, <1>9, <1>10,
       <1>11, <1>12, <1>13, <1>14
       DEF Next, TaskStep, Caller

LEMMA BufferType == TypeOK /\ [Next]_vars => (buf \in [0 .. Cap - 1 -> Int])'
  <1> SUFFICES ASSUME TypeOK, [Next]_vars
               PROVE  buf' \in [0 .. Cap - 1 -> Int]
    OBVIOUS
  <1>1. CASE DmaWrite
    BY <1>1, CapPositive
       DEF DmaWrite, MoveElement, TypeOK, ChannelTypeOK, Moved
  <1>2. CASE UNCHANGED buf
    BY <1>2 DEF TypeOK
  <1>3. QED
    BY <1>1, <1>2
       DEF Next, TaskStep, Caller, vars, Interrupt, TakeCount, len_fails,
           len_returns, SyncFails, read_begins, read_buf, read_returns,
           reset_returns, read_exact_poll, stop_poll, poll_stop,
           new, Control, read, read_exact, len, clear, stop, read_exact_cancel

LEMMA InitType == Init => TypeOK /\ ReadableInv
  <1> SUFFICES ASSUME Init
               PROVE  TypeOK /\ ReadableInv
    OBVIOUS
  <1>1. ChannelTypeOK
    <2>1. cr \in [en : BOOLEAN, circ : BOOLEAN, htie : BOOLEAN, tcie : BOOLEAN]
      BY Zenon DEF Init, ChannelInit
    <2>2. pos \in 0 .. Cap
      BY CapPositive DEF Init, ChannelInit
    <2>3. QED
      BY <2>1, <2>2, ReaderAssumption DEF Init, ChannelInit, ChannelTypeOK
  <1>2. ZeroIndex \in Index /\ ZeroIndex.pos <= Cap
    BY CapPositive DEF ZeroIndex, Index
  <1>3. TaskTypeOK /\ ReadableInv
    BY <1>2, CapPositive, ReaderAssumption
       DEF Init, TaskTypeOK, ReadableInv, Reading
  <1>4. buf \in [0 .. Cap - 1 -> Int]
    BY DEF Init
  <1>5. QED
    BY <1>1, <1>3, <1>4 DEF TypeOK

LEMMA StepType ==
  TypeOK /\ ReadableInv /\ [Next]_vars => TypeOK' /\ ReadableInv'
  BY ChannelType, TaskType, BufferType DEF TypeOK

\* Whatever the buffer size, the bounds and the hazards switched on, the state
\* keeps its type: positions stay inside the buffer and a read never takes more
\* than the caller's buffer holds.
THEOREM TypeCorrect == Spec => []TypeOK
  <1>1. Spec => [](TypeOK /\ ReadableInv)
    BY InitType, StepType, PTL DEF Spec
  <1>2. QED
    BY <1>1, PTL

-------------------------------------------------------------------------------
(* How the indices follow the controller. *)

\* A dma_sync that ended now would find at least what the last one found, never
\* more than the controller has moved, and would leave no pass uncounted twice.
LEMMA SyncFacts ==
  ASSUME TypeOK, CircularInv, TrackInv, Syncing
  PROVE  /\ SyncNumber \in Int
         /\ WriteNumber <= SyncNumber
         /\ SyncNumber <= Moved
         /\ Available = SyncNumber - next
         /\ Synced.pos < Cap
         /\ pass = SyncNumber - Synced.pos + (complete_count + Bit(tcif)) * Cap
         /\ SyncNumber = WritePass + count_diff * Cap + Synced.pos
         /\ pass = WritePass + count_diff * Cap
                      + (complete_count + Bit(tcif)) * Cap
  <1> DEFINE w == write_index.complete_count
             X == count_diff * Cap
             c == complete_count + Bit(tcif)
             Y == c * Cap
  <1>1. /\ w \in Nat /\ write_index.pos \in Nat /\ count_diff \in Nat
        /\ c \in Nat /\ pos \in Nat /\ pass \in Nat /\ next \in Nat
        /\ write_index \in Index /\ read_index \in Index
    BY DEF TypeOK, TaskTypeOK, ChannelTypeOK, Index, Bit
  <1>2. /\ X \in Int /\ Y \in Int
        /\ count_diff = 0 => X = 0
        /\ count_diff # 0 => X >= Cap
        /\ c = 0 => Y = 0
        /\ c # 0 => Y >= Cap
    <2> HIDE DEF c
    <2>1. /\ X \in Int
          /\ count_diff = 0 => X = 0
          /\ count_diff >= 1 => X >= Cap
      <3>1. count_diff \in Int
        BY <1>1
      <3>2. QED
        BY <3>1, Passes, Zenon
    <2>2. /\ Y \in Int
          /\ c = 0 => Y = 0
          /\ c >= 1 => Y >= Cap
      <3>1. c \in Int
        BY <1>1
      <3>2. QED
        BY <3>1, Passes, Zenon
    <2>3. QED
      BY <1>1, <2>1, <2>2
  <1>3. (w + count_diff) * Cap = w * Cap + X
    BY <1>1, CapPositive, SMT
  <1>4. (c + count_diff) * Cap = Y + X
    BY <1>1, CapPositive, SMT
  <1>5. w * Cap \in Int /\ diff(write_index, read_index) \in Int
    BY <1>1, CapPositive, LowerType
  <1>6. /\ Synced.complete_count = w + count_diff
        /\ Synced.pos = IF pos < write_index.pos /\ count_diff = 0
                        THEN Cap - 1 ELSE pos
    BY <1>1, CapPositive DEF Synced, dma_sync, Remaining
  <1>7. SyncNumber = WritePass + X + Synced.pos
    <2>1. /\ read_index.complete_count * Cap \in Int /\ read_index.pos \in Int
          /\ Synced.pos \in Int
      BY <1>1, <1>6, CapPositive DEF Index
    <2>2. QED
      BY <1>1, <1>2, <1>3, <1>5, <1>6, <2>1
         DEF SyncNumber, WritePass, WriteNumber, diff
  <1>8. pass = WritePass + Y + X
    <2>1. Uncounted = c + count_diff
      BY <1>1 DEF Uncounted
    <2>2. QED
      BY <1>4, <2>1, <1>1, <1>2, <1>5
         DEF TrackInv, Counted, WritePass, WriteNumber
  <1>9. /\ WritePass \in Int
        /\ WriteNumber = WritePass + write_index.pos
        /\ WriteNumber <= Moved
        /\ Moved = pass + pos
        /\ write_index.pos < Cap
        /\ pos < Cap
    BY <1>1, <1>5 DEF WritePass, WriteNumber, TrackInv, Moved, CircularInv
  <1>10. Available = SyncNumber - next
    BY SyncedType, <1>1 DEF SyncNumber
  <1> HIDE DEF w, X, c, Y
  <1>11. /\ SyncNumber \in Int
         /\ WriteNumber <= SyncNumber
         /\ SyncNumber <= Moved
         /\ Synced.pos < Cap
         /\ pass = SyncNumber - Synced.pos + Y
         /\ pass = WritePass + X + Y
    BY <1>1, <1>2, <1>6, <1>7, <1>8, <1>9, CapPositive
  <1>12. QED
    BY <1>7, <1>10, <1>11 DEF X, Y, c

\* The slot read_buf looks at holds the element it is meant to return, unless
\* the controller has lapped it.
LEMMA SlotElement ==
  ASSUME TypeOK, CircularInv, TrackInv, BufferInv,
         NEW k \in 0 .. Cap - 1, next + k < WriteNumber
  PROVE  \/ buf[as_index(read_index, k)] = next + k
         \/ Moved > next + k + Cap
  <1> DEFINE w == write_index.complete_count
             r == read_index.complete_count
             slot == as_index(read_index, k)
             b == IF read_index.pos + k < Cap THEN 0 ELSE 1
             u == Uncounted
             q == u + w - r - b
  <1>1. /\ w \in Int /\ r \in Int /\ u \in Int /\ b \in Int /\ q \in Int
        /\ write_index.pos \in Nat /\ read_index.pos \in Nat
        /\ read_index.pos < Cap /\ pos \in Nat /\ pos < Cap /\ pass \in Nat
        /\ next \in Nat /\ k \in Nat /\ k < Cap
    <2>1. /\ w \in Nat /\ r \in Nat
          /\ write_index.pos \in Nat /\ read_index.pos \in Nat
      BY DEF TypeOK, TaskTypeOK, Index
    <2>2. /\ pos \in Nat /\ pass \in Nat /\ next \in Nat
          /\ complete_count \in Nat /\ count_diff \in Nat
      BY CapPositive DEF TypeOK, TaskTypeOK, ChannelTypeOK
    <2>3. u \in Nat
      BY <2>2 DEF Uncounted, Bit
    <2>4. b \in Nat /\ k \in Nat /\ k < Cap
      BY CapPositive
    <2>5. read_index.pos < Cap /\ pos < Cap
      BY DEF TrackInv, CircularInv
    <2> HIDE DEF w, r, u, b
    <2>6. QED
      BY <2>1, <2>2, <2>3, <2>4, <2>5
  <1>2. slot \in 0 .. Cap - 1 /\ slot = read_index.pos + k - b * Cap
    <2> DEFINE a == read_index.pos + k
    <2>1. a \in 0 .. 2 * Cap - 1
      BY <1>1, CapPositive
    <2> HIDE DEF a
    <2>2. /\ a < Cap => a % Cap = a
          /\ a >= Cap => a % Cap = a - Cap
      BY <2>1, ShortDivision, Zenon
    <2>3. slot = a % Cap /\ a = read_index.pos + k
      BY DEF as_index, a
    <2> HIDE DEF slot
    <2>4. QED
      BY <1>1, <2>1, <2>2, <2>3, CapPositive
  <1>3. q * Cap = u * Cap + w * Cap - r * Cap - b * Cap
    BY <1>1, CapPositive, SMT
  <1>4. /\ u * Cap \in Int /\ w * Cap \in Int /\ r * Cap \in Int
        /\ b * Cap \in Int /\ q * Cap \in Int
    BY <1>1, CapPositive
  <1>5. /\ WriteNumber = next + (w * Cap + write_index.pos)
                               - (r * Cap + read_index.pos)
        /\ pass = WriteNumber - write_index.pos + u * Cap
        /\ WriteNumber <= pass + pos
    BY <1>1, <1>4 DEF WriteNumber, diff, TrackInv, Counted, WritePass, Moved
  <1>6. /\ q <= -1 => q * Cap <= -Cap
        /\ q = 0 => q * Cap = 0
        /\ q = 1 => q * Cap = Cap
        /\ q >= 2 => q * Cap >= 2 * Cap
    BY <1>1, Passes, Zenon
  <1>7. Moved = pass + pos
    BY DEF Moved
  <1>8. /\ slot < pos => buf[slot] = pass + slot
        /\ slot >= pos /\ pass > 0 => buf[slot] = pass - Cap + slot
    BY <1>2 DEF BufferInv
  <1> HIDE DEF w, r, slot, b, u, q
  <1>9. next + k = pass - q * Cap + slot
    BY <1>1, <1>2, <1>3, <1>4, <1>5
  <1>10. next + k < pass + pos
    BY <1>1, <1>5
  <1>11. CASE Moved > next + k + Cap
    BY <1>11
  <1>12. CASE Moved <= next + k + Cap
    <2>1. q = 0 \/ q = 1
      BY <1>1, <1>2, <1>4, <1>6, <1>7, <1>9, <1>10, <1>12, CapPositive
    <2>2. CASE q = 0
      BY <1>1, <1>2, <1>6, <1>8, <1>9, <1>10, <2>2, CapPositive DEF slot
    <2>3. CASE q = 1
      <3>1. slot >= pos /\ pass > 0
        BY <1>1, <1>2, <1>6, <1>7, <1>9, <1>12, <2>3, CapPositive
      <3>2. QED
        BY <1>1, <1>2, <1>6, <1>8, <1>9, <2>3, <3>1, CapPositive DEF slot
    <2>4. QED
      BY <2>1, <2>2, <2>3
  <1>13. QED
    BY <1>1, <1>7, <1>11, <1>12, CapPositive

-------------------------------------------------------------------------------
(* What each kind of step does to the invariant. *)

\* A step that leaves the counters, the position and the indices alone.
LEMMA TrackFrame ==
  ASSUME TrackInv, ~Syncing, ~Syncing',
         UNCHANGED <<tcif, pos, pass, complete_count, write_index, read_index,
                     next>>
  PROVE  TrackInv'
  BY DEF TrackInv, Counted, WritePass, WriteNumber, Uncounted, Moved, Bit

\* The end of a dma_sync: the indices are stored and the count is used up.
LEMMA TrackSync ==
  ASSUME TypeOK, CircularInv, TrackInv, Syncing, ~Syncing',
         UNCHANGED <<tcif, pos, pass, complete_count>>,
         WriteNumber' = SyncNumber, write_index'.pos = Synced.pos,
         read_index'.pos < Cap, next' <= SyncNumber
  PROVE  TrackInv'
  <1>1. /\ SyncNumber <= Moved
        /\ Synced.pos < Cap
        /\ pass = SyncNumber - Synced.pos + (complete_count + Bit(tcif)) * Cap
    BY SyncFacts
  <1>2. complete_count + Bit(tcif) + 0 = complete_count + Bit(tcif)
    BY DEF TypeOK, ChannelTypeOK, Bit
  <1>3. Uncounted' = complete_count + Bit(tcif)
    BY <1>2 DEF Uncounted, Bit
  <1>4. Counted'
    BY <1>1, <1>3 DEF Counted, WritePass
  <1>5. Moved' = Moved
    BY DEF Moved
  <1>6. QED
    BY <1>1, <1>4, <1>5 DEF TrackInv

\* SyncedWrite is as far from SyncedRead as Synced from read_index.
LEMMA StoreNumber ==
  ASSUME TypeOK, CircularInv, TrackInv, Syncing, StoreSynced, next' = next
  PROVE  /\ WriteNumber' = SyncNumber
         /\ write_index'.pos = Synced.pos
         /\ read_index'.pos < Cap
  <1>1. diff(write_index', read_index') = diff(Synced, read_index)
    BY SyncedType DEF StoreSynced, Available
  <1>2. QED
    BY <1>1, SyncedType DEF StoreSynced, WriteNumber, SyncNumber, TrackInv

\* While the race is excluded, what the dma_sync in progress is going to find
\* never goes back.
LEMMA WriteSync ==
  ASSUME TypeOK, CircularInv, TrackInv, Syncing, RaceFree, DmaWrite
  PROVE  SyncNumber <= SyncNumber'
  <1> DEFINE wpos == write_index.pos
             X == count_diff * Cap
             c == complete_count + Bit(tcif)
             Y == c * Cap
  <1>1. /\ wpos \in Nat /\ wpos < Cap /\ pos \in Nat /\ pos < Cap
        /\ count_diff \in Nat /\ c \in Nat /\ pass \in Nat
        /\ write_index.complete_count \in Nat
    BY CapPositive DEF TypeOK, TaskTypeOK, ChannelTypeOK, Index, Bit, TrackInv,
                       CircularInv
  <1>2. /\ SyncNumber \in Int
        /\ SyncNumber = WritePass + X + Synced.pos
        /\ pass = WritePass + X + Y
        /\ WriteNumber <= Moved
    BY SyncFacts DEF TrackInv
  <1>3. ~(Moved + 1 >= WriteNumber + Cap)
    BY Zenon DEF DmaWrite, Straddles, Syncing
  <1>4. /\ WriteNumber \in Int /\ WriteNumber = WritePass + wpos
        /\ WritePass \in Int /\ Moved = pass + pos
    BY <1>1, LowerType DEF WritePass, WriteNumber, Moved, TypeOK, TaskTypeOK
  <1>5. /\ X \in Int
        /\ count_diff = 0 => X = 0
        /\ count_diff >= 1 => X >= Cap
    <2>1. count_diff \in Int
      BY <1>1
    <2>2. QED
      BY <2>1, Passes, Zenon
  <1>6. /\ Y \in Int
        /\ c = 0 => Y = 0
        /\ c >= 1 => Y >= Cap
    <2>1. c \in Int
      BY <1>1
    <2> HIDE DEF c
    <2>2. QED
      BY <2>1, Passes, Zenon
  <1>7. /\ pos' = (IF LastOfPass THEN 0 ELSE pos + 1)
        /\ UNCHANGED <<write_index, read_index, next, count_diff>>
    BY DEF DmaWrite, MoveElement, CircularInv, taskVars
  <1>8. Synced.pos = IF pos < wpos /\ count_diff = 0 THEN Cap - 1 ELSE pos
    BY <1>1, CapPositive DEF Synced, dma_sync, Remaining
  <1>9. Synced'.pos = IF pos' < wpos /\ count_diff = 0 THEN Cap - 1 ELSE pos'
    BY <1>1, <1>7, CapPositive DEF Synced, dma_sync, Remaining, LastOfPass
  <1>10. Synced'.complete_count = Synced.complete_count
    BY <1>7 DEF Synced, dma_sync
  <1>11. /\ Synced.complete_count * Cap \in Int
         /\ read_index.complete_count * Cap \in Int /\ read_index.pos \in Int
         /\ Synced.pos \in Int /\ Synced'.pos \in Int /\ next \in Int
    <2>1. Synced.complete_count \in Nat /\ read_index.complete_count \in Nat
      BY SyncedType DEF TypeOK, TaskTypeOK, Index
    <2>2. read_index.pos \in Int /\ next \in Int
      BY DEF TypeOK, TaskTypeOK, Index
    <2>3. Synced.pos \in Int /\ Synced'.pos \in Int
      BY <1>1, <1>7, <1>8, <1>9, CapPositive
    <2>4. QED
      BY <2>1, <2>2, <2>3, CapPositive
  <1>12. Synced.pos <= Synced'.pos
    <2> HIDE DEF wpos, X, c, Y
    <2>1. CASE LastOfPass
      BY <1>1, <1>2, <1>3, <1>4, <1>5, <1>6, <1>7, <1>8, <1>9, <2>1, CapPositive
         DEF LastOfPass
    <2>2. CASE ~LastOfPass
      BY <1>1, <1>2, <1>3, <1>4, <1>5, <1>6, <1>7, <1>8, <1>9, <2>2, CapPositive
         DEF LastOfPass
    <2>3. QED
      BY <2>1, <2>2
  <1>13. QED
    BY <1>7, <1>10, <1>11, <1>12 DEF SyncNumber, diff

\* SyncFacts one step later.
LEMMA SyncFactsPrime ==
  (TypeOK /\ CircularInv /\ TrackInv /\ Syncing =>
     /\ SyncNumber \in Int
     /\ pass = SyncNumber - Synced.pos + (complete_count + Bit(tcif)) * Cap)'
  BY SyncFacts, PTL

LEMMA SyncedTypePrime == (TypeOK => Synced \in Index)'
  BY SyncedType, PTL

\* The controller's step.
LEMMA WriteInv ==
  ASSUME TypeOK, TypeOK', IInv, RaceFree, DmaWrite
  PROVE  IInv'
  <1> DEFINE wrap == LastOfPass /\ cr.circ
  <1>1. /\ pos \in Nat /\ pass \in Nat /\ next \in Nat /\ complete_count \in Nat
        /\ pos < Cap /\ buf \in [0 .. Cap - 1 -> Int] /\ Moved = pass + pos
    BY CapPositive
       DEF TypeOK, ChannelTypeOK, TaskTypeOK, DmaWrite, MoveElement, Moved
  <1>2. /\ wrap => pos + 1 = Cap /\ pos' = 0 /\ pass' = pass + Cap
        /\ ~wrap => pos' = pos + 1 /\ pass' = pass
        /\ buf' = [buf EXCEPT ![pos] = Moved]
        /\ UNCHANGED <<cr, complete_count, pc, op, count_diff, write_index,
                       read_index, readable, out, next, delivered>>
    BY DEF DmaWrite, MoveElement, taskVars, LastOfPass
  <1>3. (LastOfPass => ~tcif) /\ tcif' = (tcif \/ LastOfPass)
    BY Zenon DEF DmaWrite, MoveElement
  <1> HIDE DEF wrap
  <1>4. Moved' = Moved + 1 /\ Moved \in Nat
    <2>1. Moved' = pass' + pos'
      BY DEF Moved
    <2>2. QED
      BY <1>1, <1>2, <2>1, CapPositive
  <1>5. IntactRead' /\ next' <= Moved'
    BY <1>1, <1>2, <1>4
       DEF IInv, IntactRead, NotOverwritten, NotStale, Expected
  <1>6. BufferInv'
    <2> SUFFICES ASSUME NEW s \in 0 .. Cap - 1
                 PROVE  /\ s < pos' => buf'[s] = pass' + s
                        /\ s >= pos' /\ pass' > 0 => buf'[s] = pass' - Cap + s
      BY DEF BufferInv
    <2>1. /\ s < pos => buf[s] = pass + s
          /\ s >= pos /\ pass > 0 => buf[s] = pass - Cap + s
      BY DEF IInv, BufferInv
    <2>2. buf'[s] = IF s = pos THEN Moved ELSE buf[s]
      BY <1>1, <1>2
    <2>3. QED
      BY <1>1, <1>2, <2>1, <2>2, CapPositive
  <1>7. pc # "unbuilt"
    BY DEF IInv, UnbuiltInv, DmaWrite, MoveElement
  <1>8. CircularInv => CircularInv' /\ (wrap <=> LastOfPass)
    <2> SUFFICES ASSUME CircularInv
                 PROVE  CircularInv' /\ (wrap <=> LastOfPass)
      OBVIOUS
    <2>1. wrap <=> LastOfPass
      BY DEF CircularInv, wrap
    <2>2. pos' < Cap
      BY <1>1, <1>2, <2>1, CapPositive DEF LastOfPass
    <2>3. QED
      BY <1>2, <2>1, <2>2 DEF CircularInv
  <1>9. ASSUME Tracking, TrackInv, CircularInv
        PROVE  TrackInv'
    <2>1. WriteNumber' = WriteNumber /\ WritePass' = WritePass
      BY <1>2 DEF WriteNumber, WritePass
    <2>2. WriteNumber \in Int /\ WritePass \in Int
      <3>1. /\ write_index \in Index /\ read_index \in Index
            /\ write_index.pos \in Nat
        BY DEF TypeOK, TaskTypeOK, Index
      <3>2. diff(write_index, read_index) \in Int
        BY <3>1, LowerType
      <3>3. QED
        BY <1>1, <3>1, <3>2 DEF WriteNumber, WritePass
    <2>3. Uncounted \in Nat
      BY <1>1 DEF Uncounted, Bit, TypeOK, TaskTypeOK
    <2>4. /\ wrap => Uncounted' = Uncounted + 1
          /\ ~wrap => Uncounted' = Uncounted
      <3>1. /\ wrap => ~tcif /\ tcif'
            /\ ~wrap => (tcif' <=> tcif)
        BY <1>3, <1>8, <1>9
      <3>2. /\ wrap => Bit(tcif) = 0 /\ Bit(tcif') = 1
            /\ ~wrap => Bit(tcif') = Bit(tcif)
            /\ Bit(tcif) \in Nat
        BY <3>1 DEF Bit
      <3>3. /\ UNCHANGED <<complete_count, count_diff>>
            /\ (IF Syncing THEN count_diff ELSE 0)'
                  = IF Syncing THEN count_diff ELSE 0
        BY <1>2 DEF Syncing
      <3>4. /\ complete_count \in Nat
            /\ (IF Syncing THEN count_diff ELSE 0) \in Nat
        BY DEF TypeOK, ChannelTypeOK, TaskTypeOK
      <3>5. QED
        BY <3>2, <3>3, <3>4 DEF Uncounted
    <2>5. (Uncounted + 1) * Cap = Uncounted * Cap + Cap /\ Uncounted * Cap \in Int
      <3>1. Uncounted \in Int
        BY <2>3
      <3>2. QED
        BY <3>1, Passes, Zenon
    <2>6. Counted'
      <3>1. pass = WritePass + Uncounted * Cap
        BY <1>9 DEF TrackInv, Counted
      <3>2. pass' = WritePass + Uncounted' * Cap
        BY <1>1, <1>2, <2>2, <2>4, <2>5, <3>1
      <3>3. QED
        BY <2>1, <3>2 DEF Counted
    <2>7. QED
      BY <1>2, <1>4, <1>9, <2>1, <2>2, <2>6 DEF TrackInv
  <1>10. ASSUME Reading, CopyInv, TrackInv, CircularInv
         PROVE  CopyInv'
    <2>1. WriteNumber' = WriteNumber
      BY <1>2 DEF WriteNumber
    <2>2. pc = "len2_pos" => /\ SyncNumber <= SyncNumber'
                             /\ SyncNumber \in Int /\ SyncNumber' \in Int
      <3>1. ASSUME pc = "len2_pos" PROVE SyncNumber' \in Int
        <4>1. Synced' \in Index
          BY SyncedTypePrime
        <4>2. QED
          BY <1>1, <1>2, <4>1, LowerType DEF SyncNumber, TypeOK, TaskTypeOK
      <3>2. QED
        BY <1>10, <3>1, WriteSync, SyncFacts DEF Syncing
    <2>3. QED
      BY <1>1, <1>2, <1>4, <1>10, <2>1, <2>2, CapPositive DEF CopyInv, Reading
  <1>11. pc = "resync_pos" => complete_count' = 0 /\ ~tcif'
    BY <1>2, <1>3 DEF IInv, DmaWrite, Straddles
  <1>12. QED
    BY <1>2, <1>5, <1>6, <1>7, <1>8, <1>9, <1>10, <1>11
       DEF IInv, Tracking, Resetting, Reading, Syncing

\* The interrupt handler's step: the completion moves from the flag into the
\* counter.
LEMMA InterruptInv ==
  ASSUME TypeOK, IInv, Interrupt
  PROVE  IInv'
  <1>1. /\ UNCHANGED <<pos, pass, pc, op, count_diff, write_index, read_index,
                       readable, out, next, delivered, buf>>
        /\ cr'.circ = cr.circ /\ cr'.htie = cr.htie /\ cr'.tcie = cr.tcie
    <2>1. CASE on_irq_half
      BY <2>1 DEF Interrupt, taskVars, on_irq_half
    <2>2. CASE on_irq_complete
      BY <2>2 DEF Interrupt, taskVars, on_irq_complete, TypeOK, ChannelTypeOK
    <2>3. QED
      BY <2>1, <2>2 DEF Interrupt, on_irq
  <1>2. complete_count' + Bit(tcif') = complete_count + Bit(tcif)
    <2>1. CASE on_irq_half
      BY <2>1 DEF on_irq_half, Bit
    <2>2. CASE on_irq_complete
      BY <2>2 DEF on_irq_complete, Bit, TypeOK, ChannelTypeOK
    <2>3. QED
      BY <2>1, <2>2 DEF Interrupt, on_irq
  <1>3. ~tcif => complete_count' = complete_count /\ ~tcif' /\ cr' = cr
    BY DEF Interrupt, on_irq, on_irq_half, on_irq_complete
  <1>4. IntactRead' /\ next' <= Moved' /\ BufferInv'
    BY <1>1 DEF IInv, IntactRead, NotOverwritten, NotStale, Expected, Moved,
                BufferInv
  <1>5. CircularInv => CircularInv'
    BY <1>1 DEF CircularInv
  <1>6. TrackInv => TrackInv'
    <2>1. Uncounted' = Uncounted
      BY <1>1, <1>2 DEF Uncounted, Syncing
    <2>2. QED
      BY <1>1, <2>1 DEF TrackInv, Counted, WritePass, WriteNumber, Moved
  <1>7. Reading /\ CopyInv => CopyInv'
    <2>1. SyncNumber' = SyncNumber
      BY <1>1 DEF SyncNumber, Synced, dma_sync, Remaining
    <2>2. QED
      BY <1>1, <2>1 DEF CopyInv, WriteNumber, Moved
  <1>8. pc = "unbuilt" => UnbuiltInv'
    BY <1>1, <1>3 DEF IInv, UnbuiltInv
  <1>9. QED
    BY <1>1, <1>3, <1>4, <1>5, <1>6, <1>7, <1>8
       DEF IInv, Tracking, Resetting, Reading, Syncing

\* The first load of a dma_sync: the count moves from the counter to the task.
LEMMA TakeCountInv ==
  ASSUME TypeOK, TypeOK', IInv, TakeCount
  PROVE  IInv'
  <1>1. /\ UNCHANGED <<cr, tcif, pos, pass, op, write_index, read_index,
                       readable, out, next, delivered, buf>>
        /\ count_diff' = complete_count /\ complete_count' = 0
        /\ pc \in {"len1", "len2", "reset", "resync"}
        /\ pc = "len1" => pc' = "len1_pos"
        /\ pc = "len2" => pc' = "len2_pos"
        /\ pc = "reset" => pc' = "resync"
        /\ pc = "resync" => pc' = "resync_pos"
    BY DEF TakeCount, AfterCount, indexVars, resultVars, reset_complete_count
  <1>2. CircularInv /\ CircularInv' /\ ~tcif /\ ~tcif'
    BY <1>1 DEF IInv, Tracking, Resetting, Reading, CircularInv, TakeCount,
                IrqPending
  <1>3. IntactRead' /\ next' <= Moved' /\ BufferInv'
    BY <1>1 DEF IInv, IntactRead, NotOverwritten, NotStale, Expected, Moved,
                BufferInv
  <1>4. ASSUME pc \in {"len1", "len2"}
        PROVE  TrackInv'
    <2>1. TrackInv
      BY <1>4 DEF IInv, Tracking, Reading
    <2>2. Uncounted' = Uncounted
      <3>1. ~Syncing /\ Syncing'
        BY <1>1, <1>4 DEF Syncing
      <3>2. complete_count \in Nat
        BY DEF TypeOK, ChannelTypeOK
      <3>3. QED
        BY <1>1, <1>2, <3>1, <3>2 DEF Uncounted, Bit
    <2>3. QED
      BY <1>1, <2>1, <2>2 DEF TrackInv, Counted, WritePass, WriteNumber, Moved
  <1>5. ASSUME pc = "len2"
        PROVE  CopyInv'
    <2>1. /\ CopyInv
          /\ \A i \in 1 .. Len(out) : out[i] # next + i - 1 => Moved > next + Cap
      BY <1>5 DEF IInv, CopyInv, Reading
    <2>2. /\ SyncNumber' \in Int
          /\ pass' = SyncNumber' - Synced'.pos + (complete_count' + Bit(tcif')) * Cap
      BY <1>1, <1>2, <1>4, <1>5, SyncFactsPrime DEF Syncing
    <2>3. Synced'.pos \in Int /\ pos <= Synced'.pos
      <3>1. pos \in Nat /\ pos < Cap
        BY <1>2 DEF CircularInv, TypeOK, ChannelTypeOK
      <3>2. Synced'.pos = IF pos < write_index.pos /\ count_diff' = 0
                          THEN Cap - 1 ELSE pos
        BY <1>1, <3>1, CapPositive DEF Synced, dma_sync, Remaining
      <3>3. QED
        BY <3>1, <3>2, CapPositive
    <2>4. (complete_count' + Bit(tcif')) * Cap = 0
      BY <1>1, <1>2, CapPositive DEF Bit
    <2>5. pass \in Int /\ pos \in Int /\ next \in Int
      BY CapPositive DEF TypeOK, ChannelTypeOK, TaskTypeOK
    <2>6. Moved <= SyncNumber' /\ Moved \in Int
      BY <1>1, <2>2, <2>3, <2>4, <2>5 DEF Moved
    <2>7. pc' = "len2_pos" /\ WriteNumber' = WriteNumber
      BY <1>1, <1>5 DEF WriteNumber
    <2>8. \A i \in 1 .. Len(out) :
            out[i] # next + i - 1 => SyncNumber' > next + Cap
      BY <2>1, <2>2, <2>5, <2>6, CapPositive
    <2>9. QED
      BY <1>1, <1>5, <2>1, <2>7, <2>8 DEF CopyInv
  <1>6. QED
    BY <1>1, <1>2, <1>3, <1>4, <1>5
       DEF IInv, Tracking, Resetting, Reading, Syncing

\* The end of the first dma_sync of a read, and of the one of len().
LEMMA LenInv ==
  ASSUME TypeOK, IInv, len_fails \/ len_returns \/ read_begins
  PROVE  IInv'
  <1>1. /\ Syncing /\ StoreSynced
        /\ UNCHANGED <<cr, tcif, pos, pass, complete_count, op, out, next, buf>>
        /\ delivered' = delivered \/ delivered' = <<>>
        /\ pc' \in {"idle", "reset", "len2", "copy"}
    BY DEF len_fails, len_returns, read_begins, SyncFails, Syncing, channelVars,
           resultVars
  <1>2. CircularInv /\ TrackInv /\ IntactRead
    BY <1>1 DEF IInv, Syncing, Tracking
  <1>3. /\ WriteNumber' = SyncNumber
        /\ write_index'.pos = Synced.pos
        /\ read_index'.pos < Cap
    BY <1>1, <1>2, StoreNumber
  <1>4. /\ SyncNumber \in Int /\ next <= SyncNumber
        /\ Available = SyncNumber - next
    <2>1. /\ SyncNumber \in Int /\ WriteNumber <= SyncNumber
          /\ Available = SyncNumber - next
      BY <1>1, <1>2, SyncFacts
    <2>2. WriteNumber \in Int /\ next \in Int
      BY LowerType DEF WriteNumber, TypeOK, TaskTypeOK
    <2>3. QED
      BY <1>2, <2>1, <2>2 DEF TrackInv
  <1>5. TrackInv'
    BY <1>1, <1>2, <1>3, <1>4, TrackSync DEF Syncing
  <1>6. CircularInv' /\ BufferInv' /\ next' <= Moved'
    BY <1>1, <1>2 DEF IInv, CircularInv, BufferInv, Moved
  <1>7. IntactRead'
    <2>1. CASE delivered' = delivered
      BY <1>1, <1>2, <2>1 DEF IntactRead, NotOverwritten, NotStale, Expected
    <2>2. CASE delivered' = <<>>
      BY <2>2 DEF IntactRead, NotOverwritten, NotStale
    <2>3. QED
      BY <1>1, <2>1, <2>2
  <1>8. ASSUME pc' \in {"len2", "copy"}
        PROVE  CopyInv'
    <2>1. read_begins
      BY <1>8 DEF len_fails, len_returns, SyncFails
    <2>2. /\ readable' = IF Available <= want THEN Available ELSE want
          /\ pc' = IF readable' = 0 THEN "len2" ELSE "copy"
          /\ op # "len" /\ Available \in 0 .. Cap
          /\ pc = "len1_pos"
      BY <2>1 DEF read_begins
    <2>3. out = <<>>
      BY <2>2 DEF IInv
    <2>4. want \in Nat /\ next \in Nat
      BY DEF TypeOK, TaskTypeOK
    <2>5. readable' \in Nat /\ readable' <= Available
      BY <2>2, <2>4, CapPositive
    <2>6. Len(out') = 0
      BY <1>1, <2>3
    <2>7. next' + readable' <= WriteNumber'
      BY <1>1, <1>3, <1>4, <2>2, <2>4, <2>5, CapPositive
    <2>8. /\ pc' = "copy" => Len(out') < readable'
          /\ pc' \in {"len2", "len2_pos"} => Len(out') = readable'
      BY <2>2, <2>5, <2>6
    <2>9. QED
      BY <1>1, <2>2, <2>6, <2>7, <2>8 DEF CopyInv
  <1>9. QED
    BY <1>1, <1>5, <1>6, <1>7, <1>8
       DEF IInv, Tracking, Resetting, Reading, Syncing

\* One element copied.
LEMMA CopyStep ==
  ASSUME TypeOK, IInv, read_buf
  PROVE  IInv'
  <1>1. /\ UNCHANGED <<cr, tcif, pos, pass, complete_count, op, count_diff,
                       write_index, read_index, readable, next, delivered, buf>>
        /\ pc = "copy"
        /\ out' = Append(out, buf[as_index(read_index, Len(out))])
        /\ pc' = IF Len(out') = readable THEN "len2" ELSE "copy"
    BY DEF read_buf, channelVars, indexVars, resultVars
  <1>2. CircularInv /\ TrackInv /\ CopyInv /\ BufferInv
    BY <1>1 DEF IInv, Tracking, Reading
  <1>3. /\ out \in Seq(Int) /\ Len(out) \in Nat /\ Len(out) < readable
        /\ readable \in Nat /\ readable <= Cap /\ next \in Nat
    BY <1>1, <1>2, CapPositive DEF TypeOK, TaskTypeOK, CopyInv
  <1>4. TrackInv'
    BY <1>1, <1>2, TrackFrame DEF Syncing
  <1>5. CircularInv' /\ BufferInv' /\ next' <= Moved' /\ IntactRead'
    BY <1>1, <1>2 DEF IInv, CircularInv, BufferInv, Moved, IntactRead,
                      NotOverwritten, NotStale, Expected
  <1>6. \/ buf[as_index(read_index, Len(out))] = next + Len(out)
        \/ Moved > next + Cap
    <2>1. WriteNumber \in Int
      BY LowerType DEF WriteNumber, TypeOK, TaskTypeOK
    <2>2. next + Len(out) < WriteNumber /\ Len(out) \in 0 .. Cap - 1
      BY <1>2, <1>3, <2>1, CapPositive DEF CopyInv
    <2>3. \/ buf[as_index(read_index, Len(out))] = next + Len(out)
          \/ Moved > next + Len(out) + Cap
      BY <1>2, <2>2, SlotElement
    <2>4. Moved \in Int
      BY DEF Moved, TypeOK, ChannelTypeOK
    <2>5. QED
      BY <1>3, <2>3, <2>4, CapPositive
  <1>7. /\ buf[as_index(read_index, Len(out))] \in Int
        /\ Len(out') = Len(out) + 1
        /\ \A i \in 1 .. Len(out) : out'[i] = out[i]
        /\ out'[Len(out) + 1] = buf[as_index(read_index, Len(out))]
    <2>1. read_index.pos + Len(out) \in Nat
      BY <1>3 DEF TypeOK, TaskTypeOK, Index
    <2>2. buf[as_index(read_index, Len(out))] \in Int
      BY <2>1, Division DEF TypeOK, as_index
    <2>3. QED
      BY <1>1, <1>3, <2>2
  <1>8. ASSUME NEW i \in 1 .. Len(out'), out'[i] # next + i - 1
        PROVE  Moved > next + Cap
    <2>1. CASE i \in 1 .. Len(out)
      BY <1>1, <1>2, <1>7, <1>8, <2>1 DEF CopyInv
    <2>2. CASE i = Len(out) + 1
      BY <1>3, <1>6, <1>7, <1>8, <2>2
    <2>3. QED
      BY <1>3, <1>7, <2>1, <2>2
  <1>9. CopyInv'
    <2>1. /\ pc' = "copy" => Len(out') < readable'
          /\ pc' \in {"len2", "len2_pos"} => Len(out') = readable'
      BY <1>1, <1>3, <1>7
    <2>2. WriteNumber' = WriteNumber /\ Moved' = Moved /\ pc' # "len2_pos"
      BY <1>1 DEF WriteNumber, Moved
    <2>3. QED
      BY <1>1, <1>2, <1>8, <2>1, <2>2 DEF CopyInv
  <1>10. QED
    BY <1>1, <1>4, <1>5, <1>9
       DEF IInv, Tracking, Resetting, Reading, Syncing

\* A read that returns leaves write_index at what its second dma_sync found.
LEMMA ReturnNumber ==
  ASSUME TypeOK, CircularInv, TrackInv, read_returns
  PROVE  WriteNumber' = SyncNumber
  <1>1. /\ pc = "len2_pos"
        /\ write_index' = SyncedWrite
        /\ read_index' = advance(SyncedRead, readable)
        /\ next' = next + readable
    BY DEF read_returns
  <1>2. SyncNumber \in Int /\ Available = SyncNumber - next
    BY <1>1, SyncFacts DEF Syncing
  <1>3. readable \in Nat /\ next \in Nat
    BY CapPositive DEF TypeOK, TaskTypeOK
  <1>4. SyncedWrite \in Index /\ SyncedRead \in Index /\ Available \in Int
    BY SyncedType
  <1>5. diff(SyncedWrite, advance(SyncedRead, readable)) = Available - readable
    BY <1>3, <1>4, AdvanceDiff DEF Available
  <1>6. QED
    BY <1>1, <1>2, <1>3, <1>4, <1>5 DEF WriteNumber

\* What the second dma_sync of a read lets pass are the expected elements.
LEMMA ReturnedElements ==
  ASSUME TypeOK, IInv, read_returns
  PROVE  /\ Len(out) = readable
         /\ \A i \in 1 .. Len(out) : out[i] = next + i - 1
         /\ next + readable <= Moved
  <1>1. pc = "len2_pos" /\ Available \in 0 .. Cap
    BY DEF read_returns
  <1>2. CircularInv /\ TrackInv /\ CopyInv
    BY <1>1 DEF IInv, Tracking, Reading
  <1>3. /\ SyncNumber \in Int /\ WriteNumber <= SyncNumber /\ SyncNumber <= Moved
        /\ Available = SyncNumber - next
    BY <1>1, <1>2, SyncFacts DEF Syncing
  <1>4. /\ readable \in Nat /\ next \in Nat /\ Len(out) = readable
        /\ WriteNumber \in Int /\ Moved \in Int
        /\ next + readable <= WriteNumber
        /\ \A i \in 1 .. Len(out) :
             out[i] # next + i - 1 => SyncNumber > next + Cap
    BY <1>1, <1>2, LowerType, CapPositive
       DEF CopyInv, TypeOK, TaskTypeOK, ChannelTypeOK, WriteNumber, Moved
  <1>5. QED
    BY <1>1, <1>3, <1>4, CapPositive

\* The second dma_sync of a read finds the copied elements intact.
LEMMA ReturnInv ==
  ASSUME TypeOK, IInv, read_returns
  PROVE  IInv'
  <1>1. /\ UNCHANGED <<cr, tcif, pos, pass, complete_count, op, out, buf>>
        /\ pc = "len2_pos" /\ Available \in 0 .. Cap
        /\ write_index' = SyncedWrite
        /\ read_index' = advance(SyncedRead, readable)
        /\ next' = next + readable /\ delivered' = out
        /\ pc' \in {"parked", "idle"}
    BY DEF read_returns, channelVars
  <1>2. CircularInv /\ TrackInv /\ CopyInv
    BY <1>1 DEF IInv, Tracking, Reading
  <1>3. /\ SyncNumber \in Int /\ WriteNumber <= SyncNumber /\ SyncNumber <= Moved
        /\ Available = SyncNumber - next /\ Synced.pos < Cap
    BY <1>1, <1>2, SyncFacts DEF Syncing
  <1>4. /\ readable \in Nat /\ next \in Nat /\ Len(out) = readable
        /\ next + readable <= WriteNumber /\ WriteNumber \in Int /\ Moved \in Int
    BY <1>1, <1>2, LowerType, CapPositive
       DEF CopyInv, TypeOK, TaskTypeOK, ChannelTypeOK, WriteNumber, Moved
  <1>5. IntactRead'
    <2>1. \A i \in 1 .. Len(out) : out[i] = next + i - 1
      BY ReturnedElements
    <2>2. \A i \in 1 .. Len(out) : next + readable - Len(out) + i - 1 = next + i - 1
      BY <1>4
    <2>3. \A i \in 1 .. Len(out) : out[i] \in Int /\ next + i - 1 \in Int
      BY <1>4, <2>1
    <2>4. \A i \in 1 .. Len(delivered') :
            delivered'[i] = next' - Len(delivered') + i - 1 /\ delivered'[i] \in Int
      <3>1. delivered' = out /\ next' = next + readable
        BY <1>1
      <3>2. ASSUME NEW i \in 1 .. Len(delivered')
            PROVE  /\ delivered'[i] = next' - Len(delivered') + i - 1
                   /\ delivered'[i] \in Int
        <4>1. i \in 1 .. Len(out)
          BY <3>1
        <4>2. out[i] = next + readable - Len(out) + i - 1 /\ out[i] \in Int
          BY <2>1, <2>2, <2>3, <4>1
        <4>3. QED
          BY <1>4, <3>1, <4>1, <4>2
      <3>3. QED
        BY <3>2
    <2>5. QED
      BY <2>4 DEF IntactRead, NotOverwritten, NotStale, Expected
  <1>6. TrackInv'
    <2>1. /\ SyncedWrite \in Index /\ SyncedRead \in Index
          /\ SyncedWrite.pos = Synced.pos
          /\ Available \in Int
      BY SyncedType
    <2>2. advance(SyncedRead, readable).pos < Cap
      <3>1. advance(SyncedRead, readable).pos \in 0 .. Cap - 1
        BY <1>4, <2>1, AdvanceType
      <3>2. QED
        BY <3>1, CapPositive
    <2>3. WriteNumber' = SyncNumber
      BY <1>1, <1>2, ReturnNumber
    <2>4. next' <= SyncNumber
      BY <1>1, <1>3, <1>4
    <2>5. QED
      BY <1>1, <1>2, <2>1, <2>2, <2>3, <2>4, TrackSync DEF Syncing
  <1>7. next' <= Moved'
    BY <1>1, <1>3, <1>4 DEF Moved
  <1>8. CircularInv' /\ BufferInv'
    BY <1>1, <1>2 DEF IInv, CircularInv, BufferInv
  <1>9. QED
    BY <1>1, <1>5, <1>6, <1>7, <1>8
       DEF IInv, Tracking, Resetting, Reading, Syncing

\* A reset starts again at the element the controller writes next.
LEMMA ResetInv ==
  ASSUME TypeOK, IInv, reset_returns
  PROVE  IInv'
  <1>1. /\ UNCHANGED <<cr, tcif, pos, pass, complete_count, op, out, buf>>
        /\ pc = "resync_pos" /\ pc' = "idle"
        /\ write_index' = dma_sync(ZeroIndex, count_diff, Remaining)
        /\ read_index' = write_index'
        /\ next' = Moved /\ delivered' = <<>>
    BY DEF reset_returns, channelVars
  <1>2. CircularInv /\ complete_count = 0 /\ ~tcif /\ BufferInv
    BY <1>1 DEF IInv, Resetting
  <1>3. pos \in Nat /\ pos < Cap /\ pass \in Nat /\ count_diff \in Nat
    BY <1>2 DEF TypeOK, ChannelTypeOK, TaskTypeOK, CircularInv
  <1>4. write_index'.pos = pos /\ write_index' \in Index
    BY <1>1, <1>3, CapPositive DEF dma_sync, ZeroIndex, Remaining, Index
  <1>5. WriteNumber' = Moved
    <2>1. diff(write_index', read_index') = 0
      <3>1. write_index'.complete_count * Cap \in Int
        BY <1>4, CapPositive DEF Index
      <3>2. QED
        BY <1>1, <1>3, <1>4, <3>1 DEF diff
    <2>2. QED
      BY <1>1, <1>3, <2>1 DEF WriteNumber, Moved
  <1>6. TrackInv'
    <2>1. Uncounted' * Cap = 0
      <3>1. Uncounted' = 0
        BY <1>1, <1>2 DEF Uncounted, Bit, Syncing
      <3>2. QED
        BY <3>1, CapPositive
    <2>2. WritePass' = pass
      BY <1>3, <1>4, <1>5 DEF WritePass, Moved
    <2>3. QED
      BY <1>1, <1>3, <1>4, <1>5, <2>1, <2>2 DEF TrackInv, Counted, Moved
  <1>7. CircularInv' /\ BufferInv' /\ next' <= Moved' /\ IntactRead'
    BY <1>1, <1>2, <1>3 DEF CircularInv, BufferInv, Moved, IntactRead,
                            NotOverwritten, NotStale
  <1>8. QED
    BY <1>1, <1>6, <1>7 DEF IInv, Tracking, Resetting, Reading, Syncing

\* The ring is built on a channel that has counted nothing.
LEMMA NewInv ==
  ASSUME TypeOK, IInv, new
  PROVE  IInv'
  <1>1. /\ UNCHANGED <<complete_count, op, out, next, delivered, buf>>
        /\ pc = "unbuilt" /\ pc' = "idle"
        /\ write_index' = ZeroIndex /\ read_index' = ZeroIndex
        /\ pos' = 0 /\ pass' = 0 /\ tcif' = FALSE
        /\ cr'.circ /\ cr'.htie /\ cr'.tcie
    BY DEF new, configure_ring, resultVars
  <1>2. complete_count = 0 /\ next = 0 /\ delivered = <<>>
    BY <1>1 DEF IInv, UnbuiltInv
  <1>3. WriteNumber' = 0
    BY <1>1, <1>2, CapPositive DEF WriteNumber, diff, ZeroIndex
  <1>4. TrackInv'
    <2>1. Uncounted' = 0
      BY <1>1, <1>2 DEF Uncounted, Bit, Syncing
    <2>2. QED
      BY <1>1, <1>2, <1>3, <2>1, CapPositive
         DEF TrackInv, Counted, WritePass, Moved, ZeroIndex
  <1>5. CircularInv' /\ BufferInv' /\ next' <= Moved' /\ IntactRead'
    BY <1>1, <1>2, CapPositive
       DEF CircularInv, BufferInv, Moved, IntactRead, NotOverwritten, NotStale
  <1>6. QED
    BY <1>1, <1>4, <1>5 DEF IInv, Tracking, Resetting, Reading, Syncing

\* The steps that begin or end an operation touch neither the counters nor the
\* indices.
LEMMA QuietInv ==
  ASSUME TypeOK, IInv, ~ReadAfterStop,
         \/ Control \/ len \/ clear \/ read_exact_cancel \/ read_exact_poll
         \/ stop \/ stop_poll \/ poll_stop
         \/ \E n \in 1 .. MaxRead : read(n) \/ read_exact(n)
  PROVE  IInv'
  <1>1. /\ UNCHANGED <<tcif, pos, pass, complete_count, write_index, read_index,
                       next, buf>>
        /\ delivered' = delivered \/ delivered' = <<>>
        /\ pc # "unbuilt" /\ pc' # "unbuilt" /\ ~Reading /\ ~Reading'
        /\ ~Syncing /\ ~Syncing' /\ pc' \notin {"resync", "resync_pos"}
        /\ Tracking' => Tracking
        /\ Tracking' \/ Resetting' => Tracking /\ UNCHANGED <<cr.circ, cr.htie, cr.tcie>>
        /\ pc' = "len1" => out' = <<>>
    <2>1. CASE Control
      BY <2>1 DEF Control, start, request_pause, request_stop, indexVars,
                  resultVars, Reading, Syncing, Tracking, Resetting, TypeOK,
                  ChannelTypeOK
    <2>2. CASE len \/ clear
      BY <2>2 DEF len, clear, Begin, channelVars, indexVars, resultVars,
                  Reading, Syncing, Tracking, Resetting
    <2>3. CASE read_exact_cancel \/ read_exact_poll
      BY <2>3 DEF read_exact_cancel, read_exact_poll, channelVars, indexVars,
                  resultVars, Reading, Syncing, Tracking, Resetting
    <2>4. CASE stop \/ stop_poll \/ poll_stop
      BY <2>4 DEF stop, stop_poll, poll_stop, channelVars, indexVars,
                  resultVars, Reading, Syncing, Tracking, Resetting
    <2>5. CASE \E n \in 1 .. MaxRead : read(n) \/ read_exact(n)
      BY <2>5 DEF read, read_exact, Begin, channelVars, indexVars, resultVars,
                  Reading, Syncing, Tracking, Resetting
    <2>6. QED
      BY <2>1, <2>2, <2>3, <2>4, <2>5
  <1>2. BufferInv' /\ next' <= Moved'
    BY <1>1 DEF IInv, BufferInv, Moved
  <1>3. IntactRead'
    BY <1>1 DEF IInv, IntactRead, NotOverwritten, NotStale, Expected
  <1>4. Tracking' => TrackInv'
    BY <1>1, TrackFrame DEF IInv
  <1>5. Tracking' \/ Resetting' => CircularInv'
    BY <1>1 DEF IInv, CircularInv
  <1>6. QED
    BY <1>1, <1>2, <1>3, <1>4, <1>5 DEF IInv, Syncing

-------------------------------------------------------------------------------
(* The theorems. *)

LEMMA InitIInv == Init /\ PriorTransfers = 0 => IInv
  <1> SUFFICES ASSUME Init, PriorTransfers = 0
               PROVE  IInv
    OBVIOUS
  <1>1. UnbuiltInv
    BY DEF Init, ChannelInit, UnbuiltInv
  <1>2. IntactRead /\ next <= Moved
    BY DEF Init, ChannelInit, IntactRead, NotOverwritten, NotStale, Moved
  <1>3. BufferInv
    BY DEF Init, ChannelInit, BufferInv
  <1>4. pc = "unbuilt"
    BY DEF Init
  <1>5. QED
    BY <1>1, <1>2, <1>3, <1>4 DEF IInv, Tracking, Resetting, Reading, Syncing

LEMMA StepIInv ==
  ASSUME RaceFree, ~ReadAfterStop, TypeOK, TypeOK', IInv, [Next]_vars
  PROVE  IInv'
  <1>1. CASE UNCHANGED vars
    BY <1>1
       DEF vars, channelVars, taskVars, IInv, IntactRead, NotOverwritten,
           NotStale, Expected, Moved, BufferInv, UnbuiltInv, Tracking, Resetting,
           Reading, Syncing, CircularInv, TrackInv, Counted, WritePass,
           WriteNumber, Uncounted, Bit, CopyInv, SyncNumber, Synced, Remaining
  <1>2. CASE DmaWrite
    BY <1>2, WriteInv
  <1>3. CASE Interrupt
    BY <1>3, InterruptInv
  <1>4. CASE TakeCount
    BY <1>4, TakeCountInv
  <1>5. CASE len_fails \/ len_returns \/ read_begins
    BY <1>5, LenInv
  <1>6. CASE read_buf
    BY <1>6, CopyStep
  <1>7. CASE read_returns
    BY <1>7, ReturnInv
  <1>8. CASE reset_returns
    BY <1>8, ResetInv
  <1>9. CASE new
    BY <1>9, NewInv
  <1>10. CASE \/ Control \/ len \/ clear \/ read_exact_cancel
              \/ read_exact_poll \/ stop \/ stop_poll \/ poll_stop
              \/ \E n \in 1 .. MaxRead : read(n) \/ read_exact(n)
    BY <1>10, QuietInv
  <1>11. QED
    BY <1>1, <1>2, <1>3, <1>4, <1>5, <1>6, <1>7, <1>8, <1>9, <1>10
       DEF Next, TaskStep, Caller

\* The strengthened invariant holds throughout.
LEMMA Inductive ==
  ASSUME RaceFree, PriorTransfers = 0, ~ReadAfterStop
  PROVE  Spec => []IInv
  <1>1. Init => TypeOK /\ ReadableInv /\ IInv
    BY InitType, InitIInv
  <1>2. TypeOK /\ ReadableInv /\ IInv /\ [Next]_vars
          => TypeOK' /\ ReadableInv' /\ IInv'
    BY StepType, StepIInv
  <1>3. QED
    BY <1>1, <1>2, PTL DEF Spec

\* For every buffer size, read length and number of elements: a successful read
\* returns exactly the elements that follow the last ones returned, although the
\* controller writes into the buffer while read_buf copies out of it.  The
\* assumptions name the three ways the code does not ensure it.
THEOREM ReadsAreIntact ==
  ASSUME RaceFree, PriorTransfers = 0, ~ReadAfterStop
  PROVE  Spec => []IntactRead
  <1>1. IInv => IntactRead
    BY DEF IInv
  <1>2. QED
    BY <1>1, Inductive, PTL

\* Under the same assumptions no read returns, and no reset skips, more than the
\* controller has written since the ring was built.
THEOREM NothingIsInvented ==
  ASSUME RaceFree, PriorTransfers = 0, ~ReadAfterStop
  PROVE  Spec => []NothingInvented
  <1>1. IInv => NothingInvented
    BY DEF IInv, NothingInvented
  <1>2. QED
    BY <1>1, Inductive, PTL

-------------------------------------------------------------------------------
(* No wake-up of read_exact() is lost. *)

\* Elements whose arrival raises an interrupt: the last of a pass and the last
\* of its first half (the k-th element to arrive is the one before number k).
Boundary(k) == k % Cap \in {0, Half}

\* A poll of read_exact() registered its waker before it looked, and a pass that
\* its second dma_sync does not count has already woken it.
Polling ==
  pc \in {"len1", "len1_pos", "copy", "len2", "len2_pos", "parked"} /\ op = "exact"

WakeInv ==
  /\ \E q \in Nat : pass = q * Cap
  /\ pc = "parked" => op = "exact"
  /\ Polling => waker \/ woken
  /\ Polling /\ pc = "len2_pos" /\ complete_count # 0 => woken
  /\ NoLostWakeup

\* A dma_sync before which no pass went uncounted finds all that has arrived.
LEMMA SyncFindsAll ==
  ASSUME TypeOK, CircularInv, TrackInv, Syncing, complete_count = 0, ~tcif
  PROVE  SyncNumber = Moved
  <1>1. /\ pos \in Nat /\ count_diff \in Nat /\ complete_count + Bit(tcif) = 0
        /\ write_index.pos \in Nat
    BY DEF TypeOK, TaskTypeOK, ChannelTypeOK, Index, Bit
  <1>2. /\ SyncNumber \in Int
        /\ pass = SyncNumber - Synced.pos + (complete_count + Bit(tcif)) * Cap
        /\ pass = WritePass + count_diff * Cap
                     + (complete_count + Bit(tcif)) * Cap
    BY SyncFacts
  <1>3. 0 * Cap = 0
    BY CapPositive
  <1>4. Synced.pos = IF pos < write_index.pos /\ count_diff = 0 THEN Cap - 1 ELSE pos
    BY <1>1, CapPositive DEF Synced, dma_sync, Remaining
  <1>5. ASSUME count_diff = 0 PROVE write_index.pos <= pos
    <2>1. WritePass = pass
      <3>1. WriteNumber \in Int
        BY LowerType DEF WriteNumber, TypeOK, TaskTypeOK
      <3>2. QED
        BY <1>1, <1>2, <1>3, <1>5, <3>1 DEF WritePass
    <2>2. WriteNumber <= Moved /\ WriteNumber \in Int
      BY LowerType DEF TrackInv, WriteNumber, TypeOK, TaskTypeOK
    <2>3. pass \in Nat
      BY DEF TypeOK, ChannelTypeOK
    <2>4. QED
      BY <1>1, <2>1, <2>2, <2>3 DEF WritePass, Moved
  <1>6. Synced.pos = pos
    BY <1>1, <1>4, <1>5
  <1>7. pass \in Nat
    BY DEF TypeOK, ChannelTypeOK
  <1>8. pass = SyncNumber - pos
    BY <1>1, <1>2, <1>3, <1>6, <1>7
  <1>9. QED
    BY <1>1, <1>2, <1>7, <1>8 DEF Moved

\* The controller's step raises a flag when it passes a boundary.
LEMMA WriteWakes ==
  ASSUME TypeOK, IInv, IInv', WakeInv, DmaWrite
  PROVE  WakeInv'
  <1>1. /\ pos \in Nat /\ pass \in Nat /\ pos < Cap
        /\ UNCHANGED <<cr, complete_count, waker, woken, pc, op, write_index,
                       read_index, next>>
        /\ pos' = IF LastOfPass /\ cr.circ THEN 0 ELSE pos + 1
        /\ pass' = IF LastOfPass /\ cr.circ THEN pass + Cap ELSE pass
        /\ htif' = (htif \/ pos + 1 = Half)
        /\ tcif' = (tcif \/ LastOfPass)
    BY DEF DmaWrite, MoveElement, taskVars, TypeOK, ChannelTypeOK
  <1>2. PICK q \in Nat : pass = q * Cap
    BY DEF WakeInv
  <1>3. \E p \in Nat : pass' = p * Cap
    <2>1. q + 1 \in Nat /\ (q + 1) * Cap = q * Cap + Cap
      BY Passes
    <2>2. QED
      BY <1>1, <1>2, <2>1
  <1>4. Moved' = Moved + 1 /\ Moved \in Nat
    <2>1. Moved' = pass' + pos' /\ Moved = pass + pos
      BY DEF Moved
    <2>2. QED
      BY <1>1, <2>1, CapPositive DEF LastOfPass
  <1>5. ASSUME pc = "parked", Boundary(Moved + 1) PROVE IrqPending'
    <2>1. Moved + 1 = q * Cap + (pos + 1)
      BY <1>1, <1>2 DEF Moved
    <2>2. pos + 1 # Cap => (Moved + 1) % Cap = pos + 1
      <3>1. ASSUME pos + 1 < Cap PROVE (q * Cap + (pos + 1)) % Cap = pos + 1
        BY <1>1, <3>1, CapPositive, SMT
      <3>2. QED
        BY <1>1, <2>1, <3>1, CapPositive
    <2>3. pos + 1 = Cap \/ pos + 1 = Half
      BY <1>1, <1>5, <2>2, CapPositive DEF Boundary
    <2>4. cr.htie /\ cr.tcie
      BY <1>5 DEF IInv, Tracking, CircularInv
    <2>5. QED
      BY <1>1, <2>3, <2>4, Zenon DEF IrqPending, LastOfPass
  <1>6. IrqPending => IrqPending'
    BY <1>1, Zenon DEF IrqPending
  <1>7. NoLostWakeup'
    <2> SUFFICES ASSUME pc = "parked", ~woken, ~IrqPending',
                        NEW k \in WriteNumber' + 1 .. Moved'
                 PROVE  k % Cap \notin {0, Half}
      BY <1>1, CapPositive DEF NoLostWakeup, Half
    <2>1. WriteNumber' = WriteNumber /\ WriteNumber \in Int
      BY <1>1, LowerType DEF WriteNumber, TypeOK, TaskTypeOK
    <2>2. CASE k = Moved + 1
      BY <1>5, <2>2 DEF Boundary
    <2>3. CASE k # Moved + 1
      <3>1. k \in WriteNumber + 1 .. Moved
        BY <1>4, <2>1, <2>3
      <3>2. QED
        BY <1>6, <3>1 DEF WakeInv, NoLostWakeup
    <2>4. QED
      BY <2>2, <2>3
  <1>8. QED
    BY <1>1, <1>3, <1>7 DEF WakeInv, Polling

\* The handler wakes a task that has registered.
LEMMA InterruptWakes ==
  ASSUME TypeOK, WakeInv, Interrupt
  PROVE  WakeInv'
  <1>1. /\ UNCHANGED <<pc, op, pass>>
        /\ Wake
    BY DEF Interrupt, on_irq, on_irq_half, on_irq_complete, taskVars
  <1>2. Polling => woken'
    BY <1>1 DEF WakeInv, Wake
  <1>3. pc = "parked" => woken'
    BY <1>2 DEF WakeInv, Polling
  <1>4. QED
    BY <1>1, <1>2, <1>3 DEF WakeInv, Polling, NoLostWakeup

LEMMA NothingAfter ==
  ASSUME NEW n \in Nat
  PROVE  \A k \in n + 1 .. n : FALSE
  OBVIOUS

\* read_exact() goes to sleep having seen all that arrived, or woken.
LEMMA ReturnWakes ==
  ASSUME TypeOK, IInv, WakeInv, read_returns
  PROVE  WakeInv'
  <1>1. /\ UNCHANGED <<pos, pass, complete_count, waker, woken, op>>
        /\ pc = "len2_pos" /\ pc' \in {"parked", "idle"}
        /\ pc' = "parked" => op = "exact"
        /\ ~IrqPending
        /\ write_index' = SyncedWrite
        /\ read_index' = advance(SyncedRead, readable)
        /\ next' = next + readable
    BY DEF read_returns, channelVars
  <1>2. CircularInv /\ TrackInv
    BY <1>1 DEF IInv, Tracking, Reading
  <1>3. ~tcif
    BY <1>1, <1>2 DEF IrqPending, CircularInv
  <1>4. WriteNumber' = SyncNumber
    BY <1>1, <1>2, ReturnNumber
  <1>5. NoLostWakeup'
    <2>1. CASE complete_count = 0
      <3>1. WriteNumber' = Moved' /\ Moved' \in Nat
        BY <1>1, <1>2, <1>3, <1>4, <2>1, SyncFindsAll
           DEF Syncing, Moved, TypeOK, ChannelTypeOK
      <3>2. QED
        BY <3>1, NothingAfter, Zenon DEF NoLostWakeup
    <2>2. CASE complete_count # 0
      BY <1>1, <2>2 DEF WakeInv, Polling, NoLostWakeup
    <2>3. QED
      BY <2>1, <2>2
  <1>6. QED
    BY <1>1, <1>5 DEF WakeInv, Polling

\* The other steps neither put the task to sleep nor move the channel.
LEMMA OtherWakes ==
  ASSUME WakeInv,
         \/ TakeCount \/ len_fails \/ len_returns \/ read_begins \/ read_buf
         \/ reset_returns \/ new \/ Control \/ len \/ clear \/ stop
         \/ read_exact_cancel \/ read_exact_poll \/ stop_poll \/ poll_stop
         \/ \E n \in 1 .. MaxRead : read(n) \/ read_exact(n)
  PROVE  WakeInv'
  <1>1. pass' = pass \/ pass' = 0 * Cap
    BY CapPositive
       DEF TakeCount, len_fails, SyncFails, len_returns, read_begins, read_buf,
           reset_returns, new, configure_ring, Control, len, clear, stop, read,
           read_exact, Begin, read_exact_cancel, read_exact_poll, stop_poll,
           poll_stop, channelVars
  <1>2. pc' # "parked"
    BY DEF TakeCount, AfterCount, len_fails, SyncFails, len_returns, read_begins,
           read_buf, reset_returns, new, Control, len, clear, stop, read,
           read_exact, Begin, read_exact_cancel, read_exact_poll, stop_poll,
           poll_stop
  <1>3. Polling' => waker' \/ woken'
    <2>1. CASE read_exact_poll \/ \E n \in 1 .. MaxRead : read_exact(n)
      BY <2>1 DEF read_exact_poll, read_exact, Register
    <2>2. CASE TakeCount
      BY <2>2 DEF TakeCount, AfterCount, WakeInv, Polling
    <2>3. CASE len_fails \/ len_returns \/ read_begins \/ read_buf
      BY <2>3 DEF len_fails, SyncFails, len_returns, read_begins, read_buf,
                  WakeInv, Polling, channelVars
    <2>4. CASE \/ reset_returns \/ new \/ Control \/ len \/ clear \/ stop
               \/ read_exact_cancel \/ stop_poll \/ poll_stop
               \/ \E n \in 1 .. MaxRead : read(n)
      BY <2>4 DEF reset_returns, new, Control, len, clear, stop, stop_poll,
                  poll_stop, read_exact_cancel, read, Begin, Polling
    <2>5. QED
      BY <2>1, <2>2, <2>3, <2>4
  <1>4. pc' = "len2_pos" => complete_count' = 0
    BY DEF TakeCount, reset_complete_count, len_fails, SyncFails, len_returns,
           read_begins, read_buf, reset_returns, new, Control, len, clear, stop,
           read, read_exact, Begin, read_exact_cancel, read_exact_poll,
           stop_poll, poll_stop
  <1>5. \E q \in Nat : pass' = q * Cap
    BY <1>1 DEF WakeInv
  <1>6. QED
    BY <1>2, <1>3, <1>4, <1>5 DEF WakeInv, NoLostWakeup

LEMMA StepWakes ==
  ASSUME TypeOK, IInv, IInv', WakeInv, [Next]_vars
  PROVE  WakeInv'
  <1>1. CASE UNCHANGED vars
    BY <1>1 DEF vars, channelVars, taskVars, WakeInv, Polling, NoLostWakeup,
                IrqPending, WriteNumber, Moved
  <1>2. CASE DmaWrite
    BY <1>2, WriteWakes
  <1>3. CASE Interrupt
    BY <1>3, InterruptWakes
  <1>4. CASE read_returns
    BY <1>4, ReturnWakes
  <1>5. CASE Next /\ ~DmaWrite /\ ~Interrupt /\ ~read_returns
    BY <1>5, OtherWakes DEF Next, TaskStep, Caller
  <1>6. QED
    BY <1>1, <1>2, <1>3, <1>4, <1>5

\* For every buffer size and read length: a read_exact() that sleeps un-woken has
\* seen everything up to the last boundary the controller has passed, although
\* the boundary may be passed between any two steps of its poll.
THEOREM WakeupNeverLost ==
  ASSUME RaceFree, PriorTransfers = 0, ~ReadAfterStop
  PROVE  Spec => []NoLostWakeup
  <1>1. Init => TypeOK /\ ReadableInv /\ IInv
    BY InitType, InitIInv
  <1>2. Init => WakeInv
    <2>1. 0 * Cap = 0
      BY CapPositive
    <2>2. QED
      BY <2>1 DEF Init, ChannelInit, WakeInv, Polling, NoLostWakeup
  <1>3. TypeOK /\ ReadableInv /\ IInv /\ WakeInv /\ [Next]_vars
          => TypeOK' /\ ReadableInv' /\ IInv' /\ WakeInv'
    BY StepType, StepIInv, StepWakes
  <1>4. WakeInv => NoLostWakeup
    BY DEF WakeInv
  <1>5. QED
    BY <1>1, <1>2, <1>3, <1>4, PTL DEF Spec

-------------------------------------------------------------------------------
(* The ring implements SampleStream. *)

\* A reset has the reason that SampleStream asks for.
ResetReason == Resetting => status \in {"overrun", "clear"}

\* The number of elements that have arrived, as each kind of step changes it.
LEMMA WriteProduces ==
  ASSUME TypeOK, DmaWrite
  PROVE  Moved' = Moved + 1
  <1>1. /\ pos \in Nat /\ pass \in Nat
        /\ pos' = IF LastOfPass /\ cr.circ THEN 0 ELSE pos + 1
        /\ pass' = IF LastOfPass /\ cr.circ THEN pass + Cap ELSE pass
    BY CapPositive DEF DmaWrite, MoveElement, TypeOK, ChannelTypeOK
  <1>2. Moved = pass + pos /\ Moved' = pass' + pos'
    BY DEF Moved
  <1>3. QED
    BY <1>1, <1>2, CapPositive DEF LastOfPass

\* A failed look at the ring is an overrun: the indices are never out of sync.
LEMMA FailIsOverrun ==
  ASSUME TypeOK, IInv, len_fails
  PROVE  Moved - next > Cap /\ status' = "overrun"
  <1>1. /\ Syncing /\ Tracking
        /\ Available < 0 \/ Available > Cap
        /\ status' = IF Available < 0 THEN "unsynced" ELSE "overrun"
    BY DEF len_fails, SyncFails, Syncing, Tracking
  <1>2. CircularInv /\ TrackInv
    BY <1>1 DEF IInv
  <1>3. /\ SyncNumber \in Int /\ WriteNumber <= SyncNumber /\ SyncNumber <= Moved
        /\ Available = SyncNumber - next /\ next <= WriteNumber
    BY <1>1, <1>2, SyncFacts DEF TrackInv
  <1>4. WriteNumber \in Int /\ Moved \in Int /\ next \in Nat
    BY LowerType DEF TypeOK, TaskTypeOK, ChannelTypeOK, WriteNumber, Moved
  <1>5. QED
    BY <1>1, <1>3, <1>4, CapPositive

LEMMA StepReason ==
  ASSUME TypeOK, IInv, ResetReason, [Next]_vars
  PROVE  ResetReason'
  <1>1. CASE len_fails
    BY <1>1, FailIsOverrun DEF ResetReason
  <1>2. CASE clear
    BY <1>2 DEF clear, ResetReason
  <1>3. CASE TakeCount
    BY <1>3 DEF TakeCount, AfterCount, resultVars, ResetReason, Resetting
  <1>4. CASE UNCHANGED <<pc, status>>
    BY <1>4 DEF ResetReason, Resetting
  <1>5. CASE \/ len_returns \/ read_begins \/ read_buf \/ read_returns
             \/ reset_returns \/ new \/ Control \/ len \/ stop \/ stop_poll
             \/ poll_stop \/ read_exact_cancel \/ read_exact_poll
             \/ \E n \in 1 .. MaxRead : read(n) \/ read_exact(n)
    BY <1>5 DEF len_returns, read_begins, read_buf, read_returns, reset_returns,
                new, Control, len, stop, stop_poll, poll_stop, read_exact_cancel,
                read_exact_poll, read, read_exact, Begin, resultVars,
                ResetReason, Resetting
  <1>6. DmaWrite \/ Interrupt \/ UNCHANGED vars => UNCHANGED <<pc, status>>
    BY DEF DmaWrite, Interrupt, vars, taskVars
  <1>7. QED
    BY <1>1, <1>2, <1>3, <1>4, <1>5, <1>6 DEF Next, TaskStep, Caller

\* A read that returns delivers what SampleStream lets it deliver.
LEMMA ReturnDelivers ==
  ASSUME TypeOK, IInv, read_returns
  PROVE  \E n \in 0 .. Cap : Stream!Deliver(n)
  <1>1. /\ next' = next + readable /\ delivered' = out /\ status' = "ok"
        /\ UNCHANGED <<pos, pass>>
    BY DEF read_returns, channelVars
  <1>2. /\ readable \in 0 .. Cap /\ out \in Seq(Int) /\ next \in Nat
        /\ Moved \in Int
    BY DEF TypeOK, TaskTypeOK, ChannelTypeOK, Moved
  <1>3. /\ Len(out) = readable /\ next + readable <= Moved
        /\ \A i \in 1 .. Len(out) : out[i] = next + i - 1
    BY ReturnedElements
  <1>4. out = [i \in 1 .. readable |-> next + i - 1]
    BY <1>2, <1>3
  <1>5. readable <= Moved - next
    BY <1>2, <1>3, CapPositive
  <1>6. Moved' = Moved
    BY <1>1 DEF Moved
  <1>7. QED
    BY <1>1, <1>2, <1>4, <1>5, <1>6 DEF Stream!Deliver

\* Every step of the ring is a step of the stream, or changes nothing it shows.
LEMMA StepStream ==
  ASSUME TypeOK, IInv, ResetReason, [Next]_vars
  PROVE  [Stream!StreamNext]_(Stream!streamVars)
  <1>1. CASE DmaWrite
    BY <1>1, WriteProduces
       DEF DmaWrite, taskVars, Stream!StreamNext, Stream!Produce
  <1>2. CASE read_returns
    BY <1>2, ReturnDelivers DEF Stream!StreamNext
  <1>3. CASE len_fails
    BY <1>3, FailIsOverrun
       DEF len_fails, SyncFails, channelVars, Moved, Stream!StreamNext, Stream!Fail
  <1>4. CASE clear
    BY <1>4 DEF clear, channelVars, indexVars, Begin, Moved, Stream!StreamNext,
                Stream!Clear
  <1>5. CASE reset_returns
    BY <1>5 DEF reset_returns, channelVars, Moved, ResetReason, Resetting,
                Stream!StreamNext, Stream!Discard
  <1>6. CASE new
    BY <1>6 DEF new, configure_ring, resultVars, IInv, UnbuiltInv, Moved,
                Stream!streamVars
  <1>7. CASE \/ Interrupt \/ TakeCount \/ len_returns \/ read_begins \/ read_buf
             \/ Control \/ len \/ stop \/ stop_poll \/ poll_stop
             \/ read_exact_cancel \/ read_exact_poll
             \/ \E n \in 1 .. MaxRead : read(n) \/ read_exact(n)
    <2>1. UNCHANGED <<pos, pass, next, delivered, status>>
      BY <1>7 DEF Interrupt, on_irq, on_irq_half, on_irq_complete, TakeCount,
                  len_returns, read_begins, read_buf, Control, len, stop,
                  stop_poll, poll_stop, read_exact_cancel, read_exact_poll, read,
                  read_exact, channelVars, indexVars, resultVars, taskVars, Begin
    <2>2. QED
      BY <2>1 DEF Moved, Stream!streamVars
  <1>8. CASE UNCHANGED vars
    BY <1>8 DEF vars, channelVars, taskVars, Moved, Stream!streamVars
  <1>9. QED
    BY <1>1, <1>2, <1>3, <1>4, <1>5, <1>6, <1>7, <1>8 DEF Next, TaskStep, Caller

\* The ring keeps the promise of SampleStream, for every buffer size, read length
\* and number of elements: each element is returned once and in order, unless an
\* overrun that really happened, or clear(), skips it.
THEOREM ImplementsStream ==
  ASSUME RaceFree, PriorTransfers = 0, ~ReadAfterStop
  PROVE  Spec => StreamSpec
  <1>1. Init => TypeOK /\ ReadableInv /\ IInv /\ ResetReason
    <2>1. Init => ResetReason
      BY DEF Init, ResetReason, Resetting
    <2>2. QED
      BY <2>1, InitType, InitIInv
  <1>2. TypeOK /\ ReadableInv /\ IInv /\ ResetReason /\ [Next]_vars
          => TypeOK' /\ ReadableInv' /\ IInv' /\ ResetReason'
    BY StepType, StepIInv, StepReason
  <1>3. Init => Stream!StreamInit
    BY DEF Init, ChannelInit, Moved, Stream!StreamInit
  <1>4. TypeOK /\ IInv /\ ResetReason /\ [Next]_vars
          => [Stream!StreamNext]_(Stream!streamVars)
    BY StepStream
  <1>5. QED
    BY <1>1, <1>2, <1>3, <1>4, PTL DEF Spec, StreamSpec, Stream!StreamSpec

===============================================================================
