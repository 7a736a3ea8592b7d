------------------------------ MODULE DmaWriter ------------------------------
(***************************************************************************)
(* WritableRingBuffer: a task fills, concurrently with the DMA controller  *)
(* that empties it and with its interrupt handler, a circular buffer.  The *)
(* task's accesses to what these touch are steps of their own: taking the  *)
(* completion counter, reading NDTR, writing one element.                  *)
(*                                                                         *)
(* Elements are numbered by their place in the outgoing stream, so that    *)
(* the controller sends element k from slot k % Cap.  The channel ran no   *)
(* plain transfer before.  Two coincidences are excluded, as for the       *)
(* reader: a wrap between the two loads of the second len() of a write     *)
(* that the controller has already overtaken, and of the one in reset().   *)
(***************************************************************************)
EXTENDS DmaChannel

CONSTANT MaxWrite    \* bound: longest buffer the caller passes to a write

ASSUME WriterAssumption == MaxWrite \in Nat \ {0}

VARIABLES
  wpc,          \* where the task is in the operation in progress
  wop,          \* the operation: write, exact, len, error (wait_write_error), clear, none
  want,         \* elements the caller still has
  count_diff,   \* completions taken by the dma_sync in progress
  read_index,
  write_index,
  writable,     \* elements the write in progress writes
  copied,       \* and how many of them it has written
  slots,        \* dma_buf: the number of the element in each slot, or -1
  next,         \* number of the element at write_index
  base,         \* ghost: the elements before it are whatever the buffer held
  missed,       \* ghost: elements that were not in their slot when they were sent
  outcome       \* outcome of the last operation

ringVars == <<read_index, write_index, next>>
ghostVars == <<base, missed>>
writerVars == <<channelVars, wpc, wop, want, count_diff, ringVars, writable, copied, slots,
                ghostVars, outcome>>

Straddles ==
  /\ LastOfPass
  /\ (wpc = "len2_pos" /\ missed # {}) \/ wpc = "resync_pos"

\* The controller sends the content of the next slot.
DmaRead ==
  /\ ~Straddles
  /\ MoveElement
  /\ missed' = IF Moved >= base /\ slots[pos] # Moved THEN missed \cup {Moved} ELSE missed
  /\ UNCHANGED <<wpc, wop, want, count_diff, ringVars, writable, copied, slots, base, outcome>>

DmaInterrupt ==
  /\ on_irq
  /\ UNCHANGED <<wpc, wop, want, count_diff, ringVars, writable, copied, slots, ghostVars, outcome>>

-------------------------------------------------------------------------------
(* The life of the ring buffer.                                            *)

\* A new ring counts as full of what the buffer holds.
FirstWrite == [complete_count |-> 0, pos |-> Cap]

ring_new ==
  /\ wpc = "unbuilt" /\ wpc' = "idle"
  /\ configure_ring
  /\ read_index' = ZeroIndex /\ write_index' = FirstWrite
  /\ next' = diff(FirstWrite, ZeroIndex) /\ base' = next'
  /\ UNCHANGED <<wop, want, count_diff, writable, copied, slots, missed, outcome>>

\* start(), request_pause() and the drop: one register write each.
ring_control ==
  /\ ~IrqPending
  /\ \/ wpc = "idle" /\ ~cr.en /\ cr.circ /\ start /\ wpc' = wpc
     \/ wpc = "idle" /\ cr.en /\ request_pause /\ wpc' = wpc
     \/ wpc \in {"idle", "stopped"} /\ request_stop /\ wpc' = "closed"
  /\ UNCHANGED <<htif, tcif, pos, pass, complete_count, waker, woken, wop, want, count_diff,
                 ringVars, writable, copied, slots, ghostVars, outcome>>

\* "This can be used to fill the buffer before starting the DMA transfer": the
\* last elements of the buffer are the caller's.
write_immediate(n) ==
  /\ wpc = "idle" /\ ~cr.en /\ Moved = 0 /\ n <= Cap
  /\ LET first == Cap - n
         place == [i \in first .. Cap - 1 |-> as_index(write_index, i)] IN
     /\ slots' = [s \in DOMAIN slots |->
                    IF \E i \in DOMAIN place : place[i] = s
                    THEN CHOOSE i \in DOMAIN place : place[i] = s ELSE slots[s]]
     /\ base' = IF first < base THEN first ELSE base
  /\ UNCHANGED <<channelVars, wpc, wop, want, count_diff, ringVars, writable, copied, missed,
                 outcome>>

-------------------------------------------------------------------------------
(* Operations begin.                                                       *)

WriterRuns == ~IrqPending /\ UNCHANGED <<slots, ghostVars>>

\* The operation ends in step to, or a future waits there.
WriterReturns(to) ==
  /\ wpc' = to
  /\ wop' = IF to = "parked" THEN wop ELSE "none"
  /\ count_diff' = 0 /\ writable' = 0 /\ copied' = 0

write_begins(operation, n, first) ==
  /\ WriterRuns
  /\ wpc = "idle" /\ wpc' = first
  /\ wop' = operation /\ want' = n
  /\ IF operation \in {"exact", "error"} THEN Register ELSE UNCHANGED <<waker, woken>>
  /\ UNCHANGED <<cr, htif, tcif, pos, pass, complete_count, count_diff, ringVars, writable,
                 copied, outcome>>

\* Every poll of a future registers the waker before it looks.
write_repoll ==
  /\ WriterRuns
  /\ wpc = "parked" /\ woken /\ wpc' = "len1"
  /\ Register
  /\ UNCHANGED <<cr, htif, tcif, pos, pass, complete_count, wop, want, count_diff, ringVars,
                 writable, copied, outcome>>

write_cancelled ==
  /\ WriterRuns
  /\ wpc = "parked" /\ WriterReturns("idle") /\ want' = 0
  /\ UNCHANGED <<channelVars, ringVars, outcome>>

-------------------------------------------------------------------------------
(* WritableDmaRingBuffer::len, write_raw and reset.                        *)

NextLoad == [len1 |-> "len1_pos", len2 |-> "len2_pos", reset |-> "resync",
             resync |-> "resync_pos"]

\* The first load of dma_sync; reset() takes the counter twice.
take_count ==
  /\ WriterRuns
  /\ wpc \in DOMAIN NextLoad /\ wpc' = NextLoad[wpc]
  /\ count_diff' = complete_count /\ reset_complete_count
  /\ UNCHANGED <<cr, htif, tcif, pos, pass, waker, woken, wop, want, ringVars, writable, copied,
                 outcome>>

\* The second load, with the indices normalized, and what they say.
SyncedRead == dma_sync(read_index, count_diff, Remaining)
LowestCount == MinCount(SyncedRead, write_index)
Queued == diff(Lower(write_index, LowestCount), Lower(SyncedRead, LowestCount))
Space == Cap - Queued

StoreSynced == read_index' = Lower(SyncedRead, LowestCount)

\* write() resets the buffer, len() and wait_write_error() only report.
sync_fails ==
  /\ WriterRuns
  /\ wpc \in {"len1_pos", "len2_pos"} /\ Queued \notin 0 .. Cap
  /\ outcome' = IF Queued < 0 THEN "overrun" ELSE "unsynced"
  /\ WriterReturns(IF wop \in {"len", "error"} THEN "idle" ELSE "reset") /\ want' = 0
  /\ StoreSynced /\ write_index' = Lower(write_index, LowestCount)
  /\ UNCHANGED <<channelVars, next>>

len_or_wait ==
  /\ WriterRuns
  /\ wpc = "len1_pos" /\ wop \in {"len", "error"} /\ Queued \in 0 .. Cap
  /\ WriterReturns(IF wop = "len" THEN "idle" ELSE "parked")
  /\ outcome' = "ok"
  /\ StoreSynced /\ write_index' = Lower(write_index, LowestCount)
  /\ UNCHANGED <<channelVars, want, next>>

write_starts ==
  /\ WriterRuns
  /\ wpc = "len1_pos" /\ wop \in {"write", "exact"} /\ Queued \in 0 .. Cap
  /\ writable' = IF Space <= want THEN Space ELSE want
  /\ wpc' = IF writable' = 0 THEN "len2" ELSE "copy"
  /\ StoreSynced /\ write_index' = Lower(write_index, LowestCount)
  /\ count_diff' = 0
  /\ UNCHANGED <<channelVars, wop, want, next, copied, outcome>>

write_buf ==
  /\ ~IrqPending
  /\ wpc = "copy"
  /\ slots' = [slots EXCEPT ![as_index(write_index, copied)] = next + copied]
  /\ copied' = copied + 1
  /\ wpc' = IF copied' = writable THEN "len2" ELSE "copy"
  /\ UNCHANGED <<channelVars, wop, want, count_diff, ringVars, writable, ghostVars, outcome>>

\* Mutant: the write succeeds without a second look at the controller.
write_returns_unchecked ==
  /\ WriterRuns
  /\ wpc = "len2_pos"
  /\ UNCHANGED read_index
  /\ write_index' = advance(write_index, writable)
  /\ next' = next + writable
  /\ IF wop = "exact" /\ want # writable
     THEN WriterReturns("parked") /\ want' = want - writable
     ELSE WriterReturns("idle") /\ want' = 0
  /\ outcome' = "ok"
  /\ UNCHANGED channelVars

\* The second len() found the controller still behind.
write_returns ==
  /\ WriterRuns
  /\ wpc = "len2_pos" /\ Queued \in 0 .. Cap
  /\ StoreSynced /\ write_index' = advance(Lower(write_index, LowestCount), writable)
  /\ next' = next + writable
  /\ IF wop = "exact" /\ want # writable
     THEN WriterReturns("parked") /\ want' = want - writable
     ELSE WriterReturns("idle") /\ want' = 0
  /\ outcome' = "ok"
  /\ UNCHANGED channelVars

\* "The buffer after the reset will be full".
reset_returns ==
  /\ ~IrqPending
  /\ wpc = "resync_pos" /\ WriterReturns("idle")
  /\ read_index' = dma_sync(ZeroIndex, count_diff, Remaining)
  /\ write_index' = advance(read_index', Cap)
  /\ next' = Moved + Cap /\ base' = next' /\ missed' = {}
  /\ outcome' = "ok"
  /\ UNCHANGED <<channelVars, want, slots>>

-------------------------------------------------------------------------------
(* stop(): leave circular mode and wait for the end of the pass.           *)

ring_stop ==
  /\ WriterRuns
  /\ wpc = "idle" /\ cr.circ /\ wpc' = "stop"
  /\ disable_circular_mode
  /\ UNCHANGED <<htif, tcif, pos, pass, complete_count, waker, woken, wop, want, count_diff,
                 ringVars, writable, copied, outcome>>

ring_stop_poll ==
  /\ WriterRuns
  /\ wpc = "stop" \/ (wpc = "stop_parked" /\ woken)
  /\ wpc' = "stop_check" /\ Register
  /\ UNCHANGED <<cr, htif, tcif, pos, pass, complete_count, wop, want, count_diff, ringVars,
                 writable, copied, outcome>>

ring_poll_stop ==
  /\ WriterRuns
  /\ wpc = "stop_check" /\ wpc' = IF cr.en THEN "stop_parked" ELSE "stopped"
  /\ UNCHANGED <<channelVars, wop, want, count_diff, ringVars, writable, copied, outcome>>

-------------------------------------------------------------------------------
WriterInit ==
  /\ ChannelInit(0)
  /\ wpc = "unbuilt" /\ wop = "none" /\ want = 0 /\ count_diff = 0
  /\ read_index = ZeroIndex /\ write_index = ZeroIndex /\ next = 0
  /\ writable = 0 /\ copied = 0 /\ slots = [s \in 0 .. Cap - 1 |-> -1]
  /\ base = 0 /\ missed = {} /\ outcome = "ok"

WriterNext ==
  \/ DmaRead \/ DmaInterrupt
  \/ ring_new \/ ring_control
  \/ \E n \in 1 .. MaxWrite :
       write_immediate(n) \/ write_begins("write", n, "len1") \/ write_begins("exact", n, "len1")
  \/ write_begins("len", 0, "len1") \/ write_begins("error", 0, "len1")
  \/ write_begins("clear", 0, "reset")
  \/ write_repoll \/ write_cancelled
  \/ take_count \/ sync_fails \/ len_or_wait \/ write_starts \/ write_buf
  \/ write_returns \/ reset_returns
  \/ ring_stop \/ ring_stop_poll \/ ring_poll_stop

-------------------------------------------------------------------------------
\* A write succeeds only if each of its elements was in its slot before the
\* controller came there ("Error is returned if the portion to be written was
\* previously read by the DMA controller"); an overrun is reported only if the
\* controller has sent something the last write did not reach (in a write, also if
\* it has just been written), and the error for impossible positions never; a task
\* that waits un-woken has seen every half-buffer boundary the controller passed.
WriterContract ==
  /\ wpc = "idle" => \A k \in missed : k >= next
  /\ outcome = "overrun" => Moved > next
  /\ outcome # "unsynced"
  /\ wpc = "parked" /\ ~woken /\ ~IrqPending =>
       \A k \in next - diff(write_index, read_index) + 1 .. Moved : k % Cap \notin {0, Half}

================================================================================
