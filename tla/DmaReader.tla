------------------------------- MODULE DmaReader -------------------------------
(***************************************************************************)
(* ReadableRingBuffer: a task reads, in program order but concurrently     *)
(* with the DMA controller and its interrupt handler, the elements the     *)
(* controller writes into a circular buffer.  Every access of the task to  *)
(* something the controller or the handler also touches is a step of its   *)
(* own: taking the completion counter, reading NDTR, copying one element.  *)
(***************************************************************************)
EXTENDS DmaChannel, Sequences

CONSTANTS
  MaxRead,        \* bound: longest buffer the caller passes to a read
  PriorTransfers, \* plain transfers run on the channel before the ring is built
  RaceFree,       \* the two loads of dma_sync never straddle a second wrap
  ReadAfterStop   \* the caller goes on using the ring after stop() returned

ASSUME ReaderAssumption ==
  /\ MaxRead \in Nat \ {0}
  /\ PriorTransfers \in Nat
  /\ RaceFree \in BOOLEAN
  /\ ReadAfterStop \in BOOLEAN

VARIABLES
  pc,           \* where the task is in the operation in progress
  op,           \* the operation in progress: read, exact, len or clear
  want,         \* elements the caller's buffer still has room for
  count_diff,   \* completions taken by the dma_sync in progress
  write_index,
  read_index,
  readable,     \* elements the read in progress returns
  out,          \* the elements copied by the read in progress
  buf,          \* dma_buf: the number of the element in each slot, or -1
  next,         \* number of the element at read_index
  delivered,    \* elements returned by the last successful read
  status        \* outcome of the last operation

indexVars == <<write_index, read_index, next>>
resultVars == <<delivered, status>>
taskVars == <<pc, op, want, count_diff, write_index, read_index, readable,
              out, next, delivered, status>>
vars == <<channelVars, taskVars, buf>>

\* The number of the element at write_index.
WriteNumber == next + diff(write_index, read_index)

-------------------------------------------------------------------------------
(* The controller writes the next element into its slot.                   *)
(*                                                                         *)
(* RaceFree excludes two coincidences the code does not: an element moved  *)
(* between the two loads of a dma_sync when the controller is already a    *)
(* whole pass ahead of write_index, and a wrap between the two loads of    *)
(* the dma_sync in reset().                                                *)

Straddles ==
  \/ pc \in {"len1_pos", "len2_pos"} /\ Moved + 1 >= WriteNumber + Cap
  \/ pc = "resync_pos" /\ LastOfPass

DmaWrite ==
  /\ RaceFree => ~Straddles
  /\ MoveElement
  /\ buf' = [buf EXCEPT ![pos] = Moved]
  /\ UNCHANGED taskVars

Interrupt == on_irq /\ UNCHANGED <<taskVars, buf>>

-------------------------------------------------------------------------------
(* The life of the ring buffer. *)

new ==
  /\ pc = "unbuilt"
  /\ configure_ring
  /\ write_index' = ZeroIndex
  /\ read_index' = ZeroIndex
  /\ pc' = "idle"
  /\ UNCHANGED <<op, want, count_diff, next, readable, out, resultVars, buf>>

\* start(), request_pause() and the drop: one register write each.
Control ==
  /\ ~IrqPending
  /\ \/ pc = "idle" /\ ~cr.en /\ cr.circ /\ start /\ pc' = pc
     \/ pc = "idle" /\ cr.en /\ request_pause /\ pc' = pc
     \/ pc \in {"idle", "stopped"} /\ request_stop /\ pc' = "closed"
  /\ UNCHANGED <<htif, tcif, pos, pass, complete_count, waker, woken, op, want,
                 count_diff, indexVars, readable, out, resultVars, buf>>

-------------------------------------------------------------------------------
(* Operations begin. *)

Begin(operation, first) ==
  /\ ~IrqPending
  /\ pc = "idle"
  /\ op' = operation
  /\ pc' = first
  /\ out' = <<>>

read(n) ==
  /\ Begin("read", "len1")
  /\ want' = n
  /\ UNCHANGED <<channelVars, count_diff, indexVars, readable, resultVars,
                 buf>>

\* Every poll of the future registers the waker before it looks.
read_exact(n) ==
  /\ Begin("exact", "len1")
  /\ want' = n
  /\ Register
  /\ UNCHANGED <<cr, htif, tcif, pos, pass, complete_count, count_diff,
                 indexVars, readable, resultVars, buf>>

\* Mutant: only the first poll registers the waker.
read_exact_poll_once ==
  /\ ~IrqPending
  /\ pc = "parked"
  /\ woken
  /\ woken' = FALSE
  /\ pc' = "len1"
  /\ out' = <<>>
  /\ UNCHANGED <<cr, htif, tcif, pos, pass, complete_count, waker, op, want,
                 count_diff, indexVars, readable, resultVars, buf>>

read_exact_poll ==
  /\ ~IrqPending
  /\ pc = "parked"
  /\ woken
  /\ Register
  /\ pc' = "len1"
  /\ out' = <<>>
  /\ UNCHANGED <<cr, htif, tcif, pos, pass, complete_count, op, want,
                 count_diff, indexVars, readable, resultVars, buf>>

\* The caller drops the pending future.
read_exact_cancel ==
  /\ ~IrqPending
  /\ pc = "parked"
  /\ pc' = "idle"
  /\ UNCHANGED <<channelVars, op, want, count_diff, indexVars, readable, out,
                 resultVars, buf>>

len ==
  /\ Begin("len", "len1")
  /\ UNCHANGED <<channelVars, want, count_diff, indexVars, readable,
                 resultVars, buf>>

clear ==
  /\ Begin("clear", "reset")
  /\ status' = "clear"
  /\ delivered' = <<>>
  /\ UNCHANGED <<channelVars, want, count_diff, indexVars, readable, buf>>

-------------------------------------------------------------------------------
(* The steps of ReadableDmaRingBuffer::len, read_raw and reset. *)

AfterCount == [len1 |-> "len1_pos", len2 |-> "len2_pos",
               reset |-> "resync", resync |-> "resync_pos"]

\* The first load of dma_sync.  reset() takes the counter twice and drops
\* what it got the first time.
TakeCount ==
  /\ ~IrqPending
  /\ pc \in DOMAIN AfterCount
  /\ count_diff' = complete_count
  /\ reset_complete_count
  /\ pc' = AfterCount[pc]
  /\ UNCHANGED <<cr, htif, tcif, pos, pass, waker, woken, op, want, indexVars,
                 readable, out, resultVars, buf>>

\* The indices as the second load of dma_sync leaves them, normalized.
Synced == dma_sync(write_index, count_diff, Remaining)
SyncedWrite == Lower(Synced, MinCount(Synced, read_index))
SyncedRead == Lower(read_index, MinCount(Synced, read_index))
Available == diff(SyncedWrite, SyncedRead)

StoreSynced == write_index' = SyncedWrite /\ read_index' = SyncedRead

\* The error path: read() resets the buffer, len() only reports.
SyncFails ==
  /\ Available < 0 \/ Available > Cap
  /\ status' = IF Available < 0 THEN "unsynced" ELSE "overrun"
  /\ delivered' = <<>>
  /\ pc' = IF op = "len" THEN "idle" ELSE "reset"
  /\ StoreSynced
  /\ UNCHANGED <<channelVars, op, want, count_diff, readable, out, next, buf>>

len_fails ==
  /\ ~IrqPending
  /\ pc \in {"len1_pos", "len2_pos"}
  /\ SyncFails

len_returns ==
  /\ ~IrqPending
  /\ pc = "len1_pos" /\ op = "len"
  /\ Available \in 0 .. Cap
  /\ StoreSynced
  /\ pc' = "idle"
  /\ UNCHANGED <<channelVars, op, want, count_diff, readable, out, next,
                 resultVars, buf>>

\* Mutant: the caller's buffer does not limit the read.
read_begins_unlimited ==
  /\ ~IrqPending
  /\ pc = "len1_pos" /\ op # "len"
  /\ Available \in 0 .. Cap
  /\ StoreSynced
  /\ readable' = Available
  /\ pc' = IF readable' = 0 THEN "len2" ELSE "copy"
  /\ UNCHANGED <<channelVars, op, want, count_diff, out, next, resultVars,
                 buf>>

read_begins ==
  /\ ~IrqPending
  /\ pc = "len1_pos" /\ op # "len"
  /\ Available \in 0 .. Cap
  /\ StoreSynced
  /\ readable' = IF Available <= want THEN Available ELSE want
  /\ pc' = IF readable' = 0 THEN "len2" ELSE "copy"
  /\ UNCHANGED <<channelVars, op, want, count_diff, out, next, resultVars,
                 buf>>

read_buf ==
  /\ ~IrqPending
  /\ pc = "copy"
  /\ out' = Append(out, buf[as_index(read_index, Len(out))])
  /\ pc' = IF Len(out') = readable THEN "len2" ELSE "copy"
  /\ UNCHANGED <<channelVars, op, want, count_diff, indexVars, readable,
                 resultVars, buf>>

\* Mutant: the elements are returned without looking again.
read_returns_unchecked ==
  /\ ~IrqPending
  /\ pc = "len2_pos"
  /\ UNCHANGED <<channelVars, op, count_diff, readable, out, write_index, buf>>
  /\ read_index' = advance(read_index, readable)
  /\ next' = next + readable
  /\ delivered' = out
  /\ status' = "ok"
  /\ want' = want - readable
  /\ pc' = IF op = "exact" /\ want' # 0 THEN "parked" ELSE "idle"

\* The second len() found the copied elements still intact.  read_exact
\* stays pending until its buffer is full.
read_returns ==
  /\ ~IrqPending
  /\ pc = "len2_pos"
  /\ Available \in 0 .. Cap
  /\ write_index' = SyncedWrite
  /\ read_index' = advance(SyncedRead, readable)
  /\ next' = next + readable
  /\ delivered' = out
  /\ status' = "ok"
  /\ want' = want - readable
  /\ pc' = IF op = "exact" /\ want' # 0 THEN "parked" ELSE "idle"
  /\ UNCHANGED <<channelVars, op, count_diff, readable, out, buf>>

\* reset()'s dma_sync starts from a zero write_index.
reset_returns ==
  /\ ~IrqPending
  /\ pc = "resync_pos"
  /\ write_index' = dma_sync(ZeroIndex, count_diff, Remaining)
  /\ read_index' = write_index'
  /\ next' = Moved
  /\ status' = "ok"
  /\ delivered' = <<>>
  /\ pc' = "idle"
  /\ UNCHANGED <<channelVars, op, want, count_diff, readable, out, buf>>

-------------------------------------------------------------------------------
(* stop(): leave circular mode and wait for the end of the pass. *)

stop ==
  /\ ~IrqPending
  /\ pc = "idle" /\ cr.circ
  /\ disable_circular_mode
  /\ pc' = "stop"
  /\ UNCHANGED <<htif, tcif, pos, pass, complete_count, waker, woken, op, want,
                 count_diff, indexVars, readable, out, resultVars, buf>>

stop_poll ==
  /\ ~IrqPending
  /\ pc = "stop" \/ (pc = "stop_parked" /\ woken)
  /\ Register
  /\ pc' = "stop_check"
  /\ UNCHANGED <<cr, htif, tcif, pos, pass, complete_count, op, want,
                 count_diff, indexVars, readable, out, resultVars, buf>>

poll_stop ==
  /\ ~IrqPending
  /\ pc = "stop_check"
  /\ pc' = IF cr.en THEN "stop_parked"
           ELSE IF ReadAfterStop THEN "idle" ELSE "stopped"
  /\ UNCHANGED <<channelVars, op, want, count_diff, indexVars, readable, out,
                 resultVars, buf>>

-------------------------------------------------------------------------------
Init ==
  /\ ChannelInit(PriorTransfers)
  /\ pc = "unbuilt"
  /\ op = "len"
  /\ want = 0
  /\ count_diff = 0
  /\ write_index = ZeroIndex
  /\ read_index = ZeroIndex
  /\ readable = 0
  /\ out = <<>>
  /\ buf = [s \in 0 .. Cap - 1 |-> -1]
  /\ next = 0
  /\ delivered = <<>>
  /\ status = "ok"

\* What the task does of its own accord once an operation has begun.
TaskStep ==
  \/ TakeCount \/ len_fails \/ len_returns \/ read_begins \/ read_buf
  \/ read_returns \/ reset_returns \/ read_exact_poll \/ stop_poll \/ poll_stop

Caller ==
  \/ new \/ Control
  \/ \E n \in 1 .. MaxRead : read(n) \/ read_exact(n)
  \/ len \/ clear \/ stop \/ read_exact_cancel

Next == DmaWrite \/ Interrupt \/ TaskStep \/ Caller

\* The peripheral keeps producing, the interrupt is served and the executor
\* runs a task that is not waiting.
Fairness == WF_vars(DmaWrite) /\ WF_vars(Interrupt) /\ WF_vars(TaskStep)

Spec == Init /\ [][Next]_vars

FairSpec == Spec /\ Fairness

-------------------------------------------------------------------------------
(* Properties. *)

TaskTypeOK ==
  /\ pc \in {"unbuilt", "idle", "len1", "len1_pos", "copy", "len2", "len2_pos",
             "reset", "resync", "resync_pos", "parked", "stop", "stop_check",
             "stop_parked", "stopped", "closed"}
  /\ op \in {"read", "exact", "len", "clear"}
  /\ want \in 0 .. MaxRead
  /\ count_diff \in Nat
  /\ write_index \in Index /\ write_index.pos <= Cap
  /\ read_index \in Index /\ read_index.pos <= Cap
  /\ readable \in 0 .. Cap
  /\ out \in Seq(Int)
  /\ next \in Nat
  /\ delivered \in Seq(Int)
  /\ status \in {"ok", "overrun", "unsynced", "clear"}

\* Types of the channel's, the task's and the buffer's variables: an index never
\* leaves the buffer, and a read never fills more than the caller's buffer.
TypeOK ==
  /\ ChannelTypeOK
  /\ TaskTypeOK
  /\ buf \in [0 .. Cap - 1 -> Int]

\* The number of the i-th element a faithful last read would have returned.
Expected(i) == next - Len(delivered) + i - 1

\* No successful read returns an element that was overwritten before it was
\* copied: "Error is returned if the portion to be read was overwritten by the
\* DMA controller".
NotOverwritten == \A i \in 1 .. Len(delivered) : delivered[i] <= Expected(i)

\* No successful read returns an element a second time, or one that was skipped
\* by a reset ("Reset the ring buffer to its initial state").
NotStale == \A i \in 1 .. Len(delivered) : delivered[i] >= Expected(i)

\* What a successful read returned are the elements that followed the last ones
\* returned, in order, while the controller went on writing into the buffer.
IntactRead == NotOverwritten /\ NotStale

\* No read returns, or reset skips, more than the controller has written since
\* the ring was built: "Construct an empty buffer".
NothingInvented == next <= Moved

\* An overrun is reported only if an unread element has been overwritten.
OverrunIsReal ==
  [][status' = "overrun" /\ status # "overrun" => Moved - next > Cap]_vars

\* The ring keeps the promise of SampleStream: only elements that have arrived
\* are returned, each once and in order, and an overrun is reported only when an
\* unread element was really overwritten.
Stream == INSTANCE SampleStream WITH produced <- Moved
StreamSpec == Stream!StreamSpec

\* A read_exact() that waits un-woken has seen everything up to the last
\* half-buffer boundary the controller has passed: "this function may need up to
\* N/2 extra elements to arrive", and never more.
NoLostWakeup ==
  pc = "parked" /\ ~woken /\ ~IrqPending =>
    \A k \in WriteNumber + 1 .. Moved : k % Cap \notin {0, Half}

\* While the peripheral keeps producing, stop() returns.
StopCompletes == pc = "stop" ~> pc \in {"idle", "stopped"}

===============================================================================
