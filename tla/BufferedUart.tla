----------------------------- MODULE BufferedUart -----------------------------
(***************************************************************************)
(* The buffered UART: a reading and a writing task, one interrupt handler  *)
(* between them and the peripheral, and a ring buffer in each direction.   *)
(*                                                                         *)
(* The tasks run on one executor, so at most one poll is in progress; the  *)
(* handler preempts it, and the line goes on under both.  The bytes of a   *)
(* direction are only counted: written, popped and sent number those of    *)
(* the transmitter; arrived, taken, rx_len, lost and cleared those of the  *)
(* receiver.                                                               *)
(***************************************************************************)
EXTENDS Integers

CONSTANTS
  RxLen, TxLen,  \* lengths of the two ring buffers
  Quiet,         \* set_config and drop only while nothing is being transmitted
  BlockingWrite, \* the writing task uses blocking_write as well as write
  MaxArrived,    \* bound: bytes received in a life of the driver
  MaxWritten     \* bound: bytes written in a life of the driver

ASSUME BufferedUartAssumption ==
  /\ RxLen \in Nat \ {0} /\ TxLen \in Nat \ {0}
  /\ {Quiet, BlockingWrite} \subseteq BOOLEAN
  /\ MaxArrived \in Nat /\ MaxWritten \in Nat

VARIABLES
  arrived, taken, rx_len, lost,  \* bytes received, read, in rx_buf, and lost
  cleared,                       \* bytes whose RXNE the handler cleared unread
  rxne, idle,                    \* receive flags of SR; ORE comes with RXNE only
  armed,                         \* a byte came since the line was last idle
  written, popped, sent,         \* bytes pushed into tx_buf, popped, and sent
  tdr, shift,                    \* byte in the data and in the shift register, or 0
  tc,                            \* transmission-complete flag
  cr1,                           \* ue and the interrupt enables
  irq, pend,                     \* the interrupt is enabled, is pended by software
  isr,                           \* where the handler is
  rx_waker, tx_waker, tx_done,   \* State
  rx_woken, tx_woken,            \* the waiting task has been woken and not polled since
  reader, writer,                \* where the tasks are
  empty,                         \* write, until it pushes: tx_buf was empty
  rx_open, tx_open,              \* the halves that have not been dropped
  refcount, clock,               \* State.tx_rx_refcount, and the peripheral's clock
  fresh_rx, fresh_tx             \* the frame on the line began during this poll

rxLine == <<arrived, armed>>
rxFlags == <<rxne, idle>>
rxRing == <<taken, rx_len>>
txLine == <<sent, tdr, shift>>
txRing == <<written, popped>>
rxTask == <<reader, rx_woken>>
txTask == <<writer, tx_woken, empty>>
nvic == <<irq, pend>>
life == <<rx_open, tx_open, refcount, clock>>
losses == <<lost, cleared>>
rxVars == <<rxLine, rxFlags, rxRing, losses, rx_waker, rxTask>>
txVars == <<txLine, txRing, tc, tx_waker, tx_done, txTask>>
fresh == <<fresh_rx, fresh_tx>>
rest == <<cr1, nvic, isr, life>>
vars == <<rxVars, txVars, fresh, rest>>

MinOf(a, b) == IF a <= b THEN a ELSE b

InPoll ==
  \/ reader = "empty"
  \/ writer \in {"cleared", "checked", "b_checked", "full", "loaded", "flushed"}

EndPoll == fresh_rx' = FALSE /\ fresh_tx' = FALSE

\* Mutant: what is queued is not taken off.
PushSliceWhole == TxLen - (written % TxLen)

\* The first and the only contiguous part of what is free, and of what is queued.
PushSlice == MinOf(TxLen - (written - popped), TxLen - (written % TxLen))
RxPopSlice == MinOf(rx_len, RxLen - (taken % RxLen))

RxRoom == rx_open /\ rx_len < RxLen

Transmitted == sent = written /\ tx_done

-------------------------------------------------------------------------------
(* The peripheral.  A poll takes less than a frame: what begins during a poll  *)
(* does not end during it.                                                     *)

Running == clock /\ cr1.ue

\* A byte that finds the data register full is lost.
ByteArrives ==
  /\ Running
  /\ arrived < MaxArrived
  /\ ~fresh_rx
  /\ arrived' = arrived + 1
  /\ lost' = IF rxne /\ rx_open THEN lost + 1 ELSE lost
  /\ rxne' = TRUE
  /\ armed' = TRUE
  /\ fresh_rx' = InPoll
  /\ UNCHANGED <<idle, rxRing, cleared, rx_waker, rxTask, txVars, fresh_tx, rest>>

LineIdle ==
  /\ Running
  /\ armed
  /\ ~fresh_rx
  /\ idle' = TRUE
  /\ armed' = FALSE
  /\ fresh_rx' = InPoll
  /\ UNCHANGED <<arrived, rxne, rxRing, losses, rx_waker, rxTask, txVars, fresh_tx,
                   rest>>

ByteSent ==
  /\ Running
  /\ shift # 0
  /\ ~fresh_tx
  /\ sent' = shift
  /\ shift' = tdr
  /\ tdr' = 0
  /\ tc' = (tc \/ tdr = 0)
  /\ fresh_tx' = (InPoll /\ tdr # 0)
  /\ UNCHANGED <<rxVars, txRing, tx_waker, tx_done, txTask, fresh_rx, rest>>

-------------------------------------------------------------------------------
(* on_interrupt.  Its read of SR is followed at once by that of DR, which      *)
(* clears the receive flags; parity, framing and noise errors are only logged. *)
(* When TC is up it reads SR a second time and writes what it read back with   *)
(* TC cleared: RXNE too is cleared by writing 0 to it.                         *)

InterruptPending ==
  /\ irq
  /\ \/ pend
     \/ cr1.rxneie /\ rxne
     \/ cr1.idleie /\ idle
     \/ cr1.txeie /\ tdr = 0
     \/ cr1.tcie /\ tc

\* Mutant: whatever was read from DR is pushed.
receive_any ==
  /\ rx_len' = IF (rxne \/ idle) /\ RxRoom THEN rx_len + 1 ELSE rx_len
  /\ lost' = IF rxne /\ rx_open /\ ~RxRoom THEN lost + 1 ELSE lost
  /\ rx_woken' = (rx_woken \/ (rx_waker /\ (rxne \/ idle)))
  /\ rx_waker' = (rx_waker /\ ~(rxne \/ idle))

\* Mutant: an idle line wakes nobody.
receive_sleepy ==
  /\ rx_len' = IF rxne /\ RxRoom THEN rx_len + 1 ELSE rx_len
  /\ lost' = IF rxne /\ rx_open /\ ~RxRoom THEN lost + 1 ELSE lost
  /\ rx_woken' = (rx_woken \/ (rx_waker /\ rxne /\ rx_len' # 0))
  /\ rx_waker' = (rx_waker /\ ~(rxne /\ rx_len' # 0))

\* A byte that finds the ring full is lost.
receive ==
  LET wakes == (rxne /\ rx_len' # 0) \/ idle IN
  /\ rx_len' = IF rxne /\ RxRoom THEN rx_len + 1 ELSE rx_len
  /\ lost' = IF rxne /\ rx_open /\ ~RxRoom THEN lost + 1 ELSE lost
  /\ rx_woken' = (rx_woken \/ (rx_waker /\ wakes /\ reader # "idle"))
  /\ rx_waker' = (rx_waker /\ ~wakes)

\* A byte that comes between the two readings of SR is written back as 1, and
\* is kept like one that comes after the writing.
on_interrupt ==
  /\ isr = "off"
  /\ InterruptPending
  /\ pend' = FALSE
  /\ rxne' = FALSE /\ idle' = FALSE
  /\ receive
  /\ isr' = IF tc THEN "complete" ELSE "transmit"
  /\ UNCHANGED <<rxLine, taken, cleared, reader, txVars, fresh, cr1, irq, life>>

\* Mutant: nobody is woken.
complete_silent ==
  /\ tc' = FALSE
  /\ cr1' = [cr1 EXCEPT !.tcie = FALSE]
  /\ tx_done' = TRUE
  /\ UNCHANGED <<tx_waker, tx_woken>>

complete ==
  /\ tc' = FALSE
  /\ cr1' = [cr1 EXCEPT !.tcie = FALSE]
  /\ tx_done' = TRUE
  /\ tx_woken' = (tx_woken \/ (tx_waker /\ writer # "idle"))
  /\ tx_waker' = FALSE

\* The writing.  A byte that came since the reading loses its RXNE.
clear_rxne ==
  /\ rxne' = FALSE
  /\ cleared' = IF rxne /\ rx_open THEN cleared + 1 ELSE cleared

on_interrupt_tc ==
  /\ isr = "complete"
  /\ isr' = "transmit"
  /\ clear_rxne
  /\ complete
  /\ UNCHANGED <<rxLine, idle, rxRing, lost, rx_waker, rxTask, txLine, txRing, writer,
                  empty, fresh, nvic, life>>

\* A byte written to DR goes on to an empty shift register.
LoadTdr(byte) ==
  /\ shift' = IF shift = 0 THEN byte ELSE shift
  /\ tdr' = IF shift = 0 THEN 0 ELSE byte
  /\ fresh_tx' = IF shift = 0 THEN InPoll ELSE fresh_tx

\* Mutant: the end of the transmission is not waited for.
transmit_untold ==
  /\ tdr = 0 /\ popped # written
  /\ popped' = popped + 1
  /\ LoadTdr(popped')
  /\ tc' = FALSE
  /\ cr1' = [cr1 EXCEPT !.txeie = TRUE]
  /\ UNCHANGED sent

\* Mutant: TXE is not looked at.
transmit_over ==
  /\ popped # written
  /\ popped' = popped + 1
  /\ LoadTdr(popped')
  /\ tc' = FALSE
  /\ cr1' = [cr1 EXCEPT !.txeie = TRUE, !.tcie = @ \/ popped' = written]
  /\ UNCHANGED sent

\* Reading SR and writing DR clears TC.  The last byte of the contiguous part
\* enables the transmission-complete interrupt.
transmit ==
  /\ tdr = 0 /\ popped # written
  /\ popped' = popped + 1
  /\ LoadTdr(popped')
  /\ tc' = FALSE
  /\ cr1' = [cr1 EXCEPT !.txeie = TRUE,
                        !.tcie = @ \/ popped' = written \/ popped' % TxLen = 0]
  /\ UNCHANGED sent

transmit_nothing ==
  /\ popped = written \/ tdr # 0
  /\ cr1' = [cr1 EXCEPT !.txeie = @ /\ tdr # 0]
  /\ UNCHANGED <<txLine, popped, tc, fresh_tx>>

on_interrupt_tx ==
  /\ isr = "transmit"
  /\ isr' = "off"
  /\ transmit \/ transmit_nothing
  /\ UNCHANGED <<rxVars, written, tx_waker, tx_done, txTask, fresh_rx, nvic, life>>

-------------------------------------------------------------------------------
(* The reading task.  A wake is promised to a waker registered since the last. *)

\* The handler preempts the tasks.
Runs == isr = "off" /\ ~InterruptPending

ReadPolls ==
  /\ Runs /\ ~InPoll
  /\ rx_open
  /\ reader = "idle" \/ (reader = "parked" /\ rx_woken)
  /\ rx_woken' = FALSE

\* read, blocking_read and consume.
read_takes(n) ==
  /\ ReadPolls
  /\ n <= RxPopSlice
  /\ taken' = taken + n
  /\ rx_len' = rx_len - n
  /\ pend' = (pend \/ rx_len = RxLen)
  /\ reader' = "idle"
  /\ UNCHANGED <<rxLine, rxFlags, losses, rx_waker, txVars, fresh, cr1, irq, isr,
                   life>>

read_finds_empty ==
  /\ ReadPolls
  /\ rx_len = 0
  /\ reader' = "empty"
  /\ UNCHANGED <<rxLine, rxFlags, rxRing, losses, rx_waker, txVars, fresh, rest>>

read_registers ==
  /\ Runs
  /\ reader = "empty"
  /\ rx_waker' = TRUE
  /\ reader' = "parked"
  /\ EndPoll
  /\ UNCHANGED <<rxLine, rxFlags, rxRing, losses, rx_woken, txVars, rest>>

\* The caller drops the pending future.
read_cancel ==
  /\ Runs /\ ~InPoll
  /\ reader = "parked"
  /\ reader' = "idle"
  /\ rx_woken' = FALSE
  /\ UNCHANGED <<rxLine, rxFlags, rxRing, losses, rx_waker, txVars, fresh, rest>>

-------------------------------------------------------------------------------
(* The writing task. *)

TxPolls(parked) ==
  /\ Runs /\ ~InPoll
  /\ tx_open
  /\ writer = "idle" \/ (writer = parked /\ tx_woken)
  /\ tx_woken' = FALSE

write_clears ==
  /\ TxPolls("writing")
  /\ written < MaxWritten
  /\ tx_done' = FALSE
  /\ writer' = "cleared"
  /\ UNCHANGED <<rxVars, txLine, txRing, tc, tx_waker, empty, fresh, rest>>

write_checks ==
  /\ Runs
  /\ writer = "cleared"
  /\ empty' = (written = popped)
  /\ writer' = "checked"
  /\ UNCHANGED <<rxVars, txLine, txRing, tc, tx_waker, tx_done, tx_woken, fresh,
                   rest>>

\* An iteration of blocking_write.
blocking_write_checks ==
  /\ BlockingWrite
  /\ TxPolls("idle")
  /\ written < MaxWritten
  /\ empty' = (written = popped)
  /\ writer' = "b_checked"
  /\ UNCHANGED <<rxVars, txLine, txRing, tc, tx_waker, tx_done, fresh, rest>>

\* Mutant: the interrupt is never pended.
write_pushes_only(n) ==
  /\ Runs
  /\ writer \in {"checked", "b_checked"}
  /\ n <= PushSlice /\ written + n <= MaxWritten
  /\ written' = written + n
  /\ writer' = "idle"
  /\ empty' = FALSE /\ tx_woken' = FALSE
  /\ EndPoll
  /\ UNCHANGED <<rxVars, txLine, popped, tc, tx_waker, tx_done, rest>>

write_pushes(n) ==
  /\ Runs
  /\ writer \in {"checked", "b_checked"}
  /\ n <= PushSlice /\ written + n <= MaxWritten
  /\ written' = written + n
  /\ pend' = (pend \/ empty)
  /\ writer' = "idle"
  /\ empty' = FALSE /\ tx_woken' = FALSE
  /\ EndPoll
  /\ UNCHANGED <<rxVars, txLine, popped, tc, tx_waker, tx_done, cr1, irq, isr,
                   life>>

write_finds_full ==
  /\ Runs
  /\ PushSlice = 0
  /\ \/ writer = "checked" /\ writer' = "full"
        /\ UNCHANGED <<tx_woken, fresh>>
     \/ writer = "b_checked" /\ writer' = "idle" /\ EndPoll /\ tx_woken' = FALSE
  /\ UNCHANGED <<rxVars, txLine, txRing, tc, tx_waker, tx_done, empty, rest>>

flush_loads ==
  /\ TxPolls("flushing")
  /\ writer' = IF tx_done THEN "flushed" ELSE "loaded"
  /\ UNCHANGED <<rxVars, txLine, txRing, tc, tx_waker, tx_done, empty, fresh, rest>>

flush_returns ==
  /\ Runs
  /\ writer = "flushed"
  /\ writer' = "idle"
  /\ tx_woken' = FALSE
  /\ EndPoll
  /\ UNCHANGED <<rxVars, txLine, txRing, tc, tx_waker, tx_done, empty, rest>>

\* write and flush.
tx_registers ==
  /\ Runs
  /\ \/ writer = "full" /\ writer' = "writing"
     \/ writer = "loaded" /\ writer' = "flushing"
  /\ tx_waker' = TRUE
  /\ EndPoll
  /\ UNCHANGED <<rxVars, txLine, txRing, tc, tx_done, tx_woken, empty, rest>>

\* The caller drops the pending future.
tx_cancel ==
  /\ Runs /\ ~InPoll
  /\ writer \in {"writing", "flushing"}
  /\ writer' = "idle"
  /\ tx_woken' = FALSE
  /\ UNCHANGED <<rxVars, txLine, txRing, tc, tx_waker, tx_done, empty, fresh, rest>>

-------------------------------------------------------------------------------
(* The life of the driver. *)

\* CR1 as configure leaves it and new and set_config complete it.
Configured == [ue |-> TRUE, rxneie |-> TRUE, idleie |-> TRUE, txeie |-> FALSE,
               tcie |-> FALSE]

\* Called on the driver or on either half.  configure writes the whole of CR1.
set_config ==
  /\ Runs /\ ~InPoll
  /\ rx_open \/ tx_open
  /\ Quiet => Transmitted
  /\ cr1' = Configured
  /\ irq' = TRUE
  /\ pend' = FALSE
  /\ UNCHANGED <<rxVars, txVars, fresh, isr, life>>

\* A baud rate that is out of range leaves the interrupt and the UART disabled.
set_config_fails ==
  /\ Runs /\ ~InPoll
  /\ rx_open \/ tx_open
  /\ Quiet => Transmitted
  /\ cr1' = [cr1 EXCEPT !.ue = FALSE]
  /\ irq' = FALSE
  /\ UNCHANGED <<rxVars, txVars, fresh, pend, isr, life>>

drop_tx_rx ==
  /\ refcount' = refcount - 1
  /\ clock' = (clock /\ refcount # 1)

drop_rx ==
  /\ Runs /\ ~InPoll
  /\ rx_open /\ reader = "idle"
  /\ rx_open' = FALSE
  /\ taken' = 0 /\ rx_len' = 0 /\ lost' = 0 /\ cleared' = 0
  /\ irq' = (irq /\ tx_open)
  /\ drop_tx_rx
  /\ UNCHANGED <<rxLine, rxFlags, rx_waker, rxTask, txVars, fresh, cr1, pend, isr,
                   tx_open>>

\* What is left in tx_buf is forgotten.
drop_tx ==
  /\ Runs /\ ~InPoll
  /\ tx_open /\ writer = "idle"
  /\ Quiet => Transmitted
  /\ tx_open' = FALSE
  /\ written' = popped
  /\ irq' = (irq /\ rx_open)
  /\ drop_tx_rx
  /\ UNCHANGED <<rxVars, txLine, popped, tc, tx_waker, tx_done, txTask, fresh,
                   cr1, pend, isr, rx_open>>

\* The peripheral is reset and the rings are empty; the static State keeps its
\* wakers and tx_done.
new ==
  /\ Runs
  /\ ~rx_open /\ ~tx_open
  /\ arrived' = 0 /\ taken' = 0 /\ rx_len' = 0 /\ lost' = 0 /\ cleared' = 0
  /\ rxne' = FALSE /\ idle' = FALSE /\ armed' = FALSE
  /\ written' = 0 /\ popped' = 0 /\ sent' = 0
  /\ tdr' = 0 /\ shift' = 0 /\ tc' = TRUE
  /\ cr1' = Configured
  /\ irq' = TRUE /\ pend' = FALSE
  /\ rx_open' = TRUE /\ tx_open' = TRUE
  /\ refcount' = 2 /\ clock' = TRUE
  /\ UNCHANGED <<rx_waker, rxTask, tx_waker, tx_done, txTask, fresh, isr>>

\* After the first new.
Init ==
  /\ arrived = 0 /\ taken = 0 /\ rx_len = 0 /\ lost = 0 /\ cleared = 0
  /\ rxne = FALSE /\ idle = FALSE /\ armed = FALSE
  /\ written = 0 /\ popped = 0 /\ sent = 0
  /\ tdr = 0 /\ shift = 0 /\ tc = TRUE
  /\ cr1 = Configured
  /\ irq = TRUE /\ pend = FALSE
  /\ rx_open = TRUE /\ tx_open = TRUE
  /\ refcount = 2 /\ clock = TRUE
  /\ isr = "off"
  /\ rx_waker = FALSE /\ tx_waker = FALSE
  /\ tx_done = TRUE
  /\ rx_woken = FALSE /\ tx_woken = FALSE
  /\ reader = "idle" /\ writer = "idle"
  /\ empty = FALSE
  /\ fresh_rx = FALSE /\ fresh_tx = FALSE

Hardware == ByteArrives \/ LineIdle \/ ByteSent

Handler == on_interrupt \/ on_interrupt_tc \/ on_interrupt_tx

\* The rest of a poll, and the polls of the tasks that have been woken.
Reader ==
  \/ read_registers
  \/ reader = "parked" /\ (read_finds_empty \/ \E n \in 1 .. RxLen : read_takes(n))

Writer ==
  \/ write_checks \/ write_finds_full \/ flush_returns \/ tx_registers
  \/ \E n \in 1 .. TxLen : write_pushes(n)
  \/ writer = "writing" /\ write_clears
  \/ writer = "flushing" /\ flush_loads

Caller ==
  \/ reader = "idle" /\ (read_finds_empty \/ \E n \in 1 .. RxLen : read_takes(n))
  \/ writer = "idle" /\ (write_clears \/ flush_loads)
  \/ blocking_write_checks \/ read_cancel \/ tx_cancel
  \/ set_config \/ set_config_fails \/ drop_rx \/ drop_tx \/ new

Next == Hardware \/ Handler \/ Reader \/ Writer \/ Caller

Spec == Init /\ [][Next]_vars

\* The line and the handler go on, and the executor polls a woken task however
\* often the other one is polled.
Fairness ==
  /\ WF_vars(LineIdle \/ ByteSent \/ Handler)
  /\ SF_vars(Reader) /\ SF_vars(Writer)

FairSpec == Spec /\ Fairness

-------------------------------------------------------------------------------
(* Properties. *)

\* Types; the rings hold no more than their lengths.
TypeOK ==
  /\ {arrived, taken, lost, cleared, sent, tdr, shift, written, popped} \subseteq Nat
  /\ rx_len \in 0 .. RxLen
  /\ written - popped \in 0 .. TxLen
  /\ {rxne, idle, armed, tc, irq, pend, rx_waker, tx_waker, tx_done, rx_woken,
      tx_woken, empty, rx_open, tx_open, clock, fresh_rx, fresh_tx} \subseteq BOOLEAN
  /\ cr1 \in [ue : BOOLEAN, rxneie : BOOLEAN, idleie : BOOLEAN, txeie : BOOLEAN,
              tcie : BOOLEAN]
  /\ isr \in {"off", "complete", "transmit"}
  /\ reader \in {"idle", "empty", "parked"}
  /\ writer \in {"idle", "cleared", "checked", "b_checked", "full", "loaded",
                 "flushed", "writing", "flushing"}
  /\ refcount \in 0 .. 2

\* Every byte received has been read, is on its way to the reader, or was lost
\* for want of room or because its RXNE was cleared unread, exactly once: the
\* handler drops no other byte and pushes none twice.
Accounted ==
  rx_open => arrived = taken + rx_len + lost + cleared + (IF rxne THEN 1 ELSE 0)

\* The bytes leave in the order they were written, none skipped or overwritten.
SentInOrder == [][sent' \in {sent, sent + 1, 0}]_vars

\* A reader that waits while there is something to read is polled again, although
\* read looks at the ring before it registers its waker: the idle line wakes it.
ReaderWoken == reader = "parked" /\ rx_len # 0 ~> reader # "parked" \/ ~irq

\* A writer that waits for room is polled again.
WriterWoken == writer = "writing" ~> writer # "writing" \/ ~irq

\* A flush that waits while the transmission is not complete is polled again: its
\* completion finds the waker.
FlushWoken ==
  writer = "flushing" /\ ~tx_done ~> writer # "flushing" \/ ~irq

\* What is written is sent, although write decides from an old look at the ring
\* whether to start the transmitter.
EverythingSent == written # sent ~> written = sent \/ ~irq

\* When flush returns, everything written has left the shift register.
FlushMeansSent == writer = "flushed" => sent = written

===============================================================================
