---------------------------------- MODULE Uart ---------------------------------
(***************************************************************************)
(* Asynchronous reception: UartRx::read and read_until_idle, whose DMA     *)
(* transfer ends with the buffer, an idle line or an error, and the        *)
(* ring-buffered receiver, whose DMA goes on between its reads; and the    *)
(* transmitter's flush, which shares the receiver's waker.                 *)
(*                                                                         *)
(* The status flags are lowered by a read of SR that sees them followed by *)
(* a read of DR, be it the DMA controller's.  The bytes of the line are    *)
(* numbered.  The DMA controller and the interrupt handler are faster than *)
(* a byte and come before the tasks' next step.  The interrupt is enabled  *)
(* in the NVIC by the drivers that receive, not by a UartTx of its own.    *)
(***************************************************************************)
EXTENDS Integers, Sequences

CONSTANTS
  Split,      \* whether the halves are used by two tasks
  Buffers,    \* lengths of the buffers of one-shot reads
  RingSize,   \* capacity of the ring
  MaxBytes    \* bound: bytes the line brings

ASSUME UartAssumption ==
  /\ Split \in BOOLEAN /\ Buffers \subseteq Nat \ {0}
  /\ RingSize \in Nat \ {0} /\ MaxBytes \in Nat

VARIABLES
  arrived,    \* bytes that came
  busy,       \* the line has not been idle since the last one
  data, rxne, \* DR and whether it holds a byte
  flags,      \* SR: of PE, FE, ORE and IDLE
  sread,      \* the flags that the last read of SR saw
  tc,         \* SR.TC
  ie,         \* the interrupts enabled in CR1 and CR3
  dmar,       \* CR3.DMAR
  rx_dma,     \* the channel: whether it is enabled, and NDTR
  got,        \* the bytes it moved that were not returned yet
  driver,     \* "rx", "ring", or "tx" where the task only transmits
  detect,     \* Config.detect_previous_overrun
  rpc,        \* where the read is
  until_idle, \* enable_idle_line_detection
  rsr,        \* the SR it read
  repolled,   \* dma_init of the ring's wait
  returned,   \* what the last read returned
  fpc,        \* where the flush is
  rx_waker,   \* State::rx_waker
  dma_waker,  \* the channel's waker is registered
  ready,      \* the tasks to be polled
  bad,        \* ghost: bytes that came with an error, see ByteArrives
  latent,     \* ghost: the errors up when a read that detects them began
  raised,     \* ghost: the flags raised during a one-shot read
  owed,       \* ghost: why the read has to end
  last        \* ghost: the last byte returned or discarded by the ring

lineVars == <<arrived, busy, data, rxne, flags, tc, bad>>
regVars == <<ie, dmar, rx_dma>>
readVars == <<rpc, until_idle, rsr, repolled, returned, got, last>>
wakeVars == <<rx_waker, dma_waker, ready>>
uartConfig == <<driver, detect>>
ghosts == <<latent, raised, owed>>
uartVars == <<lineVars, sread, regVars, readVars, fpc, wakeVars, ghosts, uartConfig>>

Errors == {"PE", "FE", "ORE"}
\* An error between the check of DMAR or a reading of SR and the reading of DR
\* that follows is lowered unseen, and the read misses it.
Waiting == rpc \in {"register", "ring", "dma", "pending"}

-------------------------------------------------------------------------------
(* The line, the DMA channel and the interrupt handler.                    *)

\* UartTx::enable_and_configure does not enable the interrupt.
Served == driver # "tx"

DmaPending == dmar /\ rxne /\ rx_dma.on /\ rx_dma.left > 0

\* Errors whose interrupt is enabled.
Reported(errors) ==
  ("PE" \in errors /\ "peie" \in ie) \/ (errors \cap {"FE", "ORE"} # {} /\ "eie" \in ie)

IrqPending ==
  /\ Served
  /\ Reported(flags) \/ ("idleie" \in ie /\ "IDLE" \in flags) \/ ("tcie" \in ie /\ tc)

Free == ~DmaPending /\ ~IrqPending

\* A reading of DR lowers the flags seen.
LowersSeen == flags' = flags \ sread /\ sread' = {} /\ rxne' = FALSE

OfRead(flag) == IF driver = "rx" /\ rpc # "idle" THEN flag ELSE {}

\* A byte comes, perhaps with an error; if DR is full it is lost.  Of the bytes
\* that end within the few instructions that enable a reception, one at most finds
\* DR empty or full of a byte of before.  A one-shot read answers for the errors
\* whose interrupt is enabled, the ring for all and for the time it is stopped.
ByteArrives(err) ==
  /\ Free /\ driver # "tx" /\ arrived < MaxBytes
  /\ rpc \in {"cr1", "cr3"} => ~rxne \/ detect
  /\ arrived' = arrived + 1 /\ busy' = TRUE
  /\ LET flag == IF rxne THEN {"ORE"} ELSE err
         spoilt == IF driver = "ring" THEN flag # {} \/ ~dmar ELSE dmar /\ Reported(flag) IN
     /\ flags' = flags \cup flag /\ raised' = raised \cup OfRead(flag)
     /\ bad' = IF spoilt THEN bad \cup {arrived'} ELSE bad
     /\ owed' = (owed \ {"idle"})
                  \cup (IF Reported(flag) /\ dmar /\ Waiting THEN {"error"} ELSE {})
  /\ data' = IF rxne THEN data ELSE arrived'
  /\ rxne' = TRUE
  /\ UNCHANGED <<tc, sread, regVars, readVars, fpc, wakeVars, latent, uartConfig>>

LineIdle ==
  /\ Free /\ busy
  /\ busy' = FALSE
  /\ flags' = flags \cup {"IDLE"} /\ raised' = raised \cup OfRead({"IDLE"})
  /\ owed' = IF Waiting /\ until_idle /\ (driver = "ring" => got # <<>>)
             THEN owed \cup {"idle"} ELSE owed
  /\ UNCHANGED <<arrived, data, rxne, tc, bad, sread, regVars, readVars, fpc, wakeVars,
                 latent, uartConfig>>

\* The last byte of a transfer, or the ring's half and end, wake the reader.
RxDmaMoves ==
  /\ DmaPending
  /\ got' = Append(got, data)
  /\ LowersSeen
  /\ rx_dma' = [rx_dma EXCEPT !.left = IF driver = "ring" /\ @ = 1 THEN RingSize ELSE @ - 1]
  /\ LET wakes == IF driver = "ring" THEN 2 * rx_dma'.left % RingSize = 0
                  ELSE rx_dma'.left = 0 IN
     /\ ready' = IF wakes /\ dma_waker THEN ready \cup {"reader"} ELSE ready
     /\ dma_waker' = (dma_waker /\ ~wakes)
     /\ owed' = IF wakes /\ driver = "rx" THEN owed \cup {"full"} ELSE owed
  /\ UNCHANGED <<arrived, busy, data, tc, bad, ie, dmar, rpc, until_idle, rsr, repolled,
                 returned, last, fpc, rx_waker, latent, raised, uartConfig>>

\* Mutant: an error disables the interrupts and leaves the DMA request.
on_error_kept == ie' = ie \ {"peie", "idleie", "eie"} /\ dmar' = dmar

on_error == ie' = ie \ {"peie", "idleie", "eie"} /\ dmar' = FALSE

HasErrors == Reported(flags)

\* Mutant: the handler returns once it dealt with an error.
wake_unless_error == IF HasErrors THEN UNCHANGED <<ready, rx_waker>>
                     ELSE ready' = ready \cup (rx_waker \ {"none"}) /\ rx_waker' = {"none"}

wake == ready' = ready \cup (rx_waker \ {"none"}) /\ rx_waker' = {"none"}

\* on_usart_interrupt: the first cause that is found, then the waker.
on_usart_interrupt ==
  /\ ~DmaPending /\ IrqPending
  /\ sread' = flags
  /\ IF HasErrors
     THEN on_error
     ELSE /\ ie' = IF "idleie" \in ie /\ "IDLE" \in flags THEN ie \ {"idleie"}
                   ELSE ie \ {"tcie"}
          /\ dmar' = dmar
  /\ wake
  /\ UNCHANGED <<lineVars, rx_dma, readVars, fpc, dma_waker, ghosts, uartConfig>>

-------------------------------------------------------------------------------
(* Pieces of the receivers.                                                *)

ReadGoes(from, to) == Free /\ rpc = from /\ rpc' = to

Ends(res) == returned' = res /\ owed' = {}

\* Mutant: the idle interrupt stays enabled.
neutral_idle ==
  ie' = ie \ {"peie", "eie"} /\ dmar' = FALSE /\ rx_dma' = [rx_dma EXCEPT !.on = FALSE]

\* Transfer::drop or request_pause, and the on_drop of inner_read_run or stop_uart.
neutral ==
  /\ ie' = ie \ {"peie", "eie", "idleie"} /\ dmar' = FALSE
  /\ rx_dma' = [rx_dma EXCEPT !.on = FALSE]

\* What a read leaves behind that no later one looks at.
Forgotten ==
  /\ until_idle' = FALSE /\ rsr' = {} /\ repolled' = FALSE /\ returned' = "none"
  /\ raised' = {} /\ latent' = {}

FirstError(sr) ==
  IF "PE" \in sr THEN "PE" ELSE IF "FE" \in sr THEN "FE" ELSE "ORE"

-------------------------------------------------------------------------------
(* inner_read and inner_read_run.                                          *)

\* A single task awaits either a read or a flush.
Alone(other) == Split \/ other = "idle"

\* The one that is woken for a flush.
Flusher == IF Split THEN "flusher" ELSE "reader"

\* Flags that are up belong to this read only if previous overruns are to be
\* detected.
read_begin(len, idle) ==
  /\ driver = "rx" /\ Alone(fpc)
  /\ ReadGoes("idle", IF detect THEN "cr1" ELSE "clear")
  /\ rx_dma' = [on |-> TRUE, left |-> len] /\ got' = <<>>
  /\ until_idle' = idle /\ returned' = "none"
  /\ latent' = IF detect THEN flags \cap Errors ELSE {}
  /\ raised' = IF detect THEN flags ELSE {}
  /\ bad' = {} /\ owed' = {}
  /\ UNCHANGED <<arrived, busy, data, rxne, flags, tc, sread, ie, dmar, rsr, repolled,
                 last, fpc, wakeVars, uartConfig>>

\* SR and DR are read.
clear_flags ==
  /\ ReadGoes("clear", "cr1")
  /\ flags' = {} /\ sread' = {} /\ rxne' = FALSE
  /\ UNCHANGED <<arrived, busy, data, tc, bad, regVars, until_idle, rsr, repolled,
                 returned, got, last, fpc, wakeVars, ghosts, uartConfig>>

enable_cr1 ==
  /\ ReadGoes("cr1", "cr3")
  /\ ie' = ie \cup (IF driver = "ring" THEN {"peie", "idleie"} ELSE {"peie"})
  /\ UNCHANGED <<lineVars, sread, dmar, rx_dma, until_idle, rsr, repolled, returned,
                 got, last, fpc, wakeVars, ghosts, uartConfig>>

enable_cr3 ==
  /\ ReadGoes("cr3", IF driver = "ring" THEN "ring" ELSE "check")
  /\ ie' = ie \cup {"eie"} /\ dmar' = TRUE
  /\ UNCHANGED <<lineVars, sread, rx_dma, until_idle, rsr, repolled, returned, got,
                 last, fpc, wakeVars, ghosts, uartConfig>>

\* An error that was pending has already disabled the DMA request, unless it was a
\* parity error, whose interrupt came before the request was enabled.
check_dmar ==
  /\ rpc = "check"
  /\ IF dmar
     THEN /\ ReadGoes("check", IF until_idle THEN "idleie" ELSE "register")
          /\ UNCHANGED <<flags, sread, rxne, regVars, returned, owed>>
     ELSE /\ ReadGoes("check", IF flags \cap Errors = {} THEN "unreachable" ELSE "done")
          /\ flags' = {} /\ sread' = {} /\ rxne' = FALSE
          /\ Ends(FirstError(flags)) /\ neutral
  /\ UNCHANGED <<arrived, busy, data, tc, bad, until_idle, rsr, repolled, got, last,
                 fpc, wakeVars, latent, raised, uartConfig>>

enable_idle ==
  /\ ReadGoes("idleie", "register")
  /\ flags' = {} /\ sread' = {} /\ rxne' = FALSE
  /\ ie' = ie \cup {"idleie"}
  /\ UNCHANGED <<arrived, busy, data, tc, bad, dmar, rx_dma, until_idle, rsr, repolled,
                 returned, got, last, fpc, wakeVars, ghosts, uartConfig>>

\* select polls the transfer first.
poll_transfer ==
  /\ driver = "rx" /\ rpc = "register"
  /\ ready' = ready \ {"reader"}
  /\ IF rx_dma.left = 0
     THEN /\ ReadGoes("register", "done") /\ Ends("full") /\ neutral
          /\ UNCHANGED <<rx_waker, dma_waker>>
     ELSE /\ ReadGoes("register", "sr") /\ dma_waker' = TRUE /\ rx_waker' = {"reader"}
          /\ UNCHANGED <<returned, owed, regVars>>
  /\ UNCHANGED <<lineVars, sread, until_idle, rsr, repolled, got, last, fpc, latent, raised,
                 uartConfig>>

poll_sr ==
  /\ ReadGoes("sr", "dr")
  /\ rsr' = flags /\ sread' = flags
  /\ UNCHANGED <<lineVars, regVars, until_idle, repolled, returned, got, last, fpc,
                 wakeVars, ghosts, uartConfig>>

\* The rest of the abort future: what it returns ends the read.
poll_dr ==
  /\ rpc = "dr"
  /\ LowersSeen /\ rsr' = {}
  /\ CASE rsr \cap Errors # {} ->
            ReadGoes("dr", "done") /\ Ends(FirstError(rsr)) /\ neutral
       [] rsr \cap Errors = {} /\ until_idle /\ "IDLE" \in rsr ->
            ReadGoes("dr", "done") /\ Ends("idle") /\ neutral
       [] OTHER ->
            /\ ReadGoes("dr", "pending")
            /\ ie' = IF until_idle THEN ie \cup {"idleie"} ELSE ie
            /\ UNCHANGED <<dmar, rx_dma, returned, owed>>
  /\ UNCHANGED <<arrived, busy, data, tc, bad, until_idle, repolled, got, last,
                 fpc, wakeVars, latent, raised, uartConfig>>

repoll_read ==
  /\ "reader" \in ready
  /\ ReadGoes("pending", "register")
  /\ UNCHANGED <<lineVars, sread, regVars, until_idle, rsr, repolled, returned, got,
                 last, fpc, wakeVars, ghosts, uartConfig>>

\* The future is dropped where it waits.  The ring's reception goes on.
read_cancelled ==
  /\ ReadGoes("pending", "idle")
  /\ IF driver = "ring" THEN UNCHANGED <<regVars, got>> ELSE neutral /\ got' = <<>>
  /\ owed' = {} /\ Forgotten
  /\ UNCHANGED <<lineVars, sread, last, fpc, wakeVars, uartConfig>>

read_returns ==
  /\ ReadGoes("done", "idle")
  /\ got' = IF driver = "ring" THEN got ELSE <<>>
  /\ Forgotten
  /\ UNCHANGED <<lineVars, sread, regVars, last, fpc, wakeVars, owed, uartConfig>>

-------------------------------------------------------------------------------
(* The ring-buffered receiver.                                             *)

\* clear_idle_flag, then the start or the check for errors.  An error does not
\* stop the reception here.
ring_read_begin ==
  /\ driver = "ring" /\ rpc = "idle" /\ Alone(fpc)
  /\ flags' = {} /\ sread' = {} /\ rxne' = FALSE
  /\ until_idle' = TRUE /\ repolled' = FALSE
  /\ IF ~dmar
     THEN /\ ReadGoes("idle", "cr1") /\ rx_dma' = [rx_dma EXCEPT !.on = TRUE]
          /\ returned' = "none" /\ owed' = {}
     ELSE /\ ReadGoes("idle", IF flags \cap Errors = {} THEN "ring" ELSE "done")
          /\ Ends(IF flags \cap Errors = {} THEN "none" ELSE FirstError(flags))
          /\ UNCHANGED rx_dma
  /\ ie' = ie \cup {"idleie"}
  /\ UNCHANGED <<arrived, busy, data, tc, bad, dmar, rsr, got, last, fpc, wakeVars,
                 latent, raised, uartConfig>>

\* Ghost: bytes of the line in order, with none missing but the bad.
Consecutive(s) ==
  \A i \in 1 .. Len(s) - 1 : s[i] < s[i + 1] /\ s[i] + 1 .. s[i + 1] - 1 \subseteq bad

\* ReadableRingBuffer::read of a buffer of len bytes; bytes that were overwritten
\* end the reception.
ring_read(len) ==
  /\ rpc = "ring"
  /\ CASE Len(got) > RingSize ->
            ReadGoes("ring", "done") /\ Ends("ORE") /\ neutral /\ got' = <<>> /\ last' = arrived
       [] got = <<>> ->
            /\ ReadGoes("ring", "register")
            /\ UNCHANGED <<returned, owed, regVars, got, last>>
       [] OTHER ->
            LET n == IF len < Len(got) THEN len ELSE Len(got) IN
            /\ ReadGoes("ring", "done")
            /\ Ends(IF Consecutive(<<last>> \o SubSeq(got, 1, n)) THEN "bytes" ELSE "gap")
            /\ got' = SubSeq(got, n + 1, Len(got)) /\ last' = got[n]
            /\ UNCHANGED regVars
  /\ UNCHANGED <<lineVars, sread, until_idle, rsr, repolled, fpc, wakeVars, latent, raised,
                 uartConfig>>

\* wait_for_data_or_idle: the line is polled first, in a critical section.
poll_line ==
  /\ driver = "ring" /\ rpc = "register"
  /\ ready' = ready \ {"reader"}
  /\ rx_waker' = {"reader"}
  /\ flags' = {} /\ sread' = {} /\ rxne' = FALSE
  /\ IF flags \cap Errors # {}
     THEN ReadGoes("register", "done") /\ Ends(FirstError(flags)) /\ neutral
     ELSE /\ ReadGoes("register", IF "IDLE" \in flags THEN "ring" ELSE "dma")
          /\ ie' = ie \cup {"idleie"}
          /\ UNCHANGED <<returned, owed, dmar, rx_dma>>
  /\ repolled' = (repolled /\ rpc' = "dma")
  /\ UNCHANGED <<arrived, busy, data, tc, bad, until_idle, rsr, got, last, fpc,
                 dma_waker, latent, raised, uartConfig>>

\* A wake-up by anyone is taken for one by the DMA channel.
poll_dma ==
  /\ ReadGoes("dma", IF repolled THEN "ring" ELSE "pending")
  /\ dma_waker' = TRUE /\ repolled' = ~repolled
  /\ UNCHANGED <<lineVars, sread, regVars, until_idle, rsr, returned, got, last, fpc,
                 rx_waker, ready, ghosts, uartConfig>>

\* Another ring is made of the same channel, which configures it anew.
ring_dropped ==
  /\ driver = "ring" /\ Free /\ Alone(fpc) /\ rpc \in {"idle", "pending"} /\ rpc' = "idle"
  /\ ie' = ie \ {"peie", "eie", "idleie"} /\ dmar' = FALSE
  /\ rx_dma' = [on |-> FALSE, left |-> RingSize]
  /\ owed' = {} /\ Forgotten /\ got' = <<>> /\ last' = arrived
  /\ UNCHANGED <<lineVars, sread, fpc, wakeVars, uartConfig>>

-------------------------------------------------------------------------------
(* Transmission, as far as flush sees it.                                  *)

\* A ring-buffered receiver, or a receiver with a task of its own, is half of a Uart.
Transmits == Split \/ driver # "rx"

tx_write ==
  /\ Transmits /\ tc /\ fpc = "idle" /\ Alone(rpc)
  /\ tc' = FALSE
  /\ UNCHANGED <<arrived, busy, data, rxne, flags, bad, sread, regVars, readVars, fpc,
                 wakeVars, ghosts, uartConfig>>

TxComplete ==
  /\ ~tc /\ tc' = TRUE
  /\ UNCHANGED <<arrived, busy, data, rxne, flags, bad, sread, regVars, readVars, fpc,
                 wakeVars, ghosts, uartConfig>>

FlushGoes(from, to) == Free /\ fpc = from /\ fpc' = to

\* Mutant: the interrupt is left as it is.
enable_tcie_not == ie' = ie

enable_tcie == ie' = ie \cup {"tcie"}

flush_begin ==
  /\ ~tc /\ Alone(rpc)
  /\ FlushGoes("idle", "register")
  /\ enable_tcie
  /\ sread' = flags
  /\ UNCHANGED <<lineVars, dmar, rx_dma, readVars, wakeVars, ghosts, uartConfig>>

flush_register ==
  /\ FlushGoes("register", "check")
  /\ rx_waker' = {Flusher} /\ ready' = ready \ {Flusher}
  /\ UNCHANGED <<lineVars, sread, regVars, readVars, dma_waker, ghosts, uartConfig>>

flush_check ==
  /\ FlushGoes("check", IF tc THEN "idle" ELSE "pending")
  /\ sread' = flags
  /\ UNCHANGED <<lineVars, regVars, readVars, wakeVars, ghosts, uartConfig>>

flush_repoll ==
  /\ Flusher \in ready /\ FlushGoes("pending", "register")
  /\ UNCHANGED <<lineVars, sread, regVars, readVars, wakeVars, ghosts, uartConfig>>

\* The interrupt stays enabled until the transmission is complete.
flush_cancelled ==
  /\ FlushGoes("pending", "idle")
  /\ UNCHANGED <<lineVars, sread, regVars, readVars, wakeVars, ghosts, uartConfig>>

-------------------------------------------------------------------------------
UartInit ==
  /\ arrived = 0 /\ busy = FALSE /\ data = 0 /\ rxne = FALSE /\ flags = {} /\ sread = {}
  /\ tc = TRUE /\ ie = {} /\ dmar = FALSE /\ got = <<>>
  /\ rx_dma = [on |-> FALSE, left |-> RingSize]
  /\ driver \in {"rx", "ring", "tx"} /\ detect \in BOOLEAN /\ (detect => driver = "rx")
  /\ rpc = "idle" /\ until_idle = FALSE /\ rsr = {} /\ repolled = FALSE /\ returned = "none"
  /\ fpc = "idle" /\ rx_waker = {"none"} /\ dma_waker = FALSE /\ ready = {}
  /\ bad = {} /\ latent = {} /\ raised = {} /\ owed = {} /\ last = 0

ReadStep ==
  \/ clear_flags \/ enable_cr1 \/ enable_cr3 \/ check_dmar \/ enable_idle
  \/ poll_transfer \/ poll_sr \/ poll_dr \/ repoll_read
  \/ \E len \in Buffers : ring_read(len)
  \/ poll_line \/ poll_dma

FlushStep == flush_register \/ flush_check \/ flush_repoll

UartNext ==
  \/ \E err \in {{}, {"PE"}, {"FE"}} : ByteArrives(err)
  \/ LineIdle \/ RxDmaMoves \/ on_usart_interrupt \/ TxComplete
  \/ \E len \in Buffers, idle \in BOOLEAN : read_begin(len, idle)
  \/ ReadStep \/ read_cancelled \/ read_returns
  \/ ring_read_begin \/ ring_dropped
  \/ tx_write \/ flush_begin \/ FlushStep \/ flush_cancelled

\* Hardware and handlers go on; the executor polls ready tasks, which handlers
\* may keep from running only as long as bytes come.
UartFairness ==
  /\ WF_uartVars(RxDmaMoves \/ on_usart_interrupt) /\ WF_uartVars(TxComplete)
  /\ SF_uartVars(ReadStep) /\ SF_uartVars(FlushStep)

UartSpec == UartInit /\ [][UartNext]_uartVars /\ UartFairness

-------------------------------------------------------------------------------
\* What a read returns is consecutive bytes of the line, and any but the last
\* (whose error loses against the end of the transfer) came without an error whose
\* interrupt was enabled; a full read is as long as its buffer; an idle line or an
\* error is one that came during the read; the ring's reads are consecutive too
\* unless the reception was started again; and the branch the code calls
\* unreachable is.
ReadIsTrue ==
  /\ rpc # "unreachable"
  /\ driver = "rx" /\ rpc = "done" =>
       /\ \A i \in 1 .. Len(got) - 1 : (i = 1 /\ detect) \/ got[i + 1] = got[i] + 1
       /\ returned \in {"full", "idle"} => \A i \in 1 .. Len(got) - 1 : got[i] \notin bad
       /\ returned = "full" => rx_dma.left = 0
       /\ returned = "idle" => "IDLE" \in raised
       /\ returned \in Errors => returned \in raised
  /\ returned # "gap"

\* Outside a read every reception interrupt and the DMA request are off, so that
\* a byte waits for the next read or overruns; the ring's go on together until an
\* error stops them together.
QuietOutsideRead ==
  rpc = "idle" =>
    /\ driver = "rx" => ie \cap {"peie", "eie", "idleie"} = {} /\ ~dmar /\ ~rx_dma.on
    /\ dmar => "eie" \in ie /\ rx_dma.on

\* A read whose buffer is full, whose line went idle and stayed so, or that got
\* an error while it waited with the error's interrupt enabled, ends.
ReadEnds == owed # {} ~> owed = {}

\* A read that detects previous errors ends if one is up when it begins: "if there
\* is a latent error pending, the read will abort and the error will be reported".
LatentErrorEnds ==
  latent # {} ~> rpc \in {"done", "idle"}

\* A flush of a driver whose interrupt is enabled ends once the transmission is
\* complete.
FlushEnds == (Served /\ fpc # "idle" /\ tc) ~> (fpc = "idle" \/ ~tc)

\* So does a flush of a driver that only transmits.
TxFlushEnds == (driver = "tx" /\ fpc # "idle" /\ tc) ~> (fpc = "idle" \/ ~tc)

================================================================================
