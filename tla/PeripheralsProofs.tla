--------------------------- MODULE PeripheralsProofs ---------------------------
(***************************************************************************)
(* What ends a wait for an edge, a capture or a sample is an event of that *)
(* wait; a UART is quiet outside its reads, and what a read of it returns  *)
(* is what the line brought: for every set of lines, waits, channels,      *)
(* inputs and buffer lengths, every ring and any number of bytes.          *)
(***************************************************************************)
EXTENDS Peripherals, SequenceTheorems, TLAPS

-------------------------------------------------------------------------------
(* External interrupts.                                                    *)

EdgePcs == {"idle", "level", "poll", "registered", "pending", "done"}

\* A line that waits is selected for its edges; once its pending bit is set, or
\* its mask bit is cleared by the handler, its edge has been seen.
EdgeInv ==
  /\ waiting \in [Lines -> Waits \cup {NoWait}]
  /\ epc \in [Lines -> EdgePcs]
  /\ \A l \in Lines : epc[l] # "idle" =>
       /\ waiting[l] # NoWait
       /\ l \in rtsr => Rising(waiting[l])
       /\ l \in ftsr => Falling(waiting[l])
       /\ l \in pr => l \in seen
       /\ l \notin imr => l \in seen
  /\ \A l \in Lines : epc[l] = "done" => l \in seen

LEMMA NoWaitIsNone == NoWait \notin Waits
  BY ExtiAssumption DEF NoWait

LEMMA EdgeInvInit == ExtiInit => EdgeInv
  BY DEF ExtiInit, EdgeInv, EdgePcs

LEMMA EdgeInvHandler == EdgeInv /\ (on_irq \/ clear_pending) => EdgeInv'
<1> SUFFICES ASSUME EdgeInv, on_irq \/ clear_pending PROVE EdgeInv'
  OBVIOUS
<1>1. CASE on_irq
  BY <1>1 DEF EdgeInv, on_irq
<1>2. CASE clear_pending
  BY <1>2 DEF EdgeInv, clear_pending
<1> QED
  BY <1>1, <1>2

LEMMA EdgeInvEdge == ASSUME NEW l \in Lines, EdgeInv, Edge(l) PROVE EdgeInv'
  BY DEF EdgeInv, Edge

LEMMA EdgeInvNewFuture ==
  ASSUME NEW l \in Lines, NEW w \in Waits, EdgeInv, new_future(l, w) PROVE EdgeInv'
<1>1. waiting' \in [Lines -> Waits \cup {NoWait}] /\ epc' \in [Lines -> EdgePcs]
  BY DEF EdgeInv, new_future, LineGoes, EdgePcs
<1>2. ASSUME NEW k \in Lines, k # l
      PROVE  /\ epc'[k] = epc[k] /\ waiting'[k] = waiting[k]
             /\ (k \in rtsr' <=> k \in rtsr) /\ (k \in ftsr' <=> k \in ftsr)
             /\ (k \in pr' <=> k \in pr) /\ (k \in imr' <=> k \in imr)
             /\ (k \in seen' <=> k \in seen)
  BY <1>2 DEF EdgeInv, new_future, LineGoes, set_line
<1>3. /\ waiting'[l] = w /\ epc'[l] # "done" /\ l \notin pr' /\ l \in imr'
      /\ (l \in rtsr' <=> Rising(w)) /\ (l \in ftsr' <=> Falling(w))
  BY DEF EdgeInv, new_future, LineGoes, set_line
<1> QED
  BY <1>1, <1>2, <1>3, NoWaitIsNone DEF EdgeInv

LEMMA EdgeInvTask ==
  ASSUME NEW l \in Lines, EdgeInv, ExtiStep(l) \/ drop_future(l) PROVE EdgeInv'
<1>1. CASE check_level(l)
  BY <1>1 DEF EdgeInv, check_level, LineGoes, EdgePcs, extiRegs
<1>2. CASE register_waker(l)
  BY <1>2 DEF EdgeInv, register_waker, LineGoes, EdgePcs, extiRegs
<1>3. CASE read_mask(l)
  BY <1>3 DEF EdgeInv, read_mask, LineGoes, EdgePcs, extiRegs
<1>4. CASE repoll(l)
  BY <1>4 DEF EdgeInv, repoll, LineGoes, EdgePcs, extiRegs
<1>5. CASE drop_future(l)
  BY <1>5 DEF EdgeInv, drop_future, LineGoes, EdgePcs
<1> QED
  BY <1>1, <1>2, <1>3, <1>4, <1>5 DEF ExtiStep

LEMMA EdgeInvStep == EdgeInv /\ ExtiNext => EdgeInv'
  BY EdgeInvHandler, EdgeInvEdge, EdgeInvNewFuture, EdgeInvTask DEF ExtiNext

-------------------------------------------------------------------------------
(* Input capture.                                                          *)

CapturePcs == {"idle", "poll", "registered", "pending", "ready", "done"}

\* While a wait is on, its channel's flag is up or its interrupt masked only
\* because of a capture that is the wait's own or was never taken.
CaptureInv ==
  /\ cpc \in CapturePcs
  /\ ccif \subseteq unread
  /\ /\ cpc \in {"poll", "registered", "pending"}
     /\ channel \in ccif \/ channel \notin ccie
     => fresh \/ backlog
  /\ cpc \in {"ready", "done"} => fresh \/ backlog

LEMMA CaptureInvInit == CaptureInit => CaptureInv
  BY DEF CaptureInit, CaptureInv, CapturePcs

LEMMA CaptureInvStep == CaptureInv /\ CaptureNext => CaptureInv'
<1> SUFFICES ASSUME CaptureInv, CaptureNext PROVE CaptureInv'
  OBVIOUS
<1>1. ASSUME NEW c \in Channels, NEW edge \in {"Rising", "Falling"}, Captures(c, edge)
      PROVE  CaptureInv'
  BY <1>1 DEF CaptureInv, Captures, CapturePcs, InWait
<1>2. ASSUME NEW c \in Channels, NEW on \in BOOLEAN, enable(c, on) PROVE CaptureInv'
  BY <1>2 DEF CaptureInv, enable, InWait
<1>3. ASSUME NEW c \in Channels, NEW mode \in Modes, new_capture(c, mode) PROVE CaptureInv'
  BY <1>3 DEF CaptureInv, new_capture, CapturePcs, InWait
<1>4. CASE on_capture
  BY <1>4 DEF CaptureInv, on_capture
<1>5. CASE register_cc
  BY <1>5 DEF CaptureInv, register_cc, CapturePcs
<1>6. CASE read_dier
  BY <1>6 DEF CaptureInv, read_dier, CapturePcs
<1>7. CASE read_ccr
  BY <1>7 DEF CaptureInv, read_ccr, CapturePcs
<1>8. CASE repoll_cc
  BY <1>8 DEF CaptureInv, repoll_cc, CapturePcs
<1>9. CASE drop_capture
  BY <1>9 DEF CaptureInv, drop_capture, CapturePcs
<1> QED
  BY <1>1, <1>2, <1>3, <1>4, <1>5, <1>6, <1>7, <1>8, <1>9 DEF CaptureNext, CaptureStep

-------------------------------------------------------------------------------
(* Single conversions.                                                     *)

AdcPcs ==
  {"idle", "clear", "enable", "start", "poll", "registered", "pending", "data", "done"}

\* EOC, seen after it was cleared, is a conversion's that ended since; if none ran
\* when the read began, the channel selected, converted and held is the read's.
SampleInv ==
  /\ apc \in AdcPcs
  /\ apc \notin {"idle", "clear"} => (eoc => ended)
  /\ apc \in {"data", "done"} => ended
  /\ apc # "idle" /\ undisturbed =>
       select = input /\ running \in {Still, input} /\ (ended => dr = input)

LEMMA SampleInvInit == AdcInit => SampleInv
  BY DEF AdcInit, SampleInv, AdcPcs

LEMMA SampleInvStep == SampleInv /\ AdcNext => SampleInv'
<1> SUFFICES ASSUME SampleInv, AdcNext PROVE SampleInv'
  OBVIOUS
<1> USE DEF SampleInv, AdcPcs, AdcGoes, adcRegs
<1>1. CASE ConversionEnds
  BY <1>1 DEF ConversionEnds
<1>2. CASE on_eoc
  BY <1>2 DEF on_eoc
<1>3. ASSUME NEW c \in Inputs, read_channel(c) PROVE SampleInv'
  BY <1>3 DEF read_channel
<1>4. CASE clear_eoc
  BY <1>4 DEF clear_eoc
<1>5. CASE enable_eocie
  BY <1>5 DEF enable_eocie
<1>6. CASE start_conversion
  BY <1>6 DEF start_conversion
<1>7. CASE register_adc \/ repoll_adc \/ return_or_drop
  BY <1>7 DEF register_adc, repoll_adc, return_or_drop
<1>8. CASE read_isr
  BY <1>8 DEF read_isr
<1>9. CASE read_dr
  BY <1>9 DEF read_dr
<1> QED
  BY <1>1, <1>2, <1>3, <1>4, <1>5, <1>6, <1>7, <1>8, <1>9 DEF AdcNext, AdcStep

-------------------------------------------------------------------------------
(* Asynchronous reception.                                                 *)

ReadPcs ==
  {"idle", "clear", "cr1", "cr3", "check", "idleie", "register", "sr", "dr", "pending",
   "ring", "dma", "done", "unreachable"}

\* A one-shot read leaves the receiver quiet where it ends; whenever the DMA
\* request is on, errors interrupt and the channel that serves it is enabled.
QuietInv ==
  /\ driver \in {"rx", "ring", "tx"}
  /\ rpc \in ReadPcs
  /\ rx_dma \in [on : BOOLEAN, left : Int]
  /\ driver = "rx" => rpc \notin {"ring", "dma"}
  /\ driver = "rx" /\ rpc \in {"idle", "done"} =>
       ie \cap {"peie", "eie", "idleie"} = {} /\ ~dmar /\ ~rx_dma.on
  /\ dmar => "eie" \in ie /\ rx_dma.on
  /\ rpc \in {"clear", "cr1", "cr3"} => rx_dma.on

LEMMA QuietInvInit == UartInit => QuietInv
  BY UartAssumption DEF UartInit, QuietInv, ReadPcs

LEMMA QuietInvHardware ==
  ASSUME QuietInv,
         \/ \E err \in {{}, {"PE"}, {"FE"}} : ByteArrives(err)
         \/ LineIdle \/ RxDmaMoves \/ on_usart_interrupt \/ TxComplete
  PROVE  QuietInv'
<1> USE DEF QuietInv, lineVars, regVars, readVars, wakeVars, ghosts, uartConfig
<1>1. ASSUME NEW err, ByteArrives(err) PROVE QuietInv'
  BY <1>1 DEF ByteArrives
<1>2. CASE LineIdle
  BY <1>2 DEF LineIdle
<1>3. CASE RxDmaMoves
  BY <1>3, UartAssumption DEF RxDmaMoves
<1>4. CASE on_usart_interrupt
  BY <1>4 DEF on_usart_interrupt, on_error
<1>5. CASE TxComplete
  BY <1>5 DEF TxComplete
<1> QED
  BY <1>1, <1>2, <1>3, <1>4, <1>5

LEMMA QuietInvRead ==
  ASSUME QuietInv,
         \/ \E len \in Buffers, idle \in BOOLEAN : read_begin(len, idle)
         \/ clear_flags \/ enable_cr1 \/ enable_cr3 \/ check_dmar \/ enable_idle
         \/ poll_transfer \/ poll_sr \/ poll_dr \/ repoll_read
         \/ read_cancelled \/ read_returns
  PROVE  QuietInv'
<1> USE DEF QuietInv, ReadPcs, ReadGoes, Ends, neutral, lineVars, regVars, readVars, wakeVars, ghosts,
            uartConfig
<1>1. ASSUME NEW len \in Buffers, NEW idle, read_begin(len, idle) PROVE QuietInv'
  BY <1>1, UartAssumption DEF read_begin
<1>2. CASE clear_flags
  BY <1>2 DEF clear_flags
<1>3. CASE enable_cr1
  BY <1>3 DEF enable_cr1
<1>4. CASE enable_cr3
  BY <1>4 DEF enable_cr3
<1>5. CASE check_dmar
  BY <1>5 DEF check_dmar
<1>6. CASE enable_idle
  BY <1>6 DEF enable_idle
<1>7. CASE poll_transfer
  BY <1>7 DEF poll_transfer
<1>8. CASE poll_sr
  BY <1>8 DEF poll_sr
<1>9. CASE poll_dr
  BY <1>9 DEF poll_dr
<1>10. CASE repoll_read
  BY <1>10 DEF repoll_read
<1>11. CASE read_cancelled
  BY <1>11 DEF read_cancelled, Forgotten
<1>12. CASE read_returns
  BY <1>12 DEF read_returns, Forgotten
<1> QED
  BY <1>1, <1>2, <1>3, <1>4, <1>5, <1>6, <1>7, <1>8, <1>9, <1>10, <1>11, <1>12

LEMMA QuietInvRing ==
  ASSUME QuietInv,
         \/ ring_read_begin \/ \E len \in Buffers : ring_read(len)
         \/ poll_line \/ poll_dma \/ ring_dropped
  PROVE  QuietInv'
<1> USE DEF QuietInv, ReadPcs, ReadGoes, Ends, neutral, lineVars, regVars, readVars, wakeVars, ghosts,
            uartConfig
<1>1. CASE ring_read_begin
  <2>1. CASE dmar
    BY <1>1, <2>1 DEF ring_read_begin
  <2>2. CASE ~dmar
    BY <1>1, <2>2 DEF ring_read_begin
  <2> QED
    BY <2>1, <2>2
<1>2. ASSUME NEW len \in Buffers, ring_read(len) PROVE QuietInv'
  BY <1>2 DEF ring_read
<1>3. CASE poll_line
  BY <1>3 DEF poll_line
<1>4. CASE poll_dma
  BY <1>4 DEF poll_dma
<1>5. CASE ring_dropped
  BY <1>5, UartAssumption DEF ring_dropped
<1> QED
  BY <1>1, <1>2, <1>3, <1>4, <1>5

LEMMA QuietInvTransmit ==
  ASSUME QuietInv, tx_write \/ flush_begin \/ FlushStep \/ flush_cancelled PROVE QuietInv'
  BY DEF QuietInv, tx_write, flush_begin, enable_tcie, FlushStep, flush_register, flush_check,
         flush_repoll, flush_cancelled, lineVars, regVars, readVars, wakeVars, ghosts, uartConfig

LEMMA QuietInvStep == QuietInv /\ UartNext => QuietInv'
  BY QuietInvHardware, QuietInvRead, QuietInvRing, QuietInvTransmit DEF UartNext, ReadStep

-------------------------------------------------------------------------------
(* What a read returns.                                                    *)

UartTypes ==
  /\ arrived \in Nat
  /\ data \in 0 .. arrived
  /\ rxne \in BOOLEAN
  /\ dmar \in BOOLEAN
  /\ detect \in BOOLEAN
  /\ got \in Seq(0 .. arrived)
  /\ bad \subseteq 0 .. arrived
  /\ last \in 0 .. arrived
  /\ sread \subseteq flags
  /\ driver = "tx" => rpc = "idle"
  /\ detect => driver = "rx"

Reading == rpc \notin {"idle", "clear"}

Enabling == rpc \in {"clear", "cr1", "cr3"}

\* Framing and overrun errors interrupt as long as the DMA request of a one-shot read
\* is on (QuietInv), and what finds it off finds the error.
ErrorsInv ==
  /\ Reading => flags \subseteq raised
  /\ rpc = "dr" => rsr \subseteq raised
  /\ rpc = "check" /\ ~dmar => flags \cap Errors # {}
  /\ Enabling => ~dmar /\ "eie" \notin ie /\ got = <<>>
  /\ rpc = "clear" => ~detect
  /\ rpc \in {"clear", "cr1"} => "peie" \notin ie

\* The byte before the read is the only one that may precede a gap.
Stale(n) == n = 1 /\ detect

\* The bytes moved are consecutive, and the next that is moved goes on from them.
BytesInv ==
  /\ \A i \in 1 .. Len(got) - 1 : Stale(i) \/ got[i + 1] = got[i] + 1
  /\ rpc \in {"cr1", "cr3"} /\ ~detect /\ rxne => data = arrived
  /\ dmar /\ rx_dma.left > 0 =>
       IF rxne
       THEN \/ got = <<>> /\ detect
            \/ /\ data = arrived
               /\ got = <<>> \/ Stale(Len(got)) \/ data = got[Len(got)] + 1
       ELSE got = <<>> \/ Stale(Len(got)) \/ got[Len(got)] = arrived

\* A byte that came with an error that interrupts is the last one: its flag is up and
\* unseen when it is moved, and up until the interrupt turns the DMA request off.
BadInv ==
  /\ \A i \in 1 .. Len(got) - 1 : got[i] \notin bad
  /\ Enabling => bad = {}
  /\ dmar /\ got # <<>> /\ got[Len(got)] \in bad => Reported(flags) /\ ~rxne
  /\ dmar /\ rxne /\ data \in bad => Reported(flags \ sread)

ResultInv ==
  rpc = "done" =>
    /\ returned = "full" => rx_dma.left = 0
    /\ returned = "idle" => "IDLE" \in raised
    /\ returned \in Errors => returned \in raised

OneShotInv == driver # "ring" /\ rpc # "idle" => ErrorsInv /\ BytesInv /\ BadInv /\ ResultInv

\* The byte that was returned or moved before the i-th one that waits in the ring.
Before(i) == IF i = 1 THEN last ELSE got[i - 1]

Newest == IF got = <<>> THEN last ELSE got[Len(got)]

\* Every byte that is not in the ring came with an error or with the ring stopped.
RingInv ==
  driver = "ring" =>
    /\ \A i \in 1 .. Len(got) :
         Before(i) < got[i] /\ Before(i) + 1 .. got[i] - 1 \subseteq bad
    /\ Newest + 1 .. arrived - 1 \subseteq bad
    /\ IF DmaPending THEN data = arrived /\ Newest < arrived
       ELSE Newest < arrived => arrived \in bad
    /\ rpc \in {"cr1", "cr3"} /\ rxne => data = arrived /\ Newest < arrived
    /\ rx_dma.left > 0
    /\ rpc \notin {"check", "unreachable"}

TrueInv == UartTypes /\ OneShotInv /\ RingInv /\ returned # "gap" /\ rpc # "unreachable"

UartInv == QuietInv /\ TrueInv

LEMMA TrueInvInit == UartInit => TrueInv
<1> SUFFICES ASSUME UartInit PROVE TrueInv
  OBVIOUS
<1>1. UartTypes
  <2>1. got \in Seq(0 .. arrived) /\ 0 \in 0 .. arrived /\ arrived \in Nat
    BY DEF UartInit
  <2> QED
    BY <2>1, Zenon DEF UartInit, UartTypes
<1>2. RingInv
  BY UartAssumption DEF UartInit, RingInv, Newest, DmaPending, Before
<1> QED
  BY <1>1, <1>2 DEF UartInit, TrueInv, OneShotInv

LEMMA GotFacts ==
  ASSUME UartTypes
  PROVE  /\ Len(got) \in Nat /\ (got = <<>> <=> Len(got) = 0)
         /\ \A i \in 1 .. Len(got) : got[i] \in 0 .. arrived
         /\ Newest \in 0 .. arrived
         /\ \A i \in 1 .. Len(got) : Before(i) \in 0 .. arrived
  BY DEF UartTypes, Newest, Before

\* What errors are reported of a set of flags is reported of a larger one, and by more
\* interrupts.
LEMMA ReportedGrows ==
  ASSUME NEW errors, NEW more, errors \subseteq more, Reported(errors)
  PROVE  Reported(more)
  BY DEF Reported

\* While nothing waits for the hardware or the handler, no error is pending, and DR is
\* served if the DMA request is on.
LEMMA FreeFacts ==
  ASSUME UartInv, Free
  PROVE  /\ rpc # "idle" => ~Reported(flags)
         /\ dmar /\ rxne => ~(rx_dma.left > 0)
  BY DEF UartInv, QuietInv, TrueInv, UartTypes, Free, DmaPending, IrqPending, Served

LEMMA ByteStep ==
  ASSUME UartInv, NEW err \in {{}, {"PE"}, {"FE"}}, ByteArrives(err) PROVE TrueInv'
<1> DEFINE flag == IF rxne THEN {"ORE"} ELSE err
<1>1. /\ Free /\ (rpc \in {"cr1", "cr3"} => ~rxne \/ detect) /\ arrived' = arrived + 1
      /\ flags' = flags \cup flag /\ raised' = raised \cup OfRead(flag)
      /\ bad' = IF IF driver = "ring" THEN flag # {} \/ ~dmar ELSE dmar /\ Reported(flag)
                THEN bad \cup {arrived'} ELSE bad
      /\ data' = IF rxne THEN data ELSE arrived'
      /\ rxne' = TRUE
      /\ sread' = sread /\ ie' = ie /\ dmar' = dmar /\ rx_dma' = rx_dma
      /\ rpc' = rpc /\ rsr' = rsr /\ returned' = returned /\ got' = got /\ last' = last
      /\ driver' = driver /\ detect' = detect /\ driver # "tx"
  BY DEF ByteArrives, regVars, readVars, ghosts, uartConfig
<1>2. flag \subseteq Errors
  BY DEF Errors
<1> HIDE DEF flag
<1>3. UartTypes'
  BY <1>1 DEF UartInv, TrueInv, UartTypes
<1>4. ASSUME driver # "ring", rpc # "idle" PROVE ErrorsInv' /\ ResultInv'
  <2>1. raised' = raised \cup flag
    BY <1>1, <1>4 DEF OfRead, UartInv, QuietInv
  <2> QED
    BY <1>1, <1>2, <1>4, <2>1
    DEF UartInv, TrueInv, OneShotInv, ErrorsInv, ResultInv, Reading, Enabling
<1>5. ASSUME driver # "ring", rpc # "idle" PROVE BytesInv'
  <2>1. \A i \in 1 .. Len(got') - 1 : Stale(i)' \/ got'[i + 1] = got'[i] + 1
    BY <1>1, <1>5 DEF UartInv, TrueInv, OneShotInv, BytesInv, Stale
  <2>2. ASSUME dmar, rx_dma.left > 0
        PROVE  data' = arrived' /\ (got = <<>> \/ Stale(Len(got))' \/ data' = got[Len(got)] + 1)
    <3>1. ~rxne
      BY <1>1, <2>2, FreeFacts
    <3> QED
      BY <1>1, <1>5, <2>2, <3>1 DEF UartInv, TrueInv, OneShotInv, BytesInv, Stale
  <2>3. rpc \in {"cr1", "cr3"} /\ ~detect => data' = arrived'
    BY <1>1
  <2> QED
    BY <1>1, <2>1, <2>2, <2>3 DEF BytesInv
<1>6. ASSUME driver # "ring", rpc # "idle" PROVE BadInv'
  <2>1. arrived' \notin bad /\ arrived' \notin 0 .. arrived
    BY <1>1 DEF UartInv, TrueInv, UartTypes
  <2>2. \A i \in 1 .. Len(got) : got[i] \in bad' => got[i] \in bad
    BY <1>1, <2>1, GotFacts DEF UartInv, TrueInv
  <2>3. \A i \in 1 .. Len(got) - 1 : got[i] \notin bad'
    BY <1>6, <2>2, GotFacts DEF UartInv, TrueInv, OneShotInv, BadInv
  <2>4. ~Reported(flags) /\ sread \subseteq flags
    BY <1>1, <1>6, FreeFacts DEF UartInv, TrueInv, UartTypes
  <2>5. ASSUME dmar, got # <<>> PROVE got[Len(got)] \notin bad'
    BY <1>6, <2>2, <2>4, <2>5, GotFacts DEF UartInv, TrueInv, OneShotInv, BadInv
  <2>6. ASSUME dmar, data' \in bad' PROVE Reported(flags \ sread)'
    <3>1. CASE data' \in bad
      <4>1. rxne /\ data \in bad
        BY <1>1, <2>1, <3>1
      <4>2. Reported(flags \ sread)
        BY <1>6, <2>6, <4>1 DEF UartInv, TrueInv, OneShotInv, BadInv
      <4> QED
        BY <2>4, <4>2 DEF Reported
    <3>2. CASE data' \notin bad
      <4>1. Reported(flag)
        BY <1>1, <1>6, <2>6, <3>2
      <4> QED
        BY <1>1, <2>4, <4>1 DEF Reported
    <3> QED
      BY <3>1, <3>2
  <2>7. Enabling' => bad' = {}
    BY <1>1, <1>6 DEF UartInv, TrueInv, OneShotInv, BadInv, ErrorsInv, Enabling
  <2> QED
    BY <1>1, <2>3, <2>5, <2>6, <2>7 DEF BadInv
<1>7. ASSUME driver = "ring" PROVE RingInv'
  <2>1. bad \subseteq bad'
    BY <1>1
  <2>2. \A i \in 1 .. Len(got') :
          Before(i)' < got'[i] /\ Before(i)' + 1 .. got'[i] - 1 \subseteq bad'
    BY <1>1, <1>7, <2>1 DEF UartInv, TrueInv, RingInv, Before
  <2>3. Newest' = Newest
    BY <1>1 DEF Newest
  <2>4. Newest' + 1 .. arrived' - 1 \subseteq bad'
    <3>1. Newest < arrived => arrived \in bad
      BY <1>1, <1>7 DEF UartInv, TrueInv, RingInv, Free
    <3> QED
      BY <1>1, <1>7, <2>1, <2>3, <3>1, GotFacts DEF UartInv, TrueInv, RingInv, UartTypes
  <2>5. CASE rxne
    <3>1. ~DmaPending'
      BY <1>1, <2>5 DEF DmaPending, Free
    <3>2. arrived' \in bad'
      BY <1>1, <1>7, <2>5 DEF flag
    <3>3. rpc \notin {"cr1", "cr3"}
      BY <1>1, <1>7, <2>5 DEF UartInv, TrueInv, UartTypes
    <3> QED
      BY <1>1, <1>7, <2>2, <2>4, <3>1, <3>2, <3>3 DEF UartInv, TrueInv, RingInv
  <2>6. CASE ~rxne
    <3>1. DmaPending' <=> dmar
      BY <1>1, <1>7, <2>6 DEF DmaPending, UartInv, TrueInv, RingInv, QuietInv
    <3>2. ~dmar => arrived' \in bad'
      BY <1>1, <1>7
    <3>3. data' = arrived' /\ Newest' < arrived'
      BY <1>1, <2>3, <2>6, GotFacts DEF UartInv, TrueInv, UartTypes
    <3> QED
      BY <1>1, <1>7, <2>2, <2>4, <3>1, <3>2, <3>3 DEF UartInv, TrueInv, RingInv
  <2> QED
    BY <2>5, <2>6
<1> QED
  BY <1>1, <1>3, <1>4, <1>5, <1>6, <1>7 DEF UartInv, TrueInv, OneShotInv, RingInv

LEMMA IdleStep == ASSUME UartInv, LineIdle PROVE TrueInv'
<1>1. /\ arrived' = arrived /\ flags' = flags \cup {"IDLE"} /\ raised' = raised \cup OfRead({"IDLE"})
      /\ bad' = bad /\ data' = data /\ rxne' = rxne
      /\ sread' = sread /\ ie' = ie /\ dmar' = dmar /\ rx_dma' = rx_dma
      /\ rpc' = rpc /\ rsr' = rsr /\ returned' = returned /\ got' = got /\ last' = last
      /\ driver' = driver /\ detect' = detect
  BY DEF LineIdle, regVars, readVars, ghosts, uartConfig
<1>2. "IDLE" \notin Errors
  BY DEF Errors
<1>3. UartTypes'
  BY <1>1 DEF UartInv, TrueInv, UartTypes
<1>4. ASSUME driver # "ring", rpc # "idle" PROVE ErrorsInv' /\ ResultInv'
  <2>1. raised' = raised \cup {"IDLE"}
    BY <1>1, <1>4 DEF OfRead, UartInv, QuietInv, TrueInv, UartTypes
  <2> QED
    BY <1>1, <1>4, <2>1
    DEF UartInv, TrueInv, OneShotInv, ErrorsInv, ResultInv, Reading, Enabling, Errors
<1>5. ASSUME driver # "ring", rpc # "idle" PROVE BytesInv' /\ BadInv'
  <2>1. BytesInv'
    BY <1>1, <1>5 DEF UartInv, TrueInv, OneShotInv, BytesInv, Stale
  <2>2. /\ Reported(flags) => Reported(flags)'
        /\ Reported(flags \ sread) => Reported(flags \ sread)'
    BY <1>1 DEF Reported
  <2>3. BadInv'
    BY <1>1, <1>5, <2>2 DEF UartInv, TrueInv, OneShotInv, BadInv, Enabling
  <2> QED
    BY <2>1, <2>3
<1>6. ASSUME driver = "ring" PROVE RingInv'
  BY <1>1, <1>6 DEF UartInv, TrueInv, RingInv, Newest, Before, DmaPending
<1> QED
  BY <1>1, <1>3, <1>4, <1>5, <1>6 DEF UartInv, TrueInv, OneShotInv, RingInv

LEMMA MoveStep == ASSUME UartInv, RxDmaMoves PROVE TrueInv'
<1> DEFINE n == Len(got)
<1>1. /\ dmar /\ rxne /\ rx_dma.on /\ rx_dma.left > 0
      /\ arrived' = arrived /\ flags' = flags \ sread /\ raised' = raised
      /\ bad' = bad /\ data' = data /\ rxne' = FALSE
      /\ sread' = {} /\ ie' = ie /\ dmar' = dmar
      /\ rpc' = rpc /\ rsr' = rsr /\ returned' = returned /\ last' = last
      /\ driver' = driver /\ detect' = detect
  BY DEF RxDmaMoves, LowersSeen, DmaPending, uartConfig
<1>2. /\ rx_dma'.on = rx_dma.on
      /\ rx_dma'.left = IF driver = "ring" /\ rx_dma.left = 1 THEN RingSize ELSE rx_dma.left - 1
      /\ driver = "ring" => rx_dma'.left > 0
  <2>1. rx_dma \in [on : BOOLEAN, left : Int]
    BY DEF UartInv, QuietInv
  <2>2. rx_dma' = [rx_dma EXCEPT !.left = IF driver = "ring" /\ rx_dma.left = 1 THEN RingSize
                                          ELSE rx_dma.left - 1]
    BY DEF RxDmaMoves
  <2>3. /\ rx_dma'.on = rx_dma.on
        /\ rx_dma'.left = IF driver = "ring" /\ rx_dma.left = 1 THEN RingSize
                          ELSE rx_dma.left - 1
    BY <2>1, <2>2
  <2> QED
    BY <1>1, <2>1, <2>3, UartAssumption
<1>3. /\ n \in Nat /\ got \in Seq(0 .. arrived) /\ data \in 0 .. arrived
      /\ got' = Append(got, data)
  BY GotFacts DEF UartInv, TrueInv, UartTypes, RxDmaMoves
<1>4. /\ got' \in Seq(0 .. arrived) /\ Len(got') = n + 1 /\ got' # <<>>
      /\ got'[n + 1] = data /\ \A i \in 1 .. n : got'[i] = got[i]
  BY <1>3
<1> HIDE DEF n
<1>5. UartTypes'
  BY <1>1, <1>4 DEF UartInv, TrueInv, UartTypes
<1>6. ASSUME driver # "ring", rpc # "idle" PROVE ErrorsInv' /\ ResultInv'
  <2>1. rpc \notin {"clear", "cr1", "cr3", "done"} \/ driver = "tx"
    BY <1>1, <1>6 DEF UartInv, TrueInv, OneShotInv, ErrorsInv, Enabling, QuietInv
  <2> QED
    BY <1>1, <1>6, <2>1 DEF UartInv, TrueInv, OneShotInv, ErrorsInv, ResultInv, Reading, Enabling, UartTypes
<1>7. ASSUME driver # "ring", rpc # "idle" PROVE BytesInv'
  <2>1. n > 0 => Stale(n) \/ data = got[n] + 1
    BY <1>1, <1>3, <1>7, GotFacts DEF n, UartInv, TrueInv, OneShotInv, BytesInv, Stale
  <2>2. \A i \in 1 .. Len(got') - 1 : Stale(i)' \/ got'[i + 1] = got'[i] + 1
    <3> SUFFICES ASSUME NEW i \in 1 .. n PROVE Stale(i) \/ got'[i + 1] = got'[i] + 1
      BY <1>1, <1>3, <1>4 DEF Stale
    <3>1. CASE i = n
      BY <1>3, <1>4, <2>1, <3>1
    <3>2. CASE i # n
      BY <1>3, <1>4, <1>7, <3>2 DEF n, UartInv, TrueInv, OneShotInv, BytesInv
    <3> QED
      BY <3>1, <3>2
  <2>3. Stale(Len(got))' \/ got'[Len(got')] = arrived'
    BY <1>1, <1>3, <1>4, <1>7 DEF n, UartInv, TrueInv, OneShotInv, BytesInv, Stale
  <2> QED
    BY <1>1, <2>2, <2>3 DEF BytesInv
<1>8. ASSUME driver # "ring", rpc # "idle" PROVE BadInv'
  <2>1. \A i \in 1 .. n : got[i] \notin bad
    BY <1>1, <1>3, <1>8, GotFacts DEF n, UartInv, TrueInv, OneShotInv, BadInv
  <2>2. \A i \in 1 .. Len(got') - 1 : got'[i] \notin bad'
    BY <1>1, <1>3, <1>4, <2>1
  <2>3. data \in bad => Reported(flags)'
    <3>1. data \in bad => Reported(flags \ sread)
      BY <1>1, <1>8 DEF UartInv, TrueInv, OneShotInv, BadInv
    <3> QED
      BY <1>1, <3>1 DEF Reported
  <2>4. ~Enabling'
    BY <1>1, <1>8 DEF UartInv, TrueInv, OneShotInv, ErrorsInv, Enabling
  <2> QED
    BY <1>1, <1>3, <1>4, <2>2, <2>3, <2>4 DEF BadInv
<1>9. ASSUME driver = "ring" PROVE RingInv'
  <2>1. data = arrived /\ Newest < arrived /\ Newest + 1 .. arrived - 1 \subseteq bad
    BY <1>1, <1>9 DEF UartInv, TrueInv, RingInv, DmaPending
  <2>2. Newest = IF n = 0 THEN last ELSE got[n]
    BY GotFacts DEF n, Newest, UartInv, TrueInv
  <2>3. Newest' = arrived'
    BY <1>1, <1>3, <1>4, <2>1 DEF Newest
  <2>4. \A i \in 1 .. n : Before(i)' = Before(i)
    BY <1>1, <1>3, <1>4 DEF Before
  <2>5. \A i \in Nat : i = n + 1 => Before(i)' = Newest
    BY <1>1, <1>3, <1>4, <2>2 DEF Before
  <2>6. \A i \in 1 .. Len(got') :
          Before(i)' < got'[i] /\ Before(i)' + 1 .. got'[i] - 1 \subseteq bad'
    <3> SUFFICES ASSUME NEW i \in 1 .. n + 1
                 PROVE  Before(i)' < got'[i] /\ Before(i)' + 1 .. got'[i] - 1 \subseteq bad'
      BY <1>4
    <3>1. CASE i = n + 1
      BY <1>1, <1>4, <2>1, <2>5, <3>1
    <3>2. CASE i # n + 1
      BY <1>1, <1>3, <1>4, <1>9, <2>4, <3>2 DEF n, UartInv, TrueInv, RingInv
    <3> QED
      BY <3>1, <3>2
  <2>7. Newest' + 1 .. arrived' - 1 \subseteq bad' /\ ~(Newest' < arrived')
    BY <1>1, <2>3 DEF UartInv, TrueInv, UartTypes
  <2> QED
    BY <1>1, <1>2, <1>9, <2>6, <2>7 DEF UartInv, TrueInv, RingInv, DmaPending
<1> QED
  BY <1>1, <1>5, <1>6, <1>7, <1>8, <1>9 DEF UartInv, TrueInv, OneShotInv, RingInv

LEMMA InterruptKeepsTrue == ASSUME UartInv, on_usart_interrupt PROVE TrueInv'
<1>1. /\ ~DmaPending
      /\ arrived' = arrived /\ flags' = flags /\ raised' = raised
      /\ bad' = bad /\ data' = data /\ rxne' = rxne
      /\ sread' = flags /\ rx_dma' = rx_dma
      /\ rpc' = rpc /\ rsr' = rsr /\ returned' = returned /\ got' = got /\ last' = last
      /\ driver' = driver /\ detect' = detect
  BY DEF on_usart_interrupt, lineVars, readVars, ghosts, uartConfig
<1>2. ie' \subseteq ie /\ (dmar' => dmar) /\ dmar' \in BOOLEAN
  BY DEF on_usart_interrupt, on_error, UartInv, TrueInv, UartTypes
<1>3. \/ HasErrors /\ ~dmar'
      \/ ~HasErrors /\ dmar' = dmar /\ ie \ {"idleie", "tcie"} \subseteq ie'
  BY DEF on_usart_interrupt, on_error
<1>4. HasErrors => flags \cap Errors # {}
  BY DEF HasErrors, Reported, Errors
<1>6. UartTypes'
  BY <1>1, <1>2 DEF UartInv, TrueInv, UartTypes
<1>7. ASSUME driver # "ring", rpc # "idle" PROVE ErrorsInv' /\ ResultInv'
  BY <1>1, <1>2, <1>3, <1>4, <1>7
  DEF UartInv, TrueInv, OneShotInv, ErrorsInv, ResultInv, Reading, Enabling
<1>8. ASSUME driver # "ring", rpc # "idle" PROVE BytesInv' /\ BadInv'
  <2>1. BytesInv'
    BY <1>1, <1>2, <1>8 DEF UartInv, TrueInv, OneShotInv, BytesInv, Stale
  <2>2. dmar' => ~Reported(flags) /\ ~Reported(flags \ sread)
    BY <1>3 DEF HasErrors, Reported
  <2>3. BadInv'
    BY <1>1, <1>2, <1>8, <2>2 DEF UartInv, TrueInv, OneShotInv, BadInv, Enabling
  <2> QED
    BY <2>1, <2>3
<1>9. ASSUME driver = "ring" PROVE RingInv'
  <2>1. ~DmaPending'
    BY <1>1, <1>2 DEF DmaPending
  <2> QED
    BY <1>1, <1>9, <2>1 DEF UartInv, TrueInv, RingInv, Newest, Before
<1> QED
  BY <1>1, <1>6, <1>7, <1>8, <1>9 DEF UartInv, TrueInv, OneShotInv, RingInv

\* The transmitter's steps touch what the receiver has to do with only by reading SR
\* and by enabling the interrupt of the transmission's end.
LEMMA TransmitKeepsTrue ==
  ASSUME UartInv, TxComplete \/ tx_write \/ flush_begin \/ FlushStep \/ flush_cancelled
  PROVE  TrueInv'
<1>1. /\ arrived' = arrived /\ flags' = flags /\ raised' = raised
      /\ bad' = bad /\ data' = data /\ rxne' = rxne
      /\ dmar' = dmar /\ rx_dma' = rx_dma
      /\ rpc' = rpc /\ rsr' = rsr /\ returned' = returned /\ got' = got /\ last' = last
      /\ driver' = driver /\ detect' = detect
  BY DEF TxComplete, tx_write, flush_begin, FlushStep, flush_register, flush_check, flush_repoll,
         flush_cancelled, lineVars, regVars, readVars, ghosts, uartConfig
<1>2. sread' = sread \/ (sread' = flags /\ Free)
  BY DEF TxComplete, tx_write, flush_begin, FlushStep, flush_register, flush_check, flush_repoll,
         flush_cancelled, FlushGoes
<1>3. ie' = ie \/ ie' = ie \cup {"tcie"}
  BY DEF TxComplete, tx_write, flush_begin, FlushStep, flush_register, flush_check, flush_repoll,
         flush_cancelled, enable_tcie, regVars
<1>4. UartTypes'
  BY <1>1, <1>2 DEF UartInv, TrueInv, UartTypes
<1>5. ASSUME driver # "ring", rpc # "idle" PROVE ErrorsInv' /\ ResultInv'
  BY <1>1, <1>3, <1>5 DEF UartInv, TrueInv, OneShotInv, ErrorsInv, ResultInv, Reading, Enabling
<1>6. ASSUME driver # "ring", rpc # "idle" PROVE BytesInv' /\ BadInv'
  <2>1. BytesInv'
    BY <1>1, <1>6 DEF UartInv, TrueInv, OneShotInv, BytesInv, Stale
  <2>2. Free => ~Reported(flags) /\ ~Reported(flags \ sread)
    BY <1>6, FreeFacts DEF Reported
  <2>3. /\ Reported(flags)' <=> Reported(flags)
        /\ sread' = sread => (Reported(flags \ sread)' <=> Reported(flags \ sread))
    BY <1>1, <1>3 DEF Reported
  <2>4. BadInv'
    BY <1>1, <1>2, <1>6, <2>2, <2>3 DEF UartInv, TrueInv, OneShotInv, BadInv, Enabling
  <2> QED
    BY <2>1, <2>4
<1>7. ASSUME driver = "ring" PROVE RingInv'
  BY <1>1, <1>7 DEF UartInv, TrueInv, RingInv, Newest, Before, DmaPending
<1> QED
  BY <1>1, <1>4, <1>5, <1>6, <1>7 DEF UartInv, TrueInv, OneShotInv, RingInv

ReadingStep ==
  \/ \E len \in Buffers, idle \in BOOLEAN : read_begin(len, idle)
  \/ clear_flags \/ enable_cr1 \/ enable_cr3 \/ check_dmar \/ enable_idle
  \/ poll_transfer \/ poll_sr \/ poll_dr \/ repoll_read
  \/ read_cancelled \/ read_returns

LEMMA ReadKeepsTypes ==
  ASSUME UartInv, ReadingStep
  PROVE  UartTypes' /\ returned' # "gap" /\ rpc' # "unreachable"
<1> USE DEF UartInv, TrueInv, UartTypes, QuietInv, ReadGoes, Ends, neutral, Forgotten,
            LowersSeen, lineVars, regVars, readVars, wakeVars, ghosts, uartConfig
<1>1. ASSUME NEW len \in Buffers, NEW idle, read_begin(len, idle) PROVE UartTypes' /\ returned' # "gap" /\ rpc' # "unreachable"
  BY <1>1, UartAssumption DEF read_begin
<1>2. CASE clear_flags
  BY <1>2 DEF clear_flags
<1>3. CASE enable_cr1
  BY <1>3 DEF enable_cr1
<1>4. CASE enable_cr3
  BY <1>4 DEF enable_cr3
<1>5. CASE check_dmar
  <2>1. UartTypes'
    BY <1>5 DEF check_dmar
  <2>2. rpc' # "unreachable" /\ returned' # "gap"
    BY <1>5 DEF check_dmar, OneShotInv, ErrorsInv, RingInv, FirstError
  <2> QED
    BY <2>1, <2>2
<1>6. CASE enable_idle
  BY <1>6 DEF enable_idle
<1>7. CASE poll_transfer
  BY <1>7 DEF poll_transfer
<1>8. CASE poll_sr
  BY <1>8 DEF poll_sr
<1>9. CASE poll_dr
  <2>1. UartTypes'
    BY <1>9 DEF poll_dr
  <2>2. rpc' # "unreachable" /\ returned' # "gap"
    BY <1>9 DEF poll_dr, FirstError
  <2> QED
    BY <2>1, <2>2
<1>10. CASE repoll_read
  BY <1>10 DEF repoll_read
<1>11. CASE read_cancelled
  <2>1. got' \in Seq(0 .. arrived)
    <3>1. <<>> \in Seq(0 .. arrived) /\ got' \in {got, <<>>}
      BY <1>11 DEF read_cancelled
    <3> QED
      BY <3>1
  <2> QED
    BY <1>11, <2>1 DEF read_cancelled
<1>12. CASE read_returns
  <2>1. got' \in Seq(0 .. arrived)
    <3>1. <<>> \in Seq(0 .. arrived) /\ got' \in {got, <<>>}
      BY <1>12 DEF read_returns
    <3> QED
      BY <3>1
  <2> QED
    BY <1>12, <2>1 DEF read_returns
<1> QED
  BY <1>1, <1>2, <1>3, <1>4, <1>5, <1>6, <1>7, <1>8, <1>9, <1>10, <1>11, <1>12 DEF ReadingStep

LEMMA ReadKeepsErrors ==
  ASSUME UartInv, ReadingStep, driver # "ring", rpc' # "idle"
  PROVE  ErrorsInv'
<1> USE DEF UartInv, TrueInv, OneShotInv, UartTypes, ErrorsInv, QuietInv, Reading, Enabling, ReadGoes, Ends, neutral, Forgotten,
            LowersSeen, lineVars, regVars, readVars, wakeVars, ghosts, uartConfig
<1>1. ASSUME NEW len \in Buffers, NEW idle, read_begin(len, idle) PROVE ErrorsInv'
  BY <1>1, UartAssumption DEF read_begin
<1>2. CASE clear_flags
  BY <1>2 DEF clear_flags
<1>3. CASE enable_cr1
  BY <1>3 DEF enable_cr1
<1>4. CASE enable_cr3
  BY <1>4 DEF enable_cr3
<1>5. CASE check_dmar
  BY <1>5 DEF check_dmar
<1>6. CASE enable_idle
  BY <1>6 DEF enable_idle
<1>7. CASE poll_transfer
  BY <1>7 DEF poll_transfer
<1>8. CASE poll_sr
  BY <1>8 DEF poll_sr
<1>9. CASE poll_dr
  BY <1>9 DEF poll_dr
<1>10. CASE repoll_read
  BY <1>10 DEF repoll_read
<1>11. CASE read_cancelled
  BY <1>11 DEF read_cancelled
<1>12. CASE read_returns
  BY <1>12 DEF read_returns
<1> QED
  BY <1>1, <1>2, <1>3, <1>4, <1>5, <1>6, <1>7, <1>8, <1>9, <1>10, <1>11, <1>12 DEF ReadingStep

LEMMA ReadKeepsBytes ==
  ASSUME UartInv, ReadingStep, driver # "ring", rpc' # "idle"
  PROVE  BytesInv'
<1> USE DEF UartInv, TrueInv, OneShotInv, BytesInv, Stale, QuietInv, ReadGoes, Ends, neutral, Forgotten,
            LowersSeen, lineVars, regVars, readVars, wakeVars, ghosts, uartConfig
<1>1. ASSUME NEW len \in Buffers, NEW idle, read_begin(len, idle) PROVE BytesInv'
  BY <1>1, UartAssumption DEF read_begin
<1>2. CASE clear_flags
  BY <1>2 DEF clear_flags, ErrorsInv, Enabling
<1>3. CASE enable_cr1
  BY <1>3 DEF enable_cr1
<1>4. CASE enable_cr3
  BY <1>4 DEF enable_cr3, ErrorsInv, Enabling
<1>5. CASE check_dmar
  BY <1>5 DEF check_dmar
<1>6. CASE enable_idle
  BY <1>6 DEF enable_idle, Free, DmaPending
<1>7. CASE poll_transfer
  BY <1>7 DEF poll_transfer
<1>8. CASE poll_sr
  BY <1>8 DEF poll_sr
<1>9. CASE poll_dr
  BY <1>9 DEF poll_dr, Free, DmaPending
<1>10. CASE repoll_read
  BY <1>10 DEF repoll_read
<1>11. CASE read_cancelled
  BY <1>11 DEF read_cancelled
<1>12. CASE read_returns
  BY <1>12 DEF read_returns
<1> QED
  BY <1>1, <1>2, <1>3, <1>4, <1>5, <1>6, <1>7, <1>8, <1>9, <1>10, <1>11, <1>12 DEF ReadingStep

LEMMA ReadKeepsBad ==
  ASSUME UartInv, ReadingStep, driver # "ring", rpc' # "idle"
  PROVE  BadInv'
<1> USE DEF UartInv, TrueInv, OneShotInv, BadInv, QuietInv, ErrorsInv, Enabling, ReadGoes, Ends, neutral, Forgotten,
            LowersSeen, lineVars, regVars, readVars, wakeVars, ghosts, uartConfig
<1>1. ASSUME NEW len \in Buffers, NEW idle, read_begin(len, idle) PROVE BadInv'
  BY <1>1, UartAssumption DEF read_begin
<1>2. CASE clear_flags
  BY <1>2 DEF clear_flags
<1>3. CASE enable_cr1
  BY <1>3 DEF enable_cr1
<1>4. CASE enable_cr3
  BY <1>4 DEF enable_cr3, BytesInv
<1>5. CASE check_dmar
  BY <1>5 DEF check_dmar, Reported
<1>6. CASE enable_idle
  BY <1>6, FreeFacts DEF enable_idle
<1>7. CASE poll_transfer
  BY <1>7 DEF poll_transfer, Reported
<1>8. CASE poll_sr
  BY <1>8, FreeFacts DEF poll_sr, Reported
<1>9. CASE poll_dr
  BY <1>9, FreeFacts DEF poll_dr
<1>10. CASE repoll_read
  BY <1>10 DEF repoll_read, Reported
<1>11. CASE read_cancelled
  BY <1>11 DEF read_cancelled
<1>12. CASE read_returns
  BY <1>12 DEF read_returns
<1> QED
  BY <1>1, <1>2, <1>3, <1>4, <1>5, <1>6, <1>7, <1>8, <1>9, <1>10, <1>11, <1>12 DEF ReadingStep

LEMMA ReadKeepsResult ==
  ASSUME UartInv, ReadingStep, driver # "ring", rpc' # "idle"
  PROVE  ResultInv'
<1> USE DEF UartInv, TrueInv, OneShotInv, ErrorsInv, ResultInv, Reading, Errors, FirstError, QuietInv, ReadGoes, Ends, neutral, Forgotten,
            LowersSeen, lineVars, regVars, readVars, wakeVars, ghosts, uartConfig
<1>1. ASSUME NEW len \in Buffers, NEW idle, read_begin(len, idle) PROVE ResultInv'
  BY <1>1, UartAssumption DEF read_begin
<1>2. CASE clear_flags
  BY <1>2 DEF clear_flags
<1>3. CASE enable_cr1
  BY <1>3 DEF enable_cr1
<1>4. CASE enable_cr3
  BY <1>4 DEF enable_cr3
<1>5. CASE check_dmar
  BY <1>5 DEF check_dmar
<1>6. CASE enable_idle
  BY <1>6 DEF enable_idle
<1>7. CASE poll_transfer
  BY <1>7 DEF poll_transfer
<1>8. CASE poll_sr
  BY <1>8 DEF poll_sr
<1>9. CASE poll_dr
  BY <1>9 DEF poll_dr
<1>10. CASE repoll_read
  BY <1>10 DEF repoll_read
<1>11. CASE read_cancelled
  BY <1>11 DEF read_cancelled
<1>12. CASE read_returns
  BY <1>12 DEF read_returns
<1> QED
  BY <1>1, <1>2, <1>3, <1>4, <1>5, <1>6, <1>7, <1>8, <1>9, <1>10, <1>11, <1>12 DEF ReadingStep

LEMMA ReadKeepsRing ==
  ASSUME UartInv, ReadingStep, driver = "ring"
  PROVE  RingInv'
<1> USE DEF UartInv, TrueInv, RingInv, QuietInv, Newest, Before, Free, DmaPending, ReadGoes, Ends, neutral, Forgotten,
            LowersSeen, lineVars, regVars, readVars, wakeVars, ghosts, uartConfig
<1>1. ASSUME NEW len \in Buffers, NEW idle, read_begin(len, idle) PROVE RingInv'
  BY <1>1, UartAssumption DEF read_begin
<1>2. CASE clear_flags
  BY <1>2 DEF clear_flags
<1>3. CASE enable_cr1
  BY <1>3 DEF enable_cr1
<1>4. CASE enable_cr3
  BY <1>4 DEF enable_cr3
<1>5. CASE check_dmar
  BY <1>5 DEF check_dmar
<1>6. CASE enable_idle
  BY <1>6 DEF enable_idle
<1>7. CASE poll_transfer
  BY <1>7 DEF poll_transfer
<1>8. CASE poll_sr
  BY <1>8 DEF poll_sr
<1>9. CASE poll_dr
  BY <1>9 DEF poll_dr
<1>10. CASE repoll_read
  BY <1>10 DEF repoll_read
<1>11. CASE read_cancelled
  BY <1>11 DEF read_cancelled
<1>12. CASE read_returns
  BY <1>12 DEF read_returns
<1> QED
  BY <1>1, <1>2, <1>3, <1>4, <1>5, <1>6, <1>7, <1>8, <1>9, <1>10, <1>11, <1>12 DEF ReadingStep

\* A part of a sequence that begins within it and goes to its end, or one from its start.
LEMMA SubSeqFacts ==
  ASSUME NEW S, NEW s \in Seq(S), NEW a \in Int, NEW b \in Int, 1 <= a, b <= Len(s), a <= b + 1
  PROVE  /\ SubSeq(s, a, b) \in Seq(S) /\ Len(SubSeq(s, a, b)) = b + 1 - a
         /\ \A i \in 1 .. b + 1 - a : SubSeq(s, a, b)[i] = s[a + i - 1]
<1>1. \A i \in a .. b : s[i] \in S
  OBVIOUS
<1>2. /\ SubSeq(s, a, b) \in Seq(S)
      /\ Len(SubSeq(s, a, b)) = IF a <= b THEN b - a + 1 ELSE 0
      /\ \A i \in 1 .. b - a + 1 : SubSeq(s, a, b)[i] = s[a + i - 1]
  BY <1>1, SubSeqProperties
<1> QED
  BY <1>2

LEMMA RingReadsTrue ==
  ASSUME UartInv, NEW len \in Buffers, ring_read(len), driver = "ring" PROVE TrueInv'
<1>1. /\ Free /\ rpc = "ring" /\ arrived' = arrived /\ flags' = flags /\ bad' = bad
      /\ data' = data /\ rxne' = rxne /\ sread' = sread /\ rpc' \in {"done", "register"}
      /\ driver' = driver /\ detect' = detect
  BY DEF ring_read, ReadGoes, lineVars, uartConfig
<1>2. CASE Len(got) > RingSize
  <2>1. /\ got' = <<>> /\ last' = arrived /\ dmar' = FALSE /\ returned' = "ORE"
        /\ rx_dma' = [rx_dma EXCEPT !.on = FALSE]
    <3>1. got # <<>>
      BY <1>2, GotFacts, UartAssumption DEF UartInv, TrueInv
    <3>2. got' = <<>> /\ last' = arrived /\ Ends("ORE") /\ neutral
      BY <1>2, <3>1 DEF ring_read
    <3> QED
      BY <3>2, Zenon DEF neutral, Ends
  <2> rx_dma'.on = FALSE
    BY <2>1 DEF UartInv, QuietInv
  <2>2. UartTypes'
    <3>1. got' \in Seq(0 .. arrived)
      BY <2>1
    <3>2. /\ arrived' \in Nat /\ last' \in 0 .. arrived'
      BY <1>1, <2>1 DEF UartInv, TrueInv, UartTypes
    <3> dmar' \in BOOLEAN
      BY <2>1, Zenon
    <3>3. /\ data' \in 0 .. arrived' /\ rxne' \in BOOLEAN /\ detect' \in BOOLEAN
          /\ bad' \subseteq 0 .. arrived' /\ sread' \subseteq flags' /\ driver' # "tx"
          /\ (detect' => driver' = "rx")
      BY <1>1 DEF UartInv, TrueInv, UartTypes
    <3> QED
      BY <1>1, <3>1, <3>2, <3>3 DEF UartTypes
  <2>3. RingInv'
    BY <1>1, <2>1 DEF UartInv, TrueInv, UartTypes, RingInv, Newest, Before, DmaPending
  <2> QED
    BY <1>1, <2>1, <2>2, <2>3 DEF TrueInv, OneShotInv
<1>3. CASE ~(Len(got) > RingSize) /\ got = <<>>
  <2>1. /\ got' = got /\ last' = last /\ dmar' = dmar /\ rx_dma' = rx_dma /\ returned' = returned
    BY <1>3 DEF ring_read, regVars
  <2>2. UartTypes' /\ RingInv'
    BY <1>1, <2>1 DEF UartInv, TrueInv, UartTypes, RingInv, Newest, Before, DmaPending
  <2> QED
    BY <1>1, <2>1, <2>2 DEF UartInv, TrueInv, OneShotInv
<1>4. CASE ~(Len(got) > RingSize) /\ got # <<>>
  <2> DEFINE n == IF len < Len(got) THEN len ELSE Len(got)
             s == <<last>> \o SubSeq(got, 1, n)
  <2>1. n \in 1 .. Len(got) /\ Len(got) \in Nat
    BY <1>4, GotFacts, UartAssumption DEF UartInv, TrueInv
  <2>2. /\ got' = SubSeq(got, n + 1, Len(got)) /\ last' = got[n]
        /\ returned' = IF Consecutive(s) THEN "bytes" ELSE "gap"
        /\ dmar' = dmar /\ rx_dma' = rx_dma
    BY <1>4 DEF ring_read, Ends, regVars
  <2> HIDE DEF n
  <2>3. got \in Seq(0 .. arrived) /\ last \in 0 .. arrived
    BY DEF UartInv, TrueInv, UartTypes
  <2>4. Len(s) = n + 1 /\ \A i \in 1 .. n : s[i + 1] = got[i] /\ s[i] = Before(i)
    <3>1. Len(SubSeq(got, 1, n)) = n /\ \A i \in 1 .. n : SubSeq(got, 1, n)[i] = got[i]
      BY <2>1, <2>3
    <3>2. SubSeq(got, 1, n) \in Seq(0 .. arrived)
      <4>1. /\ 1 \in Int /\ n \in Int /\ 1 <= 1 /\ n <= Len(got) /\ 1 <= n + 1
        BY <2>1
      <4> QED
        BY <2>3, <4>1, SubSeqFacts, Zenon
    <3>3. Len(s) = n + 1 /\ s[1] = last /\ \A i \in 1 .. n : s[i + 1] = got[i]
      BY <2>1, <2>3, <3>1, <3>2
    <3>4. ASSUME NEW i \in 1 .. n PROVE s[i] = Before(i)
      <4>1. CASE i = 1
        BY <3>3, <4>1 DEF Before
      <4>2. CASE i # 1
        <5>1. i - 1 \in 1 .. n /\ (i - 1) + 1 = i
          BY <2>1, <4>2
        <5> QED
          BY <3>3, <4>2, <5>1 DEF Before
      <4> QED
        BY <4>1, <4>2
    <3> QED
      BY <3>3, <3>4
  <2>5. \A i \in 1 .. Len(got) :
          Before(i) < got[i] /\ Before(i) + 1 .. got[i] - 1 \subseteq bad
    BY <1>1 DEF UartInv, TrueInv, RingInv
  <2>6. returned' = "bytes"
    <3> HIDE DEF s
    <3>1. Consecutive(s)
      BY <2>1, <2>4, <2>5 DEF Consecutive
    <3> QED
      BY <2>2, <3>1
  <2>7. /\ got' \in Seq(0 .. arrived) /\ Len(got') = Len(got) - n
        /\ \A i \in 1 .. Len(got) - n : got'[i] = got[n + i]
    <3> DEFINE a == n + 1
               b == Len(got)
    <3>1. /\ a \in Int /\ b \in Int /\ 1 <= a /\ b <= Len(got) /\ a <= b + 1
      BY <2>1
    <3>4. b + 1 - a = b - n
      BY <2>1
    <3> HIDE DEF a, b
    <3>2. /\ SubSeq(got, a, b) \in Seq(0 .. arrived) /\ Len(SubSeq(got, a, b)) = b + 1 - a
          /\ \A i \in 1 .. b + 1 - a : SubSeq(got, a, b)[i] = got[a + i - 1]
      <4>1. got \in Seq(0 .. arrived)
        BY <2>3
      <4>2. SubSeq(got, a, b) \in Seq(0 .. arrived)
        BY <3>1, <4>1, SubSeqFacts, Zenon
      <4>3. Len(SubSeq(got, a, b)) = b + 1 - a
        BY <3>1, <4>1, SubSeqFacts, Zenon
      <4>4. ASSUME NEW i \in 1 .. b + 1 - a PROVE SubSeq(got, a, b)[i] = got[a + i - 1]
        BY <3>1, <4>1
      <4> QED
        BY <4>2, <4>3, <4>4
    <3>3. \A i \in 1 .. b - n : a + i - 1 = n + i
      BY <2>1, <3>1 DEF a
    <3> QED
      BY <2>2, <3>2, <3>3, <3>4 DEF a, b
  <2>8. UartTypes'
    BY <1>1, <2>1, <2>2, <2>3, <2>7 DEF UartInv, TrueInv, UartTypes
  <2>9. ASSUME NEW i \in 1 .. Len(got) - n
        PROVE  got'[i] = got[n + i] /\ Before(i)' = Before(n + i) /\ n + i \in 1 .. Len(got)
    <3>1. n + i \in 1 .. Len(got) /\ n + i # 1
      BY <2>1
    <3>2. CASE i = 1
      BY <2>1, <2>2, <2>7, <3>1, <3>2 DEF Before
    <3>3. CASE i # 1
      <4>1. i - 1 \in 1 .. Len(got) - n /\ n + (i - 1) = (n + i) - 1
        BY <2>1, <3>3
      <4> QED
        BY <2>7, <3>1, <3>3, <4>1 DEF Before
    <3> QED
      BY <3>2, <3>3
  <2>10. Newest' = Newest
    <3>1. CASE n = Len(got)
      BY <1>4, <2>1, <2>2, <2>7, <3>1 DEF Newest
    <3>2. CASE n # Len(got)
      <4>1. Len(got) - n \in 1 .. Len(got) - n /\ n + (Len(got) - n) = Len(got)
        BY <2>1, <3>2
      <4>2. got' # <<>>
        BY <2>7, <4>1
      <4> QED
        BY <1>4, <2>7, <4>1, <4>2 DEF Newest
    <3> QED
      BY <3>1, <3>2
  <2>11. \A i \in 1 .. Len(got') :
           Before(i)' < got'[i] /\ Before(i)' + 1 .. got'[i] - 1 \subseteq bad'
    BY <1>1, <2>5, <2>7, <2>9
  <2>12. RingInv'
    BY <1>1, <2>2, <2>10, <2>11 DEF UartInv, TrueInv, RingInv, DmaPending
  <2> QED
    BY <1>1, <2>6, <2>8, <2>12 DEF TrueInv, OneShotInv
<1> QED
  BY <1>2, <1>3, <1>4

RingStep == ring_read_begin \/ poll_line \/ poll_dma \/ ring_dropped

LEMMA RingKeepsTrue ==
  ASSUME UartInv, RingStep \/ \E len \in Buffers : ring_read(len) PROVE TrueInv'
<1>1. driver = "ring"
  BY DEF RingStep, ring_read_begin, poll_line, poll_dma, ring_dropped, ring_read, ReadGoes,
         UartInv, QuietInv, TrueInv, UartTypes
<1>2. ASSUME NEW len \in Buffers, ring_read(len) PROVE TrueInv'
  BY <1>1, <1>2, RingReadsTrue
<1>3. CASE RingStep
  <2>1. /\ Free /\ arrived' = arrived /\ bad' = bad /\ data' = data
        /\ driver' = driver /\ detect' = detect
    BY <1>3 DEF RingStep, ring_read_begin, poll_line, poll_dma, ring_dropped, ReadGoes, lineVars,
                ghosts, uartConfig
  <2>2. \/ got' = got /\ last' = last
        \/ got' = <<>> /\ last' = arrived /\ dmar' = FALSE
    BY <1>3 DEF RingStep, ring_read_begin, poll_line, poll_dma, ring_dropped, neutral
  <2>3. \/ rxne' = rxne /\ flags' = flags /\ sread' = sread
        \/ rxne' = FALSE /\ flags' = {} /\ sread' = {}
    BY <1>3 DEF RingStep, ring_read_begin, poll_line, poll_dma, ring_dropped, lineVars
  <2>4. dmar' \in BOOLEAN /\ (dmar' => dmar)
    <3>1. dmar' = dmar \/ dmar' = FALSE
      BY <1>3 DEF RingStep, ring_read_begin, poll_line, poll_dma, ring_dropped, neutral, regVars
    <3>2. dmar \in BOOLEAN
      BY DEF UartInv, TrueInv, UartTypes
    <3>3. CASE dmar' = dmar
      BY <3>2, <3>3
    <3>4. CASE dmar' = FALSE
      BY <3>4, Zenon
    <3> QED
      BY <3>1, <3>3, <3>4
  <2>5. dmar' => rx_dma' = rx_dma
    BY <1>3 DEF RingStep, ring_read_begin, poll_line, poll_dma, ring_dropped, neutral, regVars
  <2>6. rx_dma'.left > 0
    <3>1. neutral => rx_dma'.left = rx_dma.left
      BY DEF neutral, UartInv, QuietInv
    <3>2. \/ rx_dma' = rx_dma \/ rx_dma' = [rx_dma EXCEPT !.on = TRUE]
          \/ rx_dma' = [on |-> FALSE, left |-> RingSize] \/ neutral
      BY <1>3 DEF RingStep, ring_read_begin, poll_line, poll_dma, ring_dropped, regVars
    <3> QED
      BY <1>1, <3>1, <3>2, UartAssumption DEF UartInv, TrueInv, RingInv, QuietInv
  <2>7. /\ rpc' \in {"idle", "cr1", "ring", "done", "dma", "pending"}
        /\ rpc' = "cr1" => rxne' = FALSE
        /\ returned' # "gap"
    BY <1>3 DEF RingStep, ring_read_begin, poll_line, poll_dma, ring_dropped, ReadGoes, Ends,
                Forgotten, FirstError, UartInv, TrueInv
  <2>8. UartTypes'
    <3>1. got' \in Seq(0 .. arrived) /\ last' \in 0 .. arrived
      <4>1. <<>> \in Seq(0 .. arrived)
        OBVIOUS
      <4>2. got \in Seq(0 .. arrived) /\ last \in 0 .. arrived /\ arrived \in 0 .. arrived
        BY DEF UartInv, TrueInv, UartTypes
      <4> QED
        BY <2>2, <4>1, <4>2
    <3> QED
      BY <1>1, <2>1, <2>3, <2>4, <3>1 DEF UartInv, TrueInv, UartTypes
  <2>9. ~DmaPending' /\ ~DmaPending
    BY <2>1, <2>3, <2>4, <2>5 DEF DmaPending, Free
  <2>10. \/ got' = got /\ last' = last /\ Newest' = Newest
         \/ got' = <<>> /\ Newest' = arrived
    BY <2>2 DEF Newest
  <2>11. \A i \in 1 .. Len(got') :
           Before(i)' < got'[i] /\ Before(i)' + 1 .. got'[i] - 1 \subseteq bad'
    BY <1>1, <2>1, <2>10 DEF UartInv, TrueInv, RingInv, Before
  <2>12. Newest' + 1 .. arrived' - 1 \subseteq bad' /\ (Newest' < arrived' => arrived' \in bad')
    BY <1>1, <2>1, <2>9, <2>10 DEF UartInv, TrueInv, RingInv, UartTypes
  <2> QED
    BY <1>1, <2>1, <2>6, <2>7, <2>8, <2>9, <2>11, <2>12 DEF TrueInv, OneShotInv, RingInv
<1> QED
  BY <1>2, <1>3

LEMMA ReadingSame == ASSUME ReadingStep PROVE driver' = driver
  BY DEF ReadingStep, read_begin, clear_flags, enable_cr1, enable_cr3, check_dmar, enable_idle,
         poll_transfer, poll_sr, poll_dr, repoll_read, read_cancelled, read_returns, uartConfig

LEMMA ReadingKeepsTrue == ASSUME UartInv, ReadingStep PROVE TrueInv'
  BY ReadKeepsTypes, ReadKeepsErrors, ReadKeepsBytes, ReadKeepsBad, ReadKeepsResult, ReadKeepsRing,
     ReadingSame DEF TrueInv, OneShotInv, RingInv

LEMMA TrueInvStep == ASSUME UartInv, UartNext PROVE TrueInv'
<1>1. CASE ReadingStep
  BY <1>1, ReadingKeepsTrue
<1>2. CASE RingStep \/ \E len \in Buffers : ring_read(len)
  BY <1>2, RingKeepsTrue
<1>3. CASE TxComplete \/ tx_write \/ flush_begin \/ FlushStep \/ flush_cancelled
  BY <1>3, TransmitKeepsTrue
<1> QED
  BY <1>1, <1>2, <1>3, ByteStep, IdleStep, MoveStep, InterruptKeepsTrue
  DEF UartNext, ReadStep, ReadingStep, RingStep

-------------------------------------------------------------------------------
(* The drivers together.                                                   *)

PeripheralsInv == EdgeInv /\ CaptureInv /\ SampleInv /\ UartInv

LEMMA PeripheralsInvInit == Init => PeripheralsInv
  BY EdgeInvInit, CaptureInvInit, SampleInvInit, QuietInvInit, TrueInvInit
  DEF Init, PeripheralsInv, UartInv

\* The variables that no step changes keep the part of the invariant about them.
LEMMA PeripheralsInvUnchanged ==
  /\ EdgeInv /\ UNCHANGED extiVars => EdgeInv'
  /\ CaptureInv /\ UNCHANGED captureVars => CaptureInv'
  /\ SampleInv /\ UNCHANGED adcVars => SampleInv'
  /\ UartInv /\ UNCHANGED uartVars => UartInv'
<1>1. EdgeInv /\ UNCHANGED extiVars => EdgeInv'
  BY DEF EdgeInv, extiVars, extiRegs
<1>2. CaptureInv /\ UNCHANGED captureVars => CaptureInv'
  BY DEF CaptureInv, captureVars
<1>3. SampleInv /\ UNCHANGED adcVars => SampleInv'
  BY DEF SampleInv, adcVars, adcRegs
<1>4. UartInv /\ UNCHANGED uartVars => UartInv'
  <2> SUFFICES ASSUME UartInv, UNCHANGED uartVars PROVE UartInv'
    OBVIOUS
  <2> USE DEF uartVars, lineVars, regVars, readVars, ghosts, uartConfig
  <2>1. QuietInv' /\ UartTypes'
    BY DEF UartInv, TrueInv, QuietInv, UartTypes
  <2>2. OneShotInv'
    BY DEF UartInv, TrueInv, OneShotInv, ErrorsInv, BytesInv, BadInv, ResultInv, Reading,
           Enabling, Stale, Reported
  <2>3. RingInv'
    BY DEF UartInv, TrueInv, RingInv, Newest, Before, DmaPending
  <2> QED
    BY <2>1, <2>2, <2>3 DEF UartInv, TrueInv
<1> QED
  BY <1>1, <1>2, <1>3, <1>4

LEMMA PeripheralsInvStep == PeripheralsInv /\ [Next]_vars => PeripheralsInv'
<1> SUFFICES ASSUME PeripheralsInv, [Next]_vars PROVE PeripheralsInv'
  OBVIOUS
<1>1. CASE ExtiNext /\ UNCHANGED <<captureVars, adcVars, uartVars>>
  BY <1>1, EdgeInvStep, PeripheralsInvUnchanged DEF PeripheralsInv
<1>2. CASE CaptureNext /\ UNCHANGED <<extiVars, adcVars, uartVars>>
  BY <1>2, CaptureInvStep, PeripheralsInvUnchanged DEF PeripheralsInv
<1>3. CASE AdcNext /\ UNCHANGED <<extiVars, captureVars, uartVars>>
  BY <1>3, SampleInvStep, PeripheralsInvUnchanged DEF PeripheralsInv
<1>4. CASE UartNext /\ UNCHANGED <<extiVars, captureVars, adcVars>>
  BY <1>4, QuietInvStep, TrueInvStep, PeripheralsInvUnchanged DEF PeripheralsInv, UartInv
<1>5. CASE UNCHANGED vars
  BY <1>5, PeripheralsInvUnchanged DEF PeripheralsInv, vars
<1> QED
  BY <1>1, <1>2, <1>3, <1>4, <1>5 DEF Next

LEMMA PeripheralsInvAlways == Spec => []PeripheralsInv
  BY PeripheralsInvInit, PeripheralsInvStep, PTL DEF Spec

\* ExtiInputFuture, InputCaptureFuture and the ADC drivers' read(): no wait ends by
\* an event that is not its own, whatever the lines, channels and inputs in use and
\* however handlers, edges and cancelled waits interleave.
THEOREM WaitsAlwaysTruthful == Spec => []WaitsAreTruthful
<1>1. PeripheralsInv => WaitsAreTruthful
  BY DEF PeripheralsInv, EdgeInv, CaptureInv, SampleInv, WaitsAreTruthful, EdgeIsAwaited,
         CaptureIsAwaited, SampleIsOwn
<1> QED
  BY <1>1, PeripheralsInvAlways, PTL

\* inner_read_run's on_drop and stop_uart: a read that ends or is cancelled leaves
\* every reception interrupt and the DMA request off, whatever the buffer lengths,
\* the number of bytes and the errors of the line.
THEOREM AlwaysQuietOutsideRead == Spec => []QuietOutsideRead
<1>1. PeripheralsInv => QuietOutsideRead
  BY DEF PeripheralsInv, UartInv, QuietInv, QuietOutsideRead
<1> QED
  BY <1>1, PeripheralsInvAlways, PTL

\* read, read_until_idle and RingBufferedUartRx::read: what a read returns is
\* consecutive bytes of the line, no byte but the last came with an error whose
\* interrupt was enabled, and the end it reports is one that came, whatever the
\* buffer lengths, the ring, the errors and the number of bytes.
THEOREM ReadsAlwaysTrue == Spec => []ReadIsTrue
<1>1. PeripheralsInv => ReadIsTrue
  <2> SUFFICES ASSUME UartInv PROVE ReadIsTrue
    BY DEF PeripheralsInv
  <2>1. returned # "gap" /\ rpc # "unreachable"
    BY DEF UartInv, TrueInv
  <2>2. ASSUME driver = "rx", rpc = "done"
        PROVE  BytesInv /\ BadInv /\ ResultInv
    BY <2>2 DEF UartInv, TrueInv, OneShotInv
  <2> QED
    BY <2>1, <2>2 DEF ReadIsTrue, BytesInv, BadInv, ResultInv, Stale
<1> QED
  BY <1>1, PeripheralsInvAlways, PTL

================================================================================
