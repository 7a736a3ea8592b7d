-------------------------- MODULE BufferedUartProofs --------------------------
(***************************************************************************)
(* The buffered UART repeats and reorders nothing, and loses only what it  *)
(* is known to lose, for every length of the rings and every use of the    *)
(* driver, hazardous ones included.                                        *)
(***************************************************************************)
EXTENDS BufferedUart, TLAPS

txNumbers == <<sent, tdr, shift, written, popped>>
rxNumbers == <<arrived, taken, rx_len, lost, cleared, rxne, rx_open>>

\* The bytes in the data and the shift register are the ones between those sent
\* and those still in the ring.
OnTheLine ==
  /\ sent <= popped /\ popped <= written
  /\ shift = 0 => tdr = 0 /\ popped = sent
  /\ shift # 0 => shift = sent + 1
  /\ shift # 0 /\ tdr = 0 => popped = sent + 1
  /\ tdr # 0 => tdr = sent + 2 /\ popped = sent + 2

TxInv ==
  /\ {sent, tdr, shift, written, popped} \subseteq Nat
  /\ written - popped \in 0 .. TxLen
  /\ OnTheLine

RxInv ==
  /\ {arrived, taken, lost, cleared} \subseteq Nat
  /\ rx_len \in 0 .. RxLen
  /\ {rxne, rx_open} \subseteq BOOLEAN
  /\ Accounted

\* The reference count is the number of halves.
Halves ==
  /\ {rx_open, tx_open} \subseteq BOOLEAN
  /\ refcount = (IF rx_open THEN 1 ELSE 0) + (IF tx_open THEN 1 ELSE 0)

LEMMA Lengths ==
  /\ RxLen \in Nat /\ RxLen >= 1
  /\ TxLen \in Nat /\ TxLen >= 1
  BY BufferedUartAssumption

LEMMA InPollBoolean == InPoll \in BOOLEAN
  BY DEF InPoll

\* What a poll may push is free.
LEMMA PushSliceFits ==
  ASSUME written \in Nat, popped \in Nat
  PROVE  PushSlice \in Int /\ PushSlice <= TxLen - (written - popped)
  BY Lengths DEF PushSlice, MinOf

LEMMA PopSliceFits ==
  ASSUME taken \in Nat, rx_len \in Nat
  PROVE  RxPopSlice \in Int /\ RxPopSlice <= rx_len
  BY Lengths DEF RxPopSlice, MinOf

-------------------------------------------------------------------------------
(* The transmitter. *)

LEMMA TxFrame ==
  ASSUME TxInv, UNCHANGED txNumbers
  PROVE  TxInv'
  BY DEF TxInv, OnTheLine, txNumbers

LEMMA TxStep ==
  ASSUME TxInv, [Next]_vars
  PROVE  TxInv'
  <1>1. CASE ByteSent
    BY <1>1, Lengths
       DEF TxInv, OnTheLine, ByteSent, rxVars, losses, rxLine, rxFlags, rxRing, rxTask,
           txVars, txLine, txRing, txTask, fresh, rest, nvic, life
  <1>2. CASE on_interrupt_tx
    BY <1>2, Lengths
       DEF TxInv, OnTheLine, on_interrupt_tx, transmit, transmit_nothing,
           LoadTdr, rxVars, losses, rxLine, rxFlags, rxRing, rxTask, txVars, txLine,
           txRing, txTask, fresh, rest, nvic, life
  <1>3. ASSUME NEW n \in 1 .. TxLen, write_pushes(n) PROVE TxInv'
    <2>1. PushSlice \in Int /\ PushSlice <= TxLen - (written - popped)
      BY PushSliceFits DEF TxInv
    <2>2. /\ UNCHANGED <<sent, tdr, shift, popped>>
          /\ n <= PushSlice /\ written' = written + n
      BY <1>3 DEF write_pushes, txVars, txLine
    <2> QED
      BY <2>1, <2>2, Lengths DEF TxInv, OnTheLine
  <1>4. CASE drop_tx
    BY <1>4, Lengths
       DEF TxInv, OnTheLine, drop_tx, drop_tx_rx, rxVars, losses, rxLine, rxFlags,
           rxRing, rxTask, txVars, txLine, txRing, txTask, fresh, rest, nvic,
           life
  <1>5. CASE new
    BY <1>5, Lengths
       DEF TxInv, OnTheLine, new, Configured, rxVars, losses, rxLine, rxFlags, rxRing,
           rxTask, txVars, txLine, txRing, txTask, fresh, rest, nvic, life
  <1>6. CASE
         \/ ByteArrives
         \/ LineIdle
         \/ on_interrupt
         \/ on_interrupt_tc
         \/ \E n \in 1 .. RxLen : read_takes(n)
         \/ read_finds_empty
         \/ read_registers
         \/ read_cancel
         \/ write_clears
         \/ write_checks
         \/ blocking_write_checks
         \/ write_finds_full
         \/ flush_loads
         \/ flush_returns
         \/ tx_registers
         \/ tx_cancel
         \/ set_config
         \/ set_config_fails
         \/ drop_rx
    <2>1. UNCHANGED txNumbers
      BY <1>6
         DEF txNumbers, ByteArrives, LineIdle, on_interrupt, on_interrupt_tc, read_takes,
             read_finds_empty, read_registers, read_cancel, write_clears,
             write_checks, blocking_write_checks, write_finds_full, flush_loads,
             flush_returns, tx_registers, tx_cancel, set_config,
             set_config_fails, drop_rx, EndPoll, rxVars, losses, rxLine, rxFlags,
             rxRing, rxTask, txVars, txLine, txRing, txTask, fresh, rest, nvic,
             life, drop_tx_rx, complete, receive, transmit, transmit_nothing
    <2> QED
      BY <2>1, TxFrame
  <1>7. CASE UNCHANGED vars
    <2>1. UNCHANGED txNumbers
      BY <1>7
         DEF txNumbers, vars, rxVars, losses, rxLine, rxFlags, rxRing, rxTask, txVars,
             txLine, txRing, txTask, fresh, rest, nvic, life
    <2> QED
      BY <2>1, TxFrame
  <1> QED
    BY <1>1, <1>2, <1>3, <1>4, <1>5, <1>6, <1>7
       DEF Next, Hardware, Handler, Reader, Writer, Caller

-------------------------------------------------------------------------------
(* The receiver. *)

LEMMA RxFrame ==
  ASSUME RxInv, UNCHANGED rxNumbers
  PROVE  RxInv'
  BY DEF RxInv, Accounted, rxNumbers

LEMMA RxStep ==
  ASSUME RxInv, [Next]_vars
  PROVE  RxInv'
  <1>1. CASE ByteArrives
    BY <1>1, Lengths
       DEF RxInv, Accounted, ByteArrives, rxVars, losses, rxLine, rxFlags, rxRing,
           rxTask, txVars, txLine, txRing, txTask, fresh, rest, nvic, life
  <1>2. CASE on_interrupt
    <2>1. /\ UNCHANGED <<arrived, taken, cleared, rx_open>>
          /\ ~rxne' /\ {rxne', rx_open'} \subseteq BOOLEAN
          /\ rx_len' = IF rxne /\ RxRoom THEN rx_len + 1 ELSE rx_len
          /\ lost' = IF rxne /\ rx_open /\ ~RxRoom THEN lost + 1 ELSE lost
      BY <1>2 DEF RxInv, on_interrupt, receive, rxLine, life
    <2>2. CASE rxne /\ RxRoom
      <3>1. rx_len' = rx_len + 1 /\ lost' = lost
        BY <2>1, <2>2
      <3>2. rx_open /\ rxne /\ rx_len < RxLen
        BY <2>2 DEF RxRoom
      <3>3. arrived = taken + rx_len + lost + cleared + 1
        BY <3>2 DEF RxInv, Accounted
      <3>4. arrived' = taken' + rx_len' + lost' + cleared' + 0
        BY <2>1, <3>1, <3>3 DEF RxInv
      <3> QED
        BY <2>1, <3>1, <3>2, <3>4, Lengths DEF RxInv, Accounted
    <2>3. CASE rxne /\ rx_open /\ ~RxRoom
      <3>1. rx_len' = rx_len /\ lost' = lost + 1
        BY <2>1, <2>3
      <3>2. arrived = taken + rx_len + lost + cleared + 1
        BY <2>3 DEF RxInv, Accounted
      <3>3. arrived' = taken' + rx_len' + lost' + cleared' + 0
        BY <2>1, <3>1, <3>2 DEF RxInv
      <3> QED
        BY <2>1, <3>1, <3>3, Lengths DEF RxInv, Accounted
    <2>4. CASE ~rxne \/ ~rx_open
      BY <2>1, <2>4, Lengths DEF RxInv, Accounted, RxRoom
    <2> QED
      BY <2>2, <2>3, <2>4
  <1>3. ASSUME NEW n \in 1 .. RxLen, read_takes(n) PROVE RxInv'
    <2>1. RxPopSlice \in Int /\ RxPopSlice <= rx_len
      BY PopSliceFits DEF RxInv
    <2>2. /\ UNCHANGED <<arrived, lost, cleared, rxne, rx_open>>
          /\ n <= RxPopSlice /\ taken' = taken + n /\ rx_len' = rx_len - n
      BY <1>3 DEF read_takes, rxLine, rxFlags, losses, life
    <2> QED
      BY <2>1, <2>2, Lengths DEF RxInv, Accounted
  <1>4. CASE drop_rx
    <2>1. /\ UNCHANGED <<arrived, rxne>>
          /\ ~rx_open' /\ taken' = 0 /\ rx_len' = 0 /\ lost' = 0 /\ cleared' = 0
          /\ {rxne', rx_open'} \subseteq BOOLEAN
      BY <1>4 DEF RxInv, drop_rx, rxLine, rxFlags
    <2> QED
      BY <2>1, Lengths DEF RxInv, Accounted
  <1>5. CASE new
    <2>1. /\ arrived' = 0 /\ taken' = 0 /\ rx_len' = 0 /\ lost' = 0 /\ cleared' = 0
          /\ ~rxne' /\ {rxne', rx_open'} \subseteq BOOLEAN
      BY <1>5 DEF new
    <2> QED
      BY <2>1, Lengths DEF RxInv, Accounted
  <1>6. CASE
         \/ LineIdle
         \/ ByteSent
         \/ on_interrupt_tx
         \/ read_finds_empty
         \/ read_registers
         \/ read_cancel
         \/ write_clears
         \/ write_checks
         \/ blocking_write_checks
         \/ \E n \in 1 .. TxLen : write_pushes(n)
         \/ write_finds_full
         \/ flush_loads
         \/ flush_returns
         \/ tx_registers
         \/ tx_cancel
         \/ set_config
         \/ set_config_fails
         \/ drop_tx
    <2>1. UNCHANGED rxNumbers
      BY <1>6
         DEF rxNumbers, LineIdle, ByteSent, on_interrupt_tx, read_finds_empty,
             read_registers, read_cancel, write_clears, write_checks,
             blocking_write_checks, write_pushes, write_finds_full, flush_loads,
             flush_returns, tx_registers, tx_cancel, set_config,
             set_config_fails, drop_tx, EndPoll, rxVars, losses, rxLine, rxFlags,
             rxRing, rxTask, txVars, txLine, txRing, txTask, fresh, rest, nvic,
             life, drop_tx_rx, complete, receive, transmit, transmit_nothing
    <2> QED
      BY <2>1, RxFrame
  <1>7. CASE on_interrupt_tc
    <2>1. /\ UNCHANGED <<arrived, taken, rx_len, lost, rx_open>>
          /\ ~rxne' /\ {rxne', rx_open'} \subseteq BOOLEAN
          /\ cleared' = IF rxne /\ rx_open THEN cleared + 1 ELSE cleared
      BY <1>7 DEF RxInv, on_interrupt_tc, clear_rxne, rxLine, rxRing, life
    <2> QED
      BY <2>1, Lengths DEF RxInv, Accounted
  <1>8. CASE UNCHANGED vars
    <2>1. UNCHANGED rxNumbers
      BY <1>8
         DEF rxNumbers, vars, rxVars, losses, rxLine, rxFlags, rxRing, rxTask, txVars,
             txLine, txRing, txTask, fresh, rest, nvic, life
    <2> QED
      BY <2>1, RxFrame
  <1> QED
    BY <1>1, <1>2, <1>3, <1>4, <1>5, <1>6, <1>7, <1>8
       DEF Next, Hardware, Handler, Reader, Writer, Caller

-------------------------------------------------------------------------------
(* The halves of the driver. *)

LEMMA HalvesStep ==
  ASSUME Halves, [Next]_vars
  PROVE  Halves'
  <1>1. CASE drop_rx
    <2>1. /\ rx_open /\ ~rx_open' /\ rx_open' \in BOOLEAN
          /\ tx_open' = tx_open /\ refcount' = refcount - 1
      BY <1>1 DEF Halves, drop_rx, drop_tx_rx
    <2> QED
      BY <2>1 DEF Halves
  <1>2. CASE drop_tx
    <2>1. /\ tx_open /\ ~tx_open' /\ tx_open' \in BOOLEAN
          /\ rx_open' = rx_open /\ refcount' = refcount - 1
      BY <1>2 DEF Halves, drop_tx, drop_tx_rx
    <2> QED
      BY <2>1 DEF Halves
  <1>3. CASE new
    <2>1. rx_open' = TRUE /\ tx_open' = TRUE /\ refcount' = 2
      BY <1>3 DEF new
    <2> QED
      BY <2>1 DEF Halves
  <1>4. CASE
         \/ ByteArrives
         \/ LineIdle
         \/ ByteSent
         \/ on_interrupt
         \/ on_interrupt_tc
         \/ on_interrupt_tx
         \/ \E n \in 1 .. RxLen : read_takes(n)
         \/ read_finds_empty
         \/ read_registers
         \/ read_cancel
         \/ write_clears
         \/ write_checks
         \/ blocking_write_checks
         \/ \E n \in 1 .. TxLen : write_pushes(n)
         \/ write_finds_full
         \/ flush_loads
         \/ flush_returns
         \/ tx_registers
         \/ tx_cancel
         \/ set_config
         \/ set_config_fails
    <2>1. UNCHANGED <<rx_open, tx_open, refcount>>
      BY <1>4
         DEF ByteArrives, LineIdle, ByteSent, on_interrupt, on_interrupt_tc,
             on_interrupt_tx,
             read_takes, read_finds_empty, read_registers, read_cancel,
             write_clears, write_checks, blocking_write_checks, write_pushes,
             write_finds_full, flush_loads, flush_returns, tx_registers,
             tx_cancel, set_config, set_config_fails, rest, life
    <2> QED
      BY <2>1 DEF Halves
  <1>5. CASE UNCHANGED vars
    <2>1. UNCHANGED <<rx_open, tx_open, refcount>>
      BY <1>5 DEF vars, rest, life
    <2> QED
      BY <2>1 DEF Halves
  <1> QED
    BY <1>1, <1>2, <1>3, <1>4, <1>5
       DEF Next, Hardware, Handler, Reader, Writer, Caller

-------------------------------------------------------------------------------
(* The flags and the places of the tasks. *)

\* The type invariant's part that is not about numbers.
Control ==
  /\ {rxne, idle, armed, rx_waker, rx_woken, fresh_rx} \subseteq BOOLEAN
  /\ {tc, tx_waker, tx_done, tx_woken, empty, fresh_tx} \subseteq BOOLEAN
  /\ {irq, pend, rx_open, tx_open, clock} \subseteq BOOLEAN
  /\ cr1 \in [ue : BOOLEAN, rxneie : BOOLEAN, idleie : BOOLEAN, txeie : BOOLEAN,
              tcie : BOOLEAN]
  /\ isr \in {"off", "complete", "transmit"}
  /\ reader \in {"idle", "empty", "parked"}
  /\ writer \in {"idle", "cleared", "checked", "b_checked", "full", "loaded",
                 "flushed", "writing", "flushing"}

LEMMA ControlStep ==
  ASSUME Control, [Next]_vars
  PROVE  Control'
  <1>1. CASE ByteArrives
    BY <1>1, InPollBoolean
       DEF Control, ByteArrives, rxVars, losses, rxLine, rxFlags, rxRing, rxTask,
           txVars, txLine, txRing, txTask, fresh, rest, nvic, life
  <1>2. CASE LineIdle
    <2>1. idle' = TRUE /\ armed' = FALSE /\ fresh_rx' \in BOOLEAN
      BY <1>2, InPollBoolean DEF LineIdle
    <2>2. UNCHANGED <<rxne, tc, irq, pend, rx_waker, tx_waker, tx_done, rx_woken,
                      tx_woken, empty, rx_open, tx_open, clock, fresh_tx, cr1, isr,
                      reader, writer>>
      BY <1>2
         DEF LineIdle, rxVars, losses, rxLine, rxFlags, rxRing, rxTask, txVars, txLine,
             txRing, txTask, fresh, rest, nvic, life
    <2> QED
      BY <2>1, <2>2 DEF Control
  <1>3. CASE ByteSent
    BY <1>3, InPollBoolean
       DEF Control, ByteSent, rxVars, losses, rxLine, rxFlags, rxRing, rxTask, txVars,
           txLine, txRing, txTask, fresh, rest, nvic, life
  <1>4. CASE on_interrupt
    <2>1. {rx_waker', rx_woken'} \subseteq BOOLEAN
      <3>1. rx_waker' \in BOOLEAN
        BY <1>4, Zenon DEF on_interrupt, receive
      <3>2. rx_woken' \in BOOLEAN
        BY <1>4, Zenon DEF on_interrupt, receive
      <3> QED
        BY <3>1, <3>2
    <2>2. /\ pend' = FALSE /\ rxne' = FALSE /\ idle' = FALSE
          /\ isr' \in {"complete", "transmit"}
      BY <1>4 DEF on_interrupt
    <2>3. UNCHANGED <<armed, irq, tc, tx_waker, tx_done, tx_woken, empty, rx_open,
                      tx_open, clock, fresh_rx, fresh_tx, cr1, reader, writer>>
      BY <1>4 DEF on_interrupt, rxLine, txVars, txTask, fresh, life
    <2> QED
      BY <2>1, <2>2, <2>3 DEF Control
  <1>5. CASE on_interrupt_tx
    <2>1. tc' \in BOOLEAN /\ fresh_tx' \in BOOLEAN
      BY <1>5, InPollBoolean
         DEF Control, on_interrupt_tx, transmit, transmit_nothing, LoadTdr
    <2>2. cr1' \in [ue : BOOLEAN, rxneie : BOOLEAN, idleie : BOOLEAN,
                    txeie : BOOLEAN, tcie : BOOLEAN]
      <3>1. CASE transmit
        <4> DEFINE last == popped' = written \/ popped' % TxLen = 0
        <4>1. cr1' = [cr1 EXCEPT !.txeie = TRUE, !.tcie = cr1.tcie \/ last]
          BY <3>1, Zenon DEF transmit
        <4> HIDE DEF last
        <4>2. (cr1.tcie \/ last) \in BOOLEAN
          OBVIOUS
        <4> QED
          BY <4>1, <4>2 DEF Control
      <3>2. CASE transmit_nothing
        <4> DEFINE busy == tdr # 0
        <4>1. cr1' = [cr1 EXCEPT !.txeie = cr1.txeie /\ busy]
          BY <3>2, Zenon DEF transmit_nothing
        <4> HIDE DEF busy
        <4>2. (cr1.txeie /\ busy) \in BOOLEAN
          OBVIOUS
        <4> QED
          BY <4>1, <4>2 DEF Control
      <3> QED
        BY <1>5, <3>1, <3>2 DEF on_interrupt_tx
    <2>3. UNCHANGED <<rxne, idle, armed, irq, pend, rx_waker, tx_waker, tx_done,
                      rx_woken, tx_woken, empty, rx_open, tx_open, clock, fresh_rx,
                      reader, writer>>
          /\ isr' = "off"
      BY <1>5
         DEF on_interrupt_tx, rxVars, losses, rxLine, rxFlags, rxTask, txTask, nvic,
             life
    <2> QED
      BY <2>1, <2>2, <2>3 DEF Control
  <1>6. ASSUME NEW n \in 1 .. RxLen, read_takes(n) PROVE Control'
    <2>1. pend' \in BOOLEAN
      BY <1>6, Zenon DEF read_takes
    <2>2. rx_woken' = FALSE /\ reader' = "idle"
      BY <1>6 DEF read_takes, ReadPolls
    <2>3. UNCHANGED <<rxne, idle, armed, tc, irq, rx_waker, tx_waker, tx_done,
                      tx_woken, empty, rx_open, tx_open, clock, fresh_rx, fresh_tx,
                      cr1, isr, writer>>
      BY <1>6
         DEF read_takes, rxVars, losses, rxLine, rxFlags, rxRing, rxTask, txVars,
             txLine, txRing, txTask, fresh, rest, nvic, life
    <2> QED
      BY <2>1, <2>2, <2>3 DEF Control
  <1>7. CASE read_finds_empty
    BY <1>7, InPollBoolean
       DEF Control, read_finds_empty, ReadPolls, rxVars, losses, rxLine, rxFlags,
           rxRing, rxTask, txVars, txLine, txRing, txTask, fresh, rest, nvic,
           life
  <1>8. CASE read_registers
    BY <1>8, InPollBoolean
       DEF Control, read_registers, EndPoll, rxVars, losses, rxLine, rxFlags, rxRing,
           rxTask, txVars, txLine, txRing, txTask, fresh, rest, nvic, life
  <1>9. CASE read_cancel
    BY <1>9, InPollBoolean
       DEF Control, read_cancel, rxVars, losses, rxLine, rxFlags, rxRing, rxTask,
           txVars, txLine, txRing, txTask, fresh, rest, nvic, life
  <1>10. CASE write_clears
    BY <1>10, InPollBoolean
       DEF Control, write_clears, TxPolls, rxVars, losses, rxLine, rxFlags, rxRing,
           rxTask, txVars, txLine, txRing, txTask, fresh, rest, nvic, life
  <1>11. CASE write_checks
    BY <1>11, InPollBoolean
       DEF Control, write_checks, rxVars, losses, rxLine, rxFlags, rxRing, rxTask,
           txVars, txLine, txRing, txTask, fresh, rest, nvic, life
  <1>12. CASE blocking_write_checks
    <2>1. empty' \in BOOLEAN
      BY <1>12, Zenon DEF blocking_write_checks
    <2>2. tx_woken' = FALSE /\ writer' = "b_checked"
      BY <1>12 DEF blocking_write_checks, TxPolls
    <2>3. UNCHANGED <<rxne, idle, armed, tc, irq, pend, rx_waker, tx_waker, tx_done,
                      rx_woken, rx_open, tx_open, clock, fresh_rx, fresh_tx, cr1,
                      isr, reader>>
      BY <1>12
         DEF blocking_write_checks, rxVars, losses, rxLine, rxFlags, rxRing, rxTask,
             txVars, txLine, txRing, txTask, fresh, rest, nvic, life
    <2> QED
      BY <2>1, <2>2, <2>3 DEF Control
  <1>13. ASSUME NEW n \in 1 .. TxLen, write_pushes(n) PROVE Control'
    BY <1>13, InPollBoolean
       DEF Control, write_pushes, EndPoll, rxVars, losses, rxLine, rxFlags, rxRing,
           rxTask, txVars, txLine, txRing, txTask, fresh, rest, nvic, life
  <1>14. CASE write_finds_full
    <2>1. UNCHANGED <<rxne, idle, armed, tc, irq, pend, rx_waker, tx_waker, tx_done,
                      rx_woken, empty, rx_open, tx_open, clock, cr1, isr, reader>>
      BY <1>14
         DEF write_finds_full, rxVars, losses, rxLine, rxFlags, rxRing, rxTask, txVars,
             txLine, txRing, txTask, fresh, rest, nvic, life
    <2>2. CASE writer' = "full" /\ UNCHANGED <<tx_woken, fresh>>
      BY <2>1, <2>2 DEF Control, fresh
    <2>3. CASE writer' = "idle" /\ EndPoll /\ tx_woken' = FALSE
      BY <2>1, <2>3 DEF Control, EndPoll
    <2> QED
      BY <1>14, <2>2, <2>3 DEF write_finds_full
  <1>15. CASE flush_loads
    BY <1>15, InPollBoolean
       DEF Control, flush_loads, TxPolls, rxVars, losses, rxLine, rxFlags, rxRing,
           rxTask, txVars, txLine, txRing, txTask, fresh, rest, nvic, life
  <1>16. CASE flush_returns
    BY <1>16, InPollBoolean
       DEF Control, flush_returns, EndPoll, rxVars, losses, rxLine, rxFlags, rxRing,
           rxTask, txVars, txLine, txRing, txTask, fresh, rest, nvic, life
  <1>17. CASE tx_registers
    BY <1>17, InPollBoolean
       DEF Control, tx_registers, EndPoll, rxVars, losses, rxLine, rxFlags, rxRing,
           rxTask, txVars, txLine, txRing, txTask, fresh, rest, nvic, life
  <1>18. CASE tx_cancel
    BY <1>18, InPollBoolean
       DEF Control, tx_cancel, rxVars, losses, rxLine, rxFlags, rxRing, rxTask, txVars,
           txLine, txRing, txTask, fresh, rest, nvic, life
  <1>19. CASE set_config
    BY <1>19, InPollBoolean
       DEF Control, set_config, Configured, rxVars, losses, rxLine, rxFlags, rxRing,
           rxTask, txVars, txLine, txRing, txTask, fresh, rest, nvic, life
  <1>20. CASE set_config_fails
    BY <1>20, InPollBoolean
       DEF Control, set_config_fails, rxVars, losses, rxLine, rxFlags, rxRing, rxTask,
           txVars, txLine, txRing, txTask, fresh, rest, nvic, life
  <1>21. CASE drop_rx
    <2>1. irq' \in BOOLEAN /\ clock' \in BOOLEAN
      BY <1>21, Zenon DEF drop_rx, drop_tx_rx
    <2>2. UNCHANGED <<rxne, idle, armed, tc, pend, rx_waker, tx_waker, tx_done,
                      rx_woken, tx_woken, empty, tx_open, fresh_rx, fresh_tx, cr1,
                      isr, reader, writer>>
          /\ rx_open' = FALSE
      BY <1>21
         DEF drop_rx, rxVars, losses, rxLine, rxFlags, rxRing, rxTask, txVars, txLine,
             txRing, txTask, fresh, rest, nvic, life
    <2> QED
      BY <2>1, <2>2 DEF Control
  <1>22. CASE drop_tx
    <2>1. irq' \in BOOLEAN /\ clock' \in BOOLEAN
      BY <1>22, Zenon DEF drop_tx, drop_tx_rx
    <2>2. UNCHANGED <<rxne, idle, armed, tc, pend, rx_waker, tx_waker, tx_done,
                      rx_woken, tx_woken, empty, rx_open, fresh_rx, fresh_tx, cr1,
                      isr, reader, writer>>
          /\ tx_open' = FALSE
      BY <1>22
         DEF drop_tx, rxVars, losses, rxLine, rxFlags, rxRing, rxTask, txVars, txLine,
             txRing, txTask, fresh, rest, nvic, life
    <2> QED
      BY <2>1, <2>2 DEF Control
  <1>23. CASE new
    BY <1>23, InPollBoolean
       DEF Control, new, Configured, rxVars, losses, rxLine, rxFlags, rxRing, rxTask,
           txVars, txLine, txRing, txTask, fresh, rest, nvic, life
  <1>24. CASE on_interrupt_tc
    <2>1. tx_woken' \in BOOLEAN
      BY <1>24, Zenon DEF on_interrupt_tc, complete
    <2>2. cr1' = [cr1 EXCEPT !.tcie = FALSE]
      BY <1>24 DEF on_interrupt_tc, complete
    <2>3. /\ rxne' = FALSE /\ tc' = FALSE /\ tx_done' = TRUE /\ tx_waker' = FALSE
          /\ isr' = "transmit"
      BY <1>24 DEF on_interrupt_tc, complete, clear_rxne
    <2>4. UNCHANGED <<idle, armed, irq, pend, rx_waker, rx_woken, empty, rx_open,
                      tx_open, clock, fresh_rx, fresh_tx, reader, writer>>
      BY <1>24 DEF on_interrupt_tc, rxLine, rxTask, fresh, nvic, life
    <2> QED
      BY <2>1, <2>2, <2>3, <2>4 DEF Control
  <1>25. CASE UNCHANGED vars
    BY <1>25
       DEF Control, vars, rxVars, losses, rxLine, rxFlags, rxRing, rxTask, txVars,
           txLine, txRing, txTask, fresh, rest, nvic, life
  <1> QED
    BY <1>1, <1>2, <1>3, <1>4, <1>5, <1>6, <1>7, <1>8, <1>9, <1>10, <1>11,
       <1>12, <1>13, <1>14, <1>15, <1>16, <1>17, <1>18, <1>19, <1>20, <1>21,
       <1>22, <1>23, <1>24, <1>25
       DEF Next, Hardware, Handler, Reader, Writer, Caller

-------------------------------------------------------------------------------
(* The theorems. *)

IInv == TxInv /\ RxInv /\ Halves /\ Control

LEMMA InitIInv == Init => IInv
  <1> SUFFICES ASSUME Init PROVE IInv
    OBVIOUS
  <1>1. TxInv
    BY Lengths DEF Init, TxInv, OnTheLine
  <1>2. RxInv
    <2>1. /\ arrived = 0 /\ taken = 0 /\ rx_len = 0 /\ lost = 0 /\ cleared = 0
          /\ ~rxne /\ {rxne, rx_open} \subseteq BOOLEAN
      BY DEF Init
    <2> QED
      BY <2>1, Lengths DEF RxInv, Accounted
  <1>3. Halves
    BY DEF Init, Halves
  <1>4. Control
    BY DEF Init, Control, Configured
  <1> QED
    BY <1>1, <1>2, <1>3, <1>4 DEF IInv

LEMMA IInvariant == Spec => []IInv
  <1>1. IInv /\ [Next]_vars => IInv'
    BY TxStep, RxStep, HalvesStep, ControlStep DEF IInv
  <1> QED
    BY InitIInv, <1>1, PTL DEF Spec

\* The driver's state is well formed: neither ring is ever over-full, whatever the
\* handler, the tasks and the drops of the halves do between one another, and
\* drop_tx_rx never takes from a reference count of zero.
THEOREM TypeCorrect == Spec => []TypeOK
  <1>1. IInv => TypeOK
    <2> SUFFICES ASSUME IInv PROVE TypeOK
      OBVIOUS
    <2>1. refcount \in 0 .. 2
      BY DEF IInv, Halves
    <2> QED
      BY <2>1 DEF IInv, TxInv, RxInv, Control, TypeOK
  <1> QED
    BY IInvariant, <1>1, PTL

\* The handler and the reading task together lose a received byte only for want of
\* room or when the handler's writing of SR clears its RXNE, and repeat none.
THEOREM NothingMislaid == Spec => []Accounted
  <1>1. IInv => Accounted
    BY DEF IInv, RxInv
  <1> QED
    BY IInvariant, <1>1, PTL

\* The bytes leave in the order in which they were written: the handler never
\* writes DR over a byte that waits there, and pops none that it does not send.
THEOREM SentOrder == Spec => SentInOrder
  <1>1. IInv /\ [Next]_vars => [sent' \in {sent, sent + 1, 0}]_vars
    <2> SUFFICES ASSUME IInv, Next PROVE sent' \in {sent, sent + 1, 0}
      BY Zenon
    <2>1. CASE ByteSent
      BY <2>1 DEF ByteSent, IInv, TxInv, OnTheLine
    <2>2. CASE new
      BY <2>2 DEF new
    <2>3. CASE
         \/ ByteArrives
         \/ LineIdle
         \/ on_interrupt
         \/ on_interrupt_tc
         \/ on_interrupt_tx
         \/ \E n \in 1 .. RxLen : read_takes(n)
         \/ read_finds_empty
         \/ read_registers
         \/ read_cancel
         \/ write_clears
         \/ write_checks
         \/ blocking_write_checks
         \/ \E n \in 1 .. TxLen : write_pushes(n)
         \/ write_finds_full
         \/ flush_loads
         \/ flush_returns
         \/ tx_registers
         \/ tx_cancel
         \/ set_config
         \/ set_config_fails
         \/ drop_rx
         \/ drop_tx
      BY <2>3
         DEF ByteArrives, LineIdle, on_interrupt, on_interrupt_tc, on_interrupt_tx,
             read_takes,
             read_finds_empty, read_registers, read_cancel, write_clears,
             write_checks, blocking_write_checks, write_pushes,
             write_finds_full, flush_loads, flush_returns, tx_registers,
             tx_cancel, set_config, set_config_fails, drop_rx, drop_tx,
             transmit, transmit_nothing, txVars, txLine
    <2> QED
      BY <2>1, <2>2, <2>3 DEF Next, Hardware, Handler, Reader, Writer, Caller
  <1> QED
    BY IInvariant, <1>1, PTL DEF Spec, SentInOrder

===============================================================================
