------------------------------ MODULE DmaChannel ------------------------------
(***************************************************************************)
(* One DMA channel as the ring buffers use it: the channel registers, the  *)
(* controller that moves elements, the interrupt handler and the operations*)
(* of AnyChannel.  The controller runs concurrently with everything; the   *)
(* interrupt handler preempts the tasks (DMA interrupts have the highest   *)
(* priority, P0, by default), so every task step of the modules that       *)
(* extend this one is guarded by ~IrqPending.                              *)
(*                                                                         *)
(* Element numbers: the controller moves elements 0, 1, 2, ... in order.   *)
(* pass is the number of the element that goes with slot 0 of the pass in  *)
(* progress, so pass + pos elements have been moved.                       *)
(***************************************************************************)
EXTENDS DmaIndex

CONSTANT MaxElements    \* bound: elements moved in circular mode

ASSUME MaxElementsAssumption == MaxElements \in Nat

VARIABLES
  cr,              \* control register: en, circ, htie, tcie
  htif,            \* half-transfer flag
  tcif,            \* transfer-complete flag
  pos,             \* Cap - NDTR
  pass,            \* number of the element of slot 0 in this pass
  complete_count,  \* ChannelState.complete_count
  waker,           \* ChannelState.waker holds the task's waker
  woken            \* the task has been woken and not polled since

channelVars == <<cr, htif, tcif, pos, pass, complete_count, waker, woken>>

Remaining == Cap - pos

Moved == pass + pos

Half == Cap \div 2

LastOfPass == pos + 1 = Cap

ChannelTypeOK ==
  /\ cr \in [en : BOOLEAN, circ : BOOLEAN, htie : BOOLEAN, tcie : BOOLEAN]
  /\ htif \in BOOLEAN
  /\ tcif \in BOOLEAN
  /\ pos \in 0 .. Cap
  /\ pass \in Nat
  /\ complete_count \in Nat
  /\ waker \in BOOLEAN
  /\ woken \in BOOLEAN

\* A channel at rest whose earlier plain transfers have completed: the handler
\* has counted them, and nobody takes the count of a plain transfer.
ChannelInit(transfers) ==
  /\ cr = [en |-> FALSE, circ |-> FALSE, htie |-> FALSE, tcie |-> FALSE]
  /\ htif = FALSE
  /\ tcif = FALSE
  /\ pos = 0
  /\ pass = 0
  /\ complete_count = transfers
  /\ waker = FALSE
  /\ woken = FALSE

-------------------------------------------------------------------------------
(* The controller. *)

\* One element is moved.  In circular mode NDTR reloads at the end of the
\* pass, otherwise the channel runs dry with NDTR = 0.  The transfer-complete
\* interrupt is served within one pass: a pass never ends with tcif still set.
MoveElement ==
  /\ cr.en
  /\ pos < Cap
  /\ cr.circ => Moved < MaxElements
  /\ LastOfPass => ~tcif
  /\ pos' = IF LastOfPass /\ cr.circ THEN 0 ELSE pos + 1
  /\ pass' = IF LastOfPass /\ cr.circ THEN pass + Cap ELSE pass
  /\ htif' = (htif \/ pos + 1 = Half)
  /\ tcif' = (tcif \/ LastOfPass)
  /\ UNCHANGED <<cr, complete_count, waker, woken>>

-------------------------------------------------------------------------------
(* AnyChannel::on_irq.  A transfer error (teif) panics and is left out. *)

IrqPending == (htif /\ cr.htie) \/ (tcif /\ cr.tcie)

\* AtomicWaker::wake, and AtomicWaker::register at the start of a poll.
Wake == waker' = FALSE /\ woken' = (woken \/ waker)
Register == waker' = TRUE /\ woken' = FALSE

on_irq_half ==
  /\ htif /\ cr.htie
  /\ htif' = FALSE
  /\ Wake
  /\ UNCHANGED <<cr, tcif, pos, pass, complete_count>>

\* Mutant: the handler leaves a channel that has run dry enabled.
on_irq_complete_enabled ==
  /\ ~(htif /\ cr.htie)
  /\ tcif /\ cr.tcie
  /\ tcif' = FALSE
  /\ complete_count' = complete_count + 1
  /\ Wake
  /\ UNCHANGED <<cr, htif, pos, pass>>

on_irq_complete ==
  /\ ~(htif /\ cr.htie)
  /\ tcif /\ cr.tcie
  /\ tcif' = FALSE
  /\ complete_count' = complete_count + 1
  /\ cr' = [cr EXCEPT !.en = @ /\ Remaining # 0]
  /\ Wake
  /\ UNCHANGED <<htif, pos, pass>>

on_irq == on_irq_half \/ on_irq_complete

-------------------------------------------------------------------------------
(* AnyChannel's operations, and DmaCtrlImpl::reset_complete_count. *)

start == cr' = [cr EXCEPT !.en = TRUE]

request_pause == cr' = [cr EXCEPT !.en = FALSE]

request_stop ==
  cr' = [en |-> FALSE, circ |-> FALSE, htie |-> FALSE, tcie |-> TRUE]

\* configure with the options of the ring buffers.  It clears the interrupt
\* flags and reloads NDTR; ChannelState.complete_count is not among the
\* things it writes.
configure_ring ==
  /\ htif' = FALSE
  /\ tcif' = FALSE
  /\ pos' = 0
  /\ pass' = 0
  /\ cr' = [en |-> FALSE, circ |-> TRUE, htie |-> TRUE, tcie |-> TRUE]
  /\ UNCHANGED <<complete_count, waker, woken>>

disable_circular_mode == cr' = [cr EXCEPT !.circ = FALSE]

reset_complete_count == complete_count' = 0

===============================================================================
