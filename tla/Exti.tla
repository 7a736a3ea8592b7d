---------------------------------- MODULE Exti ---------------------------------
(***************************************************************************)
(* External interrupts.  A wait selects the edge, clears the pending bit   *)
(* and unmasks its line; the handler, one function for every vector, masks *)
(* the lines that fired and wakes their waiters; a waiter polls its mask   *)
(* bit.  The handlers have one priority, above the tasks'; edges come at   *)
(* any time, between the steps of the handler too.                         *)
(***************************************************************************)
EXTENDS Integers

CONSTANTS
  Lines,    \* the lines in use, each with a task that waits on its pin
  Waits     \* bound: the waits those tasks make

ASSUME ExtiAssumption ==
  /\ Lines \subseteq 0 .. 15
  /\ Waits \subseteq {"high", "low", "rising_edge", "falling_edge", "any_edge"}

VARIABLES
  level,    \* the lines whose pin is high
  rtsr, ftsr, pr, imr,  \* the EXTI registers, as sets of lines
  isr,      \* the bits the handler has read, or Idle
  waiting,  \* what each task waits for, or None
  epc,      \* where each task is
  ewaker,   \* EXTI_WAKERS: the lines with a registered waker
  ewoken,   \* the tasks to be polled
  seen      \* ghost: the lines that had the awaited edge since the wait began

extiRegs == <<rtsr, ftsr, pr, imr>>
extiVars == <<level, extiRegs, isr, waiting, epc, ewaker, ewoken, seen>>

NoWait == "none"
Idle == {-1}    \* not a set of lines

Rising(w) == w \in {"high", "rising_edge", "any_edge"}
Falling(w) == w \in {"low", "falling_edge", "any_edge"}

-------------------------------------------------------------------------------
(* Pins and handler.                                                       *)

\* The edge detector sets the pending bit of a masked line too.
Edge(l) ==
  LET rises == l \notin level
      selected == IF rises THEN rtsr ELSE ftsr
      awaited == waiting[l] # NoWait /\ (IF rises THEN Rising(waiting[l]) ELSE Falling(waiting[l]))
  IN /\ level' = IF rises THEN level \cup {l} ELSE level \ {l}
     /\ pr' = IF l \in selected THEN pr \cup {l} ELSE pr
     /\ seen' = IF awaited THEN seen \cup {l} ELSE seen
     /\ UNCHANGED <<rtsr, ftsr, imr, isr, waiting, epc, ewaker, ewoken>>

\* Read the pending bits, mask the channels that fired, and wake the tasks.
on_irq ==
  /\ isr = Idle /\ pr \cap imr # {}
  /\ isr' = pr
  /\ imr' = imr \ pr
  /\ ewoken' = ewoken \cup (pr \cap ewaker) /\ ewaker' = ewaker \ pr
  /\ UNCHANGED <<level, rtsr, ftsr, pr, waiting, epc, seen>>

\* Mutant: every pending bit is cleared, not only those that were read.
clear_pending_all ==
  /\ isr # Idle
  /\ pr' = {}
  /\ isr' = Idle
  /\ UNCHANGED <<level, rtsr, ftsr, imr, waiting, epc, ewaker, ewoken, seen>>

clear_pending ==
  /\ isr # Idle
  /\ pr' = pr \ isr
  /\ isr' = Idle
  /\ UNCHANGED <<level, rtsr, ftsr, imr, waiting, epc, ewaker, ewoken, seen>>

-------------------------------------------------------------------------------
(* The tasks run while no handler does.                                    *)

LineGoes(l, from, to) == isr = Idle /\ epc[l] = from /\ epc' = [epc EXCEPT ![l] = to]

set_line(reg, l, on) == IF on THEN reg \cup {l} ELSE reg \ {l}

\* Mutant: the pending bit of an earlier edge is not cleared.
new_future_pending(l, w) ==
  /\ LineGoes(l, "idle", IF w \in {"high", "low"} THEN "level" ELSE "poll")
  /\ rtsr' = set_line(rtsr, l, Rising(w)) /\ ftsr' = set_line(ftsr, l, Falling(w))
  /\ pr' = pr
  /\ imr' = imr \cup {l}
  /\ waiting' = [waiting EXCEPT ![l] = w] /\ seen' = seen \ {l}
  /\ UNCHANGED <<level, isr, ewaker, ewoken>>

\* ExtiInputFuture::new, in a critical section.
new_future(l, w) ==
  /\ LineGoes(l, "idle", IF w \in {"high", "low"} THEN "level" ELSE "poll")
  /\ rtsr' = set_line(rtsr, l, Rising(w)) /\ ftsr' = set_line(ftsr, l, Falling(w))
  /\ pr' = pr \ {l}
  /\ imr' = imr \cup {l}
  /\ waiting' = [waiting EXCEPT ![l] = w] /\ seen' = seen \ {l}
  /\ UNCHANGED <<level, isr, ewaker, ewoken>>

\* wait_for_high and wait_for_low look at the pin once the line is unmasked.
check_level(l) ==
  LET there == (waiting[l] = "high") = (l \in level) IN
  /\ LineGoes(l, "level", IF there THEN "done" ELSE "poll")
  /\ seen' = IF there THEN seen \cup {l} ELSE seen
  /\ UNCHANGED <<level, extiRegs, isr, waiting, ewaker, ewoken>>

register_waker(l) ==
  /\ LineGoes(l, "poll", "registered")
  /\ ewaker' = ewaker \cup {l} /\ ewoken' = ewoken \ {l}
  /\ UNCHANGED <<level, extiRegs, isr, waiting, seen>>

read_mask(l) ==
  /\ LineGoes(l, "registered", IF l \in imr THEN "pending" ELSE "done")
  /\ UNCHANGED <<level, extiRegs, isr, waiting, ewaker, ewoken, seen>>

repoll(l) ==
  /\ l \in ewoken /\ LineGoes(l, "pending", "poll")
  /\ UNCHANGED <<level, extiRegs, isr, waiting, ewaker, ewoken, seen>>

\* The future is dropped, when it is ready or before.
drop_future(l) ==
  /\ LineGoes(l, epc[l], "idle") /\ epc[l] \in {"done", "pending"}
  /\ imr' = imr \ {l}
  /\ waiting' = [waiting EXCEPT ![l] = NoWait]
  /\ UNCHANGED <<level, rtsr, ftsr, pr, isr, ewaker, ewoken, seen>>

-------------------------------------------------------------------------------
ExtiInit ==
  /\ level \in SUBSET Lines
  /\ rtsr = {} /\ ftsr = {} /\ pr = {} /\ imr = {}
  /\ isr = Idle
  /\ waiting = [l \in Lines |-> NoWait] /\ epc = [l \in Lines |-> "idle"]
  /\ ewaker = {} /\ ewoken = {} /\ seen = {}

ExtiStep(l) ==
  check_level(l) \/ register_waker(l) \/ read_mask(l) \/ repoll(l)

ExtiNext ==
  \/ on_irq \/ clear_pending
  \/ \E l \in Lines :
       \/ Edge(l) \/ ExtiStep(l) \/ drop_future(l)
       \/ \E w \in Waits : new_future(l, w)

\* The processor serves interrupts; the executor polls the woken tasks in turn,
\* in the time handlers leave: a line fires once until its task unmasks it.
ExtiFairness ==
  /\ WF_extiVars(on_irq \/ clear_pending)
  /\ \A l \in Lines : SF_extiVars(ExtiStep(l))

-------------------------------------------------------------------------------
\* A wait that ends has seen its edge, or for a level found it, since it began:
\* no edge of an earlier wait, of the other direction or of another line ends it.
EdgeIsAwaited == \A l \in Lines : epc[l] = "done" => l \in seen

\* A wait whose edge has come ends, or is cancelled: no edge is lost between the
\* handler's read of the pending bits and its clearing them, nor a level that
\* came while the wait was being set up.
EdgeEndsWait ==
  \A l \in Lines : (waiting[l] # NoWait /\ l \in seen) ~> epc[l] \in {"done", "idle"}

================================================================================
