---------------------------------- MODULE Rcc ----------------------------------
(***************************************************************************)
(* Reset and clock control: the enable bit of every peripheral, and the    *)
(* counts that are kept when several peripherals share one bit.            *)
(***************************************************************************)
EXTENDS Naturals, FiniteSets

CONSTANTS
  Peripheral,   \* the peripherals with a clock
  EnableBit     \* the xxxEN bit of each; several may share one

Bits == {EnableBit[p] : p \in Peripheral}
Sharing(b) == {p \in Peripheral : EnableBit[p] = b}

\* Counting by the generator, over all peripherals of the chip.
rcc_field_count(b) == Cardinality(Sharing(b))
needs_refcount(b) == rcc_field_count(b) > 1

\* en: the enable bits set; refcount: REFCOUNTS; fresh: the peripherals whose registers have their reset values.
RccInit == [en |-> {}, refcount |-> [b \in Bits |-> 0], fresh |-> Peripheral]

\* Mutant: the count is kept, but the bit is reset by every user.
enable_and_reset_always(rcc, p) ==
  LET b == EnableBit[p] IN
  [rcc EXCEPT !.refcount[b] = IF needs_refcount(b) THEN @ + 1 ELSE @,
              !.en = @ \cup {b}, !.fresh = @ \cup Sharing(b)]

enable_and_reset(rcc, p) ==
  LET b == EnableBit[p]
      counted == [rcc EXCEPT !.refcount[b] = IF needs_refcount(b) THEN @ + 1 ELSE @]
  IN IF counted.refcount[b] > 1
     THEN counted
     ELSE [counted EXCEPT !.en = @ \cup {b}, !.fresh = @ \cup Sharing(b)]

\* Mutant: the count is kept but not looked at.
disable_always(rcc, p) ==
  LET b == EnableBit[p] IN
  [rcc EXCEPT !.refcount[b] = IF needs_refcount(b) THEN @ - 1 ELSE @,
              !.en = @ \ {b}]

disable(rcc, p) ==
  LET b == EnableBit[p]
      counted == [rcc EXCEPT !.refcount[b] = IF needs_refcount(b) THEN @ - 1 ELSE @]
  IN IF counted.refcount[b] > 0
     THEN counted
     ELSE [counted EXCEPT !.en = @ \ {b}]

================================================================================
