------------------------------- MODULE DmaIndex -------------------------------
(***************************************************************************)
(* The position arithmetic of the DMA ring buffers.  A DmaIndex counts the *)
(* passes over a buffer of Cap slots and the slot within the pass; a ring  *)
(* buffer compares its own index with the one it reconstructs from the     *)
(* DMA channel's transfer-complete counter and remaining-transfers         *)
(* register.                                                               *)
(***************************************************************************)
EXTENDS Integers

CONSTANT Cap    \* slots of the DMA buffer (mem_len)

\* AnyChannel::configure asserts 0 < mem_len <= 0xFFFF.  A buffer of one
\* slot has no half-transfer interrupt and is left out.
ASSUME CapAssumption == Cap \in 2 .. 65535

Index == [complete_count : Nat, pos : Nat]

ZeroIndex == [complete_count |-> 0, pos |-> 0]

as_index(ix, offset) == (ix.pos + offset) % Cap

\* Mutant: the position as read, although a wrap may not have been counted yet.
dma_sync_unclamped(ix, count_diff, remaining) ==
  [complete_count |-> ix.complete_count + count_diff, pos |-> Cap - remaining]

\* count_diff is the value taken from the transfer-complete counter and
\* remaining the NDTR register, read in this order.
dma_sync(ix, count_diff, remaining) ==
  LET p == Cap - remaining
  IN  [complete_count |-> ix.complete_count + count_diff,
       pos |-> IF p < ix.pos /\ count_diff = 0 THEN Cap - 1 ELSE p]

advance(ix, steps) ==
  [complete_count |-> ix.complete_count + (ix.pos + steps) \div Cap,
   pos |-> (ix.pos + steps) % Cap]

\* normalize() subtracts this from both indices.
MinCount(lhs, rhs) ==
  IF lhs.complete_count <= rhs.complete_count
  THEN lhs.complete_count
  ELSE rhs.complete_count

Lower(ix, passes) == [ix EXCEPT !.complete_count = @ - passes]

diff(lhs, rhs) ==
  (lhs.complete_count * Cap + lhs.pos) - (rhs.complete_count * Cap + rhs.pos)

===============================================================================
