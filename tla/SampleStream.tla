----------------------------- MODULE SampleStream -----------------------------
(***************************************************************************)
(* What a readable ring buffer promises its caller, whatever it does to    *)
(* keep the promise: elements arrive in the order of their numbers, each   *)
(* read returns the elements that follow the last one returned, and an     *)
(* element is skipped only by a reset, which follows either an explicit    *)
(* clear or an overrun that really happened.  This is the reference state  *)
(* machine of the driver's property test (Status::Available(x) with        *)
(* x = produced - next, Status::Failed once x exceeds the capacity), with  *)
(* the elements' identity added and reads that overlap the producer.       *)
(***************************************************************************)
EXTENDS Integers, Sequences

CONSTANT Cap

VARIABLES
  produced,   \* elements that have arrived
  next,       \* number of the next element to return
  delivered,  \* the elements returned by the last successful read
  status      \* outcome of the last operation

streamVars == <<produced, next, delivered, status>>

StreamInit ==
  /\ produced = 0
  /\ next = 0
  /\ delivered = <<>>
  /\ status = "ok"

Produce ==
  /\ produced' = produced + 1
  /\ UNCHANGED <<next, delivered, status>>

\* A read returns n elements, all of which have arrived.
Deliver(n) ==
  /\ n <= produced - next
  /\ next' = next + n
  /\ delivered' = [i \in 1 .. n |-> next + i - 1]
  /\ status' = "ok"
  /\ UNCHANGED produced

\* An error is reported only when an unread element has been overwritten.
Fail ==
  /\ produced - next > Cap
  /\ status' = "overrun"
  /\ delivered' = <<>>
  /\ UNCHANGED <<produced, next>>

Clear ==
  /\ status' = "clear"
  /\ delivered' = <<>>
  /\ UNCHANGED <<produced, next>>

\* The reset of a failed or cleared buffer skips what has arrived.
Discard ==
  /\ status \in {"overrun", "clear"}
  /\ next' = produced
  /\ status' = "ok"
  /\ delivered' = <<>>
  /\ UNCHANGED produced

StreamNext ==
  Produce \/ (\E n \in 0 .. Cap : Deliver(n)) \/ Fail \/ Clear \/ Discard

StreamSpec == StreamInit /\ [][StreamNext]_streamVars

===============================================================================
