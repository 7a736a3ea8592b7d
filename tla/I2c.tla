---------------------------------- MODULE I2c ----------------------------------
(***************************************************************************)
(* The I2C master driver: blocking and asynchronous transactions against   *)
(* the controller, the bus and the interrupt handler.  A transaction is a  *)
(* sequence of operations, each of which becomes a frame; the task goes    *)
(* through the frame in steps named after the flag it waits for.           *)
(*                                                                         *)
(* The controller is modelled from the way the driver uses it: START and   *)
(* STOP requests are executed at the end of the byte in progress, and a    *)
(* byte waits for room in or data from DR.                                 *)
(***************************************************************************)
EXTENDS Integers, Sequences, SequencesExt

CONSTANTS
  MaxOps,     \* bound: operations, over all transactions
  MaxLen,     \* bound: bytes of an operation
  Prompt      \* the driver goes on within the time of one byte on the wire

ASSUME I2cAssumption ==
  /\ MaxOps \in Nat \ {0} /\ MaxLen \in Nat \ {0}
  /\ Prompt \in BOOLEAN

VARIABLES
  reg,      \* CR1, CR2, SR1 and SR2, the bits the driver uses; dr: DR is full
  phase,    \* what the controller is doing on the bus
  shift,    \* a byte is on the wire (transmission)
  other,    \* another master holds the bus
  wire,     \* conditions and bytes on the wire since the transaction's START
  dma,      \* bytes the DMA channel has still to move
  pc,       \* the flag the task waits for, or the step it is about to take
  mode,     \* blocking or async
  ops,      \* the operations of the transaction
  frame,    \* number of the frame in progress
  left,     \* bytes of the frame left to the blocking loops
  polling,  \* where an asynchronous wait is: no, checked or parked
  woken,    \* the task has been woken and not polled since
  result,   \* outcome of the last transaction
  settled,  \* the bus was settled when the transaction began
  begun     \* operations of the transactions begun so far

busVars == <<phase, shift, other, wire>>
callVars == <<mode, ops, settled, begun>>
vars == <<reg, busVars, dma, pc, callVars, frame, left, polling, woken, result>>

Op == [kind : {"read", "write"}, n : 0 .. MaxLen]

-------------------------------------------------------------------------------
(* FrameOptions and operation_frames. *)

FrameOptions == {"FirstAndLastFrame", "FirstFrame", "FirstAndNextFrame",
                 "NextFrame", "LastFrame", "LastFrameNoStop"}

send_start(f) == f \in {"FirstAndLastFrame", "FirstFrame", "FirstAndNextFrame"}
send_stop(f) == f \in {"FirstAndLastFrame", "LastFrame"}

send_nack(f) == f \notin {"FirstAndNextFrame", "NextFrame"}

FrameOf(first, next) ==
  IF first
  THEN [none |-> "FirstAndLastFrame", read |-> "FirstAndNextFrame",
        write |-> "FirstFrame"][next]
  ELSE [none |-> "LastFrame", read |-> "NextFrame",
        write |-> "LastFrameNoStop"][next]

operation_frames(s) ==
  [i \in DOMAIN s |->
     FrameOf(i = 1 \/ s[i - 1].kind # s[i].kind,
             IF i = Len(s) THEN "none" ELSE s[i + 1].kind)]

Current == ops[frame]
Options == operation_frames(ops)[frame]
SingleByte == Current.n = 1

-------------------------------------------------------------------------------
(* The controller and the bus. *)

Txe == phase = "tx" /\ ~reg.dr

Set(bits) == [b \in DOMAIN reg |-> IF b \in bits THEN TRUE ELSE reg[b]]
Clear(bits) == [b \in DOMAIN reg |-> IF b \in bits THEN FALSE ELSE reg[b]]

\* A START that follows bytes still queued in DR waits for them.
GenerateStart ==
  /\ reg.start /\ ~reg.stop /\ ~reg.sb
  /\ \/ phase = "off" /\ ~other
     \/ phase \in {"hold", "rx"}
     \/ Txe /\ ~shift
  /\ reg' = [reg EXCEPT !.start = FALSE, !.sb = TRUE, !.msl = TRUE,
                        !.btf = FALSE, !.dr = FALSE]
  /\ phase' = "started"
  /\ wire' = IF frame = 1 THEN <<"S">> ELSE Append(wire, "S")
  /\ UNCHANGED <<shift, other, dma, pc, callVars, frame, left, polling, woken,
                 result>>

GenerateStop ==
  /\ reg.stop
  /\ phase = "hold" \/ (Txe /\ ~shift)
  /\ reg' = Clear({"stop", "msl", "btf"})
  /\ phase' = "off"
  /\ wire' = Append(wire, "P")
  /\ UNCHANGED <<shift, other, dma, pc, callVars, frame, left, polling, woken,
                 result>>

\* The peer acknowledges the address or does not.
AddressSent ==
  /\ phase \in {"addr_w", "addr_r"} /\ ~reg.addr
  /\ \/ /\ reg' = Set({"addr"})
        /\ wire' = Append(wire, phase)
        /\ phase' = phase
     \/ /\ reg' = Set({"af"})
        /\ wire' = Append(wire, "X")
        /\ phase' = "hold"
  /\ UNCHANGED <<shift, other, dma, pc, callVars, frame, left, polling, woken,
                 result>>

ByteSent ==
  /\ phase = "tx" /\ shift
  /\ \/ /\ wire' = Append(wire, "W")
        /\ reg' = [reg EXCEPT !.dr = FALSE, !.btf = ~reg.dr]
        /\ shift' = reg.dr
        /\ phase' = phase
     \/ /\ wire' = Append(wire, "X")
        /\ reg' = Set({"af"})
        /\ shift' = FALSE
        /\ phase' = "hold"
  /\ UNCHANGED <<other, dma, pc, callVars, frame, left, polling, woken, result>>

\* The ACK bit decides how a received byte is answered, or, with LAST, its
\* being the last one of the DMA transfer.
LastOfDma == reg.dmaen /\ reg.last /\ dma = 1

\* The driver is about to program how the next byte is answered.
Preparing ==
  pc \in {"frame", "body", "last", "done"} \/ (pc = "dma" /\ dma = 0)

ByteReceived ==
  /\ phase = "rx" /\ ~reg.rxne
  /\ Prompt => ~Preparing
  /\ reg' = Set({"rxne"})
  /\ LET acked == reg.ack /\ ~LastOfDma
     IN  /\ wire' = Append(wire, IF acked THEN "A" ELSE "N")
         /\ phase' = IF acked /\ ~reg.stop THEN "rx" ELSE "hold"
  /\ UNCHANGED <<shift, other, dma, pc, callVars, frame, left, polling, woken,
                 result>>

LoseArbitration ==
  /\ phase \in {"addr_w", "addr_r"} /\ ~reg.addr
  /\ reg' = [reg EXCEPT !.arlo = TRUE, !.msl = FALSE]
  /\ phase' = "off"
  /\ other' = TRUE
  /\ wire' = Append(wire, "L")
  /\ UNCHANGED <<shift, dma, pc, callVars, frame, left, polling, woken, result>>

OtherMaster(takes) ==
  /\ phase = "off"
  /\ other = ~takes
  /\ other' = takes
  /\ UNCHANGED <<reg, phase, shift, wire, dma, pc, callVars, frame, left,
                 polling, woken, result>>

\* Mutant: the transfer goes on after its last byte.
DmaMoves_on ==
  /\ reg.dmaen
  /\ \/ /\ Txe
        /\ reg' = [reg EXCEPT !.dr = shift, !.btf = FALSE]
        /\ shift' = TRUE
     \/ /\ reg.rxne
        /\ reg' = Clear({"rxne"})
        /\ shift' = shift
  /\ dma' = dma - 1
  /\ woken' = (woken \/ dma = 1)
  /\ UNCHANGED <<phase, other, wire, pc, callVars, frame, left, polling,
                 result>>

\* The DMA channel, and at the end of the transfer its handler.
DmaMoves ==
  /\ reg.dmaen /\ dma > 0
  /\ \/ /\ Txe
        /\ reg' = [reg EXCEPT !.dr = shift, !.btf = FALSE]
        /\ shift' = TRUE
     \/ /\ reg.rxne
        /\ reg' = Clear({"rxne"})
        /\ shift' = shift
  /\ dma' = dma - 1
  /\ woken' = (woken \/ dma = 1)
  /\ UNCHANGED <<phase, other, wire, pc, callVars, frame, left, polling,
                 result>>

-------------------------------------------------------------------------------
(* The interrupt handler: wake, and disable both interrupts. *)

InterruptPending ==
  \/ reg.itevten /\ (reg.sb \/ reg.addr \/ reg.btf)
  \/ reg.iterren /\ (reg.af \/ reg.arlo)

on_interrupt ==
  /\ InterruptPending
  /\ woken' = TRUE
  /\ reg' = Clear({"itevten", "iterren"})
  /\ UNCHANGED <<busVars, dma, pc, callVars, frame, left, polling, result>>

-------------------------------------------------------------------------------
(* Waiting. *)

Runs == ~InterruptPending /\ (polling = "no" \/ (polling = "parked" /\ woken))

\* What each wait waits for.  A select polls the DMA transfer first.
Awaited ==
  [sb |-> reg.sb, addr |-> reg.addr, txe |-> Txe, btf |-> reg.btf,
   end |-> reg.btf, rxne |-> reg.rxne, rxlast |-> reg.rxne, dma |-> dma = 0]

\* Mutant: the flag is reported and not cleared.
check_and_clear_error_flags_kept ==
  IF reg.af THEN [error |-> "nack", cleared |-> reg]
  ELSE IF reg.arlo THEN [error |-> "arbitration", cleared |-> reg]
  ELSE [error |-> "none", cleared |-> reg]

check_and_clear_error_flags ==
  IF reg.af THEN [error |-> "nack", cleared |-> Clear({"af"})]
  ELSE IF reg.arlo THEN [error |-> "arbitration", cleared |-> Clear({"arlo"})]
  ELSE [error |-> "none", cleared |-> reg]

Failing == check_and_clear_error_flags.error # "none"

\* The driver reaches a flag it waits for, without an error.
Reaches(flag) ==
  /\ Runs
  /\ pc = flag
  /\ Awaited[flag]
  /\ flag = "dma" \/ ~Failing

\* Mutant: the sentinel leaves the error interrupt enabled.
on_drop_events(r) == [r EXCEPT !.dmaen = FALSE, !.itevten = FALSE]

\* The sentinel of an asynchronous frame.
on_drop(r) ==
  IF mode = "async"
  THEN [r EXCEPT !.dmaen = FALSE, !.iterren = FALSE, !.itevten = FALSE]
  ELSE r

\* The transaction ends, leaving the registers r; a DMA transfer is dropped.
Return(res, r) ==
  /\ result' = res
  /\ pc' = "idle"
  /\ reg' = on_drop(r)
  /\ dma' = 0
  /\ polling' = "no"
  /\ woken' = FALSE
  /\ UNCHANGED <<busVars, callVars, frame, left>>

await_fails ==
  /\ Runs
  /\ pc \in DOMAIN Awaited
  /\ Failing
  /\ pc = "dma" => dma # 0
  /\ Return(check_and_clear_error_flags.error,
            check_and_clear_error_flags.cleared)

\* A poll that finds nothing enables the interrupts before it returns.
await_pends ==
  /\ Runs /\ mode = "async"
  /\ pc \in DOMAIN Awaited
  /\ ~Failing /\ ~Awaited[pc]
  /\ polling' = "checked"
  /\ woken' = FALSE
  /\ UNCHANGED <<reg, busVars, dma, pc, callVars, frame, left, result>>

\* Mutant: the event interrupt is taken to be still enabled.
enable_interrupts_once ==
  /\ ~InterruptPending
  /\ polling = "checked"
  /\ reg' = Set({"iterren"} \cup (IF pc = "sb" THEN {"itevten"} ELSE {}))
  /\ polling' = "parked"
  /\ UNCHANGED <<busVars, dma, pc, callVars, frame, left, woken, result>>

enable_interrupts ==
  /\ ~InterruptPending
  /\ polling = "checked"
  /\ reg' = Set({"iterren", "itevten"})
  /\ polling' = "parked"
  /\ UNCHANGED <<busVars, dma, pc, callVars, frame, left, woken, result>>

\* A blocking wait for something that has not happened yet.
timeout ==
  /\ Runs /\ mode = "blocking"
  /\ pc \in DOMAIN Awaited
  /\ ~Failing /\ ~Awaited[pc]
  /\ Return("timeout", reg)

-------------------------------------------------------------------------------
(* The steps of a frame. *)

Goto(step) ==
  /\ pc' = step
  /\ polling' = "no"
  /\ UNCHANGED <<other, wire, callVars, frame, woken, result>>

\* write_frame, read_frame, write_bytes and blocking_read_timeout begin.
begin_frame ==
  /\ pc = "frame" /\ ~InterruptPending
  /\ LET starts == IF send_start(Options)
                   THEN {"start"} \cup (IF Current.kind = "read" THEN {"ack"}
                                        ELSE {})
                   ELSE {}
         r == Set(starts \cup (IF mode = "async" THEN {"dmaen"} ELSE {}))
     IN  reg' = IF mode = "async"
                THEN [r EXCEPT !.last = Current.kind = "read"
                                        /\ send_nack(Options) /\ ~SingleByte]
                ELSE r
  /\ left' = Current.n
  /\ Goto(IF send_start(Options) THEN "sb" ELSE "body")
  /\ UNCHANGED <<phase, shift, dma>>

start_generated ==
  /\ Reaches("sb")
  /\ IF reg.start \/ ~reg.msl
     THEN Return("arbitration", reg)
     ELSE /\ reg' = Clear({"sb"})
          /\ phase' = IF Current.kind = "read" THEN "addr_r" ELSE "addr_w"
          /\ Goto("addr")
          /\ UNCHANGED <<shift, dma, left>>

\* Reading SR2 clears ADDR and lets the clock run.
address_acknowledged ==
  /\ Reaches("addr")
  /\ reg' = Clear({"addr"} \cup
                  IF mode = "async" /\ Current.kind = "read" /\ SingleByte
                     /\ send_nack(Options)
                  THEN {"ack"} ELSE {})
  /\ phase' = IF Current.kind = "read" THEN "rx" ELSE "tx"
  /\ Goto("body")
  /\ UNCHANGED <<shift, dma, left>>

\* The DMA transfer begins; the end of a single byte is programmed first.
start_dma ==
  /\ pc = "body" /\ mode = "async" /\ ~InterruptPending
  /\ LET single == Current.kind = "read" /\ SingleByte
         r == IF single /\ send_nack(Options) /\ ~send_start(Options)
              THEN Clear({"ack"}) ELSE reg
     IN  reg' = [r EXCEPT !.stop = @ \/ (single /\ send_stop(Options))]
  /\ dma' = Current.n
  /\ Goto("dma")
  /\ UNCHANGED <<phase, shift, left>>

dma_complete ==
  /\ Reaches("dma")
  /\ LET stops == send_stop(Options)
     IN  /\ reg' = [reg EXCEPT !.dmaen = FALSE,
                      !.stop = @ \/ (stops /\ Current.kind = "read"
                                     /\ ~SingleByte)]
         /\ Goto(IF stops /\ Current.kind = "write" THEN "end" ELSE "done")
  /\ UNCHANGED <<phase, shift, dma, left>>

transfer_finished ==
  /\ Reaches("end")
  /\ reg' = Set({"stop"})
  /\ Goto("done")
  /\ UNCHANGED <<phase, shift, dma, left>>

\* The blocking loops.
LoopPoint(n) ==
  IF Current.kind = "write"
  THEN IF n = 0 THEN "stop" ELSE "txe"
  ELSE IF n = 1 THEN "last" ELSE "rxne"

start_loop ==
  /\ pc = "body" /\ mode = "blocking" /\ ~InterruptPending
  /\ Goto(LoopPoint(left))
  /\ UNCHANGED <<reg, phase, shift, dma, left>>

send_byte ==
  /\ Reaches("txe")
  /\ reg' = [reg EXCEPT !.dr = shift, !.btf = FALSE]
  /\ shift' = TRUE
  /\ Goto("btf")
  /\ UNCHANGED <<phase, dma, left>>

byte_transferred ==
  /\ Reaches("btf")
  /\ left' = left - 1
  /\ Goto(LoopPoint(left'))
  /\ UNCHANGED <<reg, phase, shift, dma>>

recv_byte ==
  /\ Reaches("rxne")
  /\ reg' = Clear({"rxne"})
  /\ left' = left - 1
  /\ Goto(LoopPoint(left'))
  /\ UNCHANGED <<phase, shift, dma>>

\* Mutant: ACK stays programmed for the last byte.
prepare_last_acked ==
  /\ pc = "last" /\ ~InterruptPending
  /\ reg' = [reg EXCEPT !.stop = @ \/ send_stop(Options)]
  /\ Goto("rxlast")
  /\ UNCHANGED <<phase, shift, dma, left>>

prepare_last ==
  /\ pc = "last" /\ ~InterruptPending
  /\ reg' = [reg EXCEPT !.ack = @ /\ ~send_nack(Options),
                        !.stop = @ \/ send_stop(Options)]
  /\ Goto("rxlast")
  /\ UNCHANGED <<phase, shift, dma, left>>

recv_last ==
  /\ Reaches("rxlast")
  /\ reg' = Clear({"rxne"})
  /\ Goto("done")
  /\ UNCHANGED <<phase, shift, dma, left>>

write_stop ==
  /\ pc = "stop" /\ ~InterruptPending
  /\ reg' = [reg EXCEPT !.stop = @ \/ send_stop(Options)]
  /\ Goto("done")
  /\ UNCHANGED <<phase, shift, dma, left>>

\* The sentinel is dropped and the next frame begins, if there is one.
end_frame ==
  /\ pc = "done" /\ ~InterruptPending
  /\ IF frame = Len(ops)
     THEN Return("ok", reg)
     ELSE /\ reg' = on_drop(reg)
          /\ frame' = frame + 1
          /\ pc' = "frame"
          /\ UNCHANGED <<busVars, dma, callVars, left, polling, woken, result>>

-------------------------------------------------------------------------------
(* The caller. *)

\* Nothing an earlier transaction requested or provoked is still to come.
Settled ==
  /\ ~reg.start /\ ~reg.sb /\ ~reg.rxne
  /\ reg.af \/ reg.arlo => result \in {"ok", "nack", "arbitration"}
  /\ \/ phase \in {"off", "hold"}
     \/ Txe /\ ~shift

\* An empty read is refused before anything is sent.  An empty asynchronous
\* write would panic in Transfer::new and is left out.
transaction(s, m) ==
  /\ pc = "idle" /\ begun + Len(s) <= MaxOps
  /\ m = "async" => \A i \in DOMAIN s : s[i] # [kind |-> "write", n |-> 0]
  /\ begun' = begun + Len(s)
  /\ mode' = m
  /\ ops' = s
  /\ frame' = 1
  /\ settled' = Settled
  /\ IF \E i \in DOMAIN s : s[i] = [kind |-> "read", n |-> 0]
     THEN result' = "overrun" /\ pc' = "idle"
     ELSE result' = "none" /\ pc' = "frame"
  /\ UNCHANGED <<reg, busVars, dma, left, polling, woken>>

\* The caller drops the pending future.
cancel ==
  /\ polling = "parked"
  /\ Return("cancelled", reg)

Init ==
  /\ reg = [b \in {"start", "stop", "ack", "dmaen", "last", "itevten",
                   "iterren", "sb", "addr", "btf", "rxne", "af", "arlo",
                   "msl", "dr"} |-> FALSE]
  /\ phase = "off"
  /\ shift = FALSE
  /\ other = FALSE
  /\ wire = <<>>
  /\ dma = 0
  /\ pc = "idle"
  /\ mode = "blocking"
  /\ ops = <<>>
  /\ frame = 1
  /\ left = 0
  /\ polling = "no"
  /\ woken = FALSE
  /\ result = "none"
  /\ settled = TRUE
  /\ begun = 0

Controller ==
  GenerateStart \/ GenerateStop \/ AddressSent \/ ByteSent \/ ByteReceived
  \/ LoseArbitration \/ DmaMoves

Driver ==
  \/ await_fails \/ await_pends \/ enable_interrupts \/ begin_frame
  \/ start_generated \/ address_acknowledged \/ start_dma \/ dma_complete
  \/ transfer_finished \/ start_loop \/ send_byte \/ byte_transferred
  \/ recv_byte \/ prepare_last \/ recv_last \/ write_stop \/ end_frame

Next ==
  \/ Controller \/ OtherMaster(TRUE) \/ OtherMaster(FALSE) \/ on_interrupt \/ Driver \/ timeout \/ cancel
  \/ \E s \in SeqOf(Op, MaxOps) \ {<<>>}, m \in {"blocking", "async"} :
       transaction(s, m)

\* The controller executes what it was asked to, the interrupt is served and
\* the executor runs a woken task; another master leaves the bus again, and a
\* bus it keeps taking is free often enough for a pending START.
Fairness ==
  /\ WF_vars(Controller) /\ WF_vars(on_interrupt) /\ WF_vars(Driver)
  /\ WF_vars(OtherMaster(FALSE)) /\ SF_vars(GenerateStart)

Spec == Init /\ [][Next]_vars
FairSpec == Spec /\ Fairness

-------------------------------------------------------------------------------
(* Properties. *)

\* Types of the variables: the DMA transfer never runs past its end.
TypeOK ==
  /\ \A b \in DOMAIN reg : reg[b] \in BOOLEAN
  /\ phase \in {"off", "started", "addr_w", "addr_r", "tx", "rx", "hold"}
  /\ {shift, other, woken, settled} \subseteq BOOLEAN
  /\ wire \in Seq({"S", "P", "addr_w", "addr_r", "W", "A", "N", "X", "L"})
  /\ dma \in 0 .. MaxLen /\ left \in 0 .. MaxLen
  /\ pc \in DOMAIN Awaited \cup {"idle", "frame", "body", "last", "stop", "done"}
  /\ mode \in {"blocking", "async"}
  /\ ops \in Seq(Op)
  /\ frame \in 1 .. MaxOps
  /\ polling \in {"no", "checked", "parked"}
  /\ result \in {"none", "ok", "nack", "arbitration", "overrun", "timeout",
                 "cancelled"}
  /\ begun \in 0 .. MaxOps

\* The transaction contract: a START and the address before each group of
\* operations of one type, their bytes without anything in between, a NACK on
\* the last byte of a group of reads only, and one STOP at the end.
Part(s, i) ==
  LET first == i = 1 \/ s[i - 1].kind # s[i].kind
      final == i = Len(s) \/ s[i + 1].kind # s[i].kind
      byte(k) == IF s[i].kind = "write" THEN "W"
                 ELSE IF final /\ k = s[i].n THEN "N" ELSE "A"
  IN  (IF first
       THEN <<"S", IF s[i].kind = "write" THEN "addr_w" ELSE "addr_r">>
       ELSE <<>>)
      \o [k \in 1 .. s[i].n |-> byte(k)]

Contract(s) == FlattenSeq([i \in DOMAIN s |-> Part(s, i)]) \o <<"P">>

\* Once the STOP of a successful transaction is on the bus, the wire has seen
\* exactly the conditions and bytes the contract names: "the right
\* start/stop/(N)ACK conditions on the wire".
WireContract ==
  pc = "idle" /\ result = "ok" /\ settled /\ phase = "off" =>
    wire = Contract(ops)

\* A NACK or a lost arbitration is reported to the transaction it happened to:
\* "ACK not received", "Arbitration lost".  A transaction that begins while
\* something an abandoned one asked for is still to come is excepted.
ErrorIsReal ==
  pc = "idle" /\ settled /\ result \in {"nack", "arbitration"} =>
    \E i \in DOMAIN wire : wire[i] = IF result = "nack" THEN "X" ELSE "L"

\* Between transactions, however the last one ended, DMA requests and the
\* interrupts are off: "disable transfer when an error occurs or future is
\* canceled".
QuietWhenIdle == pc = "idle" => ~reg.dmaen /\ ~reg.iterren /\ ~reg.itevten

\* An asynchronous wait that sleeps un-woken has not missed what it waits for.
NoLostWakeup ==
  polling = "parked" /\ ~woken /\ (Awaited[pc] \/ Failing) => InterruptPending

\* A transaction begun on a settled bus ends: the driver never sleeps, or spins,
\* for a flag that has come and gone.
Completes == (pc = "frame" /\ settled) ~> pc = "idle"

===============================================================================
