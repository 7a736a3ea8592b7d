-------------------------------- MODULE I2cProofs ------------------------------
(***************************************************************************)
(* The I2C driver leaves its interrupts and DMA requests off between       *)
(* transactions, sleeps only while an interrupt will wake it, reports only *)
(* errors that are its own and puts on the wire what the contract asks     *)
(* for: for every number of operations, every length and every conduct of  *)
(* the bus.                                                                *)
(*                                                                         *)
(* Three invariants, each on top of those before: Inv (the driver and its  *)
(* waits), ErrorInv (the errors), and PlaceInv with LinkInv (the wire).    *)
(***************************************************************************)
EXTENDS I2c, WellFoundedInduction, TLAPS

-------------------------------------------------------------------------------
(* The inductive invariant. *)

Bits == {"start", "stop", "ack", "dmaen", "last", "itevten", "iterren", "sb", "addr", "btf",
         "rxne", "af", "arlo", "msl", "dr"}

Flags == {"sb", "addr", "txe", "btf", "end", "rxne", "rxlast", "dma"}

BlockingOnly == {"txe", "btf", "rxne", "rxlast", "last", "stop"}

Registers == reg \in [Bits -> BOOLEAN]

Whole == left = Current.n

\* Where the driver is in the transaction, and how much of the frame is left there.
Place ==
  /\ Len(ops) <= MaxOps
  /\ pc # "idle" =>
       /\ frame <= Len(ops)
       /\ \A i \in DOMAIN ops : ops[i].kind = "read" => ops[i].n # 0
  /\ pc \in {"sb", "addr", "body"} => Whole
  /\ pc \in {"txe", "btf"} => left >= 1 /\ Current.kind = "write"
  /\ pc = "rxne" => left >= 2 /\ Current.kind = "read"

\* Only an asynchronous wait is suspended, and it never enters the blocking loops.
Waits ==
  /\ pc \in BlockingOnly => mode = "blocking"
  /\ polling # "no" => mode = "async" /\ pc \in Flags

\* The driver has not enabled anything, or will disable it when the frame ends.
Quiet ==
  mode = "blocking" \/ pc = "idle" => ~reg.dmaen /\ ~reg.iterren /\ ~reg.itevten

\* A wait that sleeps un-woken has both interrupts enabled; the end of the DMA
\* transfer wakes it, from before it enables them.
Asleep ==
  /\ polling = "parked" /\ ~woken => reg.iterren /\ reg.itevten
  /\ polling # "no" /\ pc = "dma" /\ ~woken => dma # 0

Inv == TypeOK /\ Registers /\ Place /\ Waits /\ Quiet /\ Asleep

-------------------------------------------------------------------------------
(* The registers. *)

LEMMA SetBits ==
  ASSUME Registers, NEW bits
  PROVE  /\ Set(bits) \in [Bits -> BOOLEAN]
         /\ \A b \in Bits : Set(bits)[b] <=> (b \in bits \/ reg[b])
  BY DEF Registers, Set

LEMMA ClearBits ==
  ASSUME Registers, NEW bits
  PROVE  /\ Clear(bits) \in [Bits -> BOOLEAN]
         /\ \A b \in Bits : Clear(bits)[b] <=> (b \notin bits /\ reg[b])
  BY DEF Registers, Clear

LEMMA ErrorFlags ==
  ASSUME Registers
  PROVE  LET r == check_and_clear_error_flags.cleared IN
         /\ r \in [Bits -> BOOLEAN]
         /\ \A b \in {"dmaen", "iterren", "itevten"} : r[b] <=> reg[b]
<1>1. CASE reg.af
  BY <1>1, ClearBits DEF check_and_clear_error_flags, Bits
<1>2. CASE ~reg.af /\ reg.arlo
  BY <1>2, ClearBits DEF check_and_clear_error_flags, Bits
<1>3. CASE ~reg.af /\ ~reg.arlo
  BY <1>3 DEF check_and_clear_error_flags, Registers
<1> QED
  BY <1>1, <1>2, <1>3

\* The sentinel leaves everything off that an asynchronous frame enabled.
LEMMA DropQuiet ==
  ASSUME NEW r \in [Bits -> BOOLEAN],
         mode = "blocking" => ~r.dmaen /\ ~r.iterren /\ ~r.itevten,
         mode \in {"blocking", "async"}
  PROVE  /\ on_drop(r) \in [Bits -> BOOLEAN]
         /\ ~on_drop(r).dmaen /\ ~on_drop(r).iterren /\ ~on_drop(r).itevten
<1>1. CASE mode = "async"
  BY <1>1 DEF on_drop, Bits
<1>2. CASE mode = "blocking"
  BY <1>2 DEF on_drop
<1> QED
  BY <1>1, <1>2

LEMMA WaitFlags == DOMAIN Awaited = Flags /\ (DOMAIN Awaited)' = Flags
  BY DEF Awaited, Flags

LEMMA DmaAwaited == pc = "dma" => (Awaited[pc] <=> dma = 0)
<1>1. Awaited["dma"] = (dma = 0)
  BY DEF Awaited
<1> QED
  BY <1>1

-------------------------------------------------------------------------------
(* The steps that end a transaction. *)

LEMMA ReturnKeeps ==
  ASSUME Inv, NEW res, NEW r \in [Bits -> BOOLEAN],
         res \in {"ok", "nack", "arbitration", "timeout", "cancelled"},
         \A b \in {"dmaen", "iterren", "itevten"} : r[b] <=> reg[b],
         Return(res, r)
  PROVE  Inv'
<1>1. mode = "blocking" => ~r.dmaen /\ ~r.iterren /\ ~r.itevten
  BY DEF Inv, Quiet
<1>2. Registers' /\ Quiet'
  BY <1>1, DropQuiet DEF Inv, TypeOK, Return, Registers, Quiet
<1>3. TypeOK'
  <2>1. \A b \in DOMAIN reg' : reg'[b] \in BOOLEAN
    BY <1>2 DEF Registers
  <2>2. dma' \in 0 .. MaxLen
    BY I2cAssumption DEF Return
  <2> QED
    BY <2>1, <2>2, WaitFlags DEF Inv, TypeOK, Return, busVars, callVars
<1>4. Place' /\ Waits' /\ Asleep'
  BY DEF Inv, Place, Waits, Asleep, Return, busVars, callVars, BlockingOnly
<1> QED
  BY <1>2, <1>3, <1>4 DEF Inv

LEMMA EndSteps ==
  ASSUME Inv, await_fails \/ timeout \/ cancel
  PROVE  Inv'
<1>1. Registers /\ reg \in [Bits -> BOOLEAN]
  BY DEF Inv, Registers
<1>2. CASE await_fails
  <2>1. check_and_clear_error_flags.error \in {"nack", "arbitration"}
    BY <1>2 DEF await_fails, Failing, check_and_clear_error_flags
  <2> QED
    BY <1>1, <1>2, <2>1, ErrorFlags, ReturnKeeps DEF await_fails
<1>3. CASE timeout
  BY <1>1, <1>3, ReturnKeeps DEF timeout
<1>4. CASE cancel
  BY <1>1, <1>4, ReturnKeeps DEF cancel
<1> QED
  BY <1>2, <1>3, <1>4

-------------------------------------------------------------------------------
(* The steps of the bus, the controller and the handler. *)

Phases == {"off", "started", "addr_w", "addr_r", "tx", "rx", "hold"}
Symbols == {"S", "P", "addr_w", "addr_r", "W", "A", "N", "X", "L"}

LEMMA BusFrame ==
  ASSUME Inv, UNCHANGED <<pc, callVars, frame, left, polling, result>>,
         reg' \in [Bits -> BOOLEAN], phase' \in Phases, {shift', other'} \subseteq BOOLEAN,
         wire' \in Seq(Symbols), dma' \in 0 .. MaxLen, woken' \in BOOLEAN,
         mode = "blocking" \/ pc = "idle" =>
           ~reg'.dmaen /\ ~reg'.iterren /\ ~reg'.itevten,
         Asleep'
  PROVE  Inv'
<1>1. TypeOK'
  BY WaitFlags DEF Inv, TypeOK, callVars, Phases, Symbols
<1>2. Registers' /\ Place' /\ Waits' /\ Quiet'
  BY DEF Inv, Registers, Place, Waits, Quiet, Whole, Current, callVars
<1> QED
  BY <1>1, <1>2 DEF Inv

\* The controller leaves alone what the driver enables.
LEMMA ControllerFrame ==
  ASSUME Inv, UNCHANGED <<pc, callVars, frame, left, polling, result, dma, woken>>,
         reg' \in [Bits -> BOOLEAN], phase' \in Phases, {shift', other'} \subseteq BOOLEAN,
         wire' \in Seq(Symbols),
         \A b \in {"dmaen", "iterren", "itevten"} : reg'[b] <=> reg[b]
  PROVE  Inv'
<1>1. Asleep'
  BY DEF Inv, Asleep
<1>2. dma' \in 0 .. MaxLen /\ woken' \in BOOLEAN
  BY DEF Inv, TypeOK
<1>3. mode = "blocking" \/ pc = "idle" => ~reg'.dmaen /\ ~reg'.iterren /\ ~reg'.itevten
  BY DEF Inv, Quiet
<1> QED
  BY <1>1, <1>2, <1>3, BusFrame

LEMMA WireGrows ==
  ASSUME Inv, NEW x \in Symbols
  PROVE  Append(wire, x) \in Seq(Symbols) /\ <<x>> \in Seq(Symbols)
  BY DEF Inv, TypeOK, Symbols

LEMMA BusTypes ==
  ASSUME Inv
  PROVE  /\ Registers /\ reg \in [Bits -> BOOLEAN] /\ phase \in Phases
         /\ {shift, other, woken} \subseteq BOOLEAN
         /\ wire \in Seq(Symbols) /\ dma \in 0 .. MaxLen
  BY DEF Inv, TypeOK, Registers, Phases, Symbols

LEMMA BusSteps ==
  ASSUME Inv,
         \/ GenerateStart \/ GenerateStop \/ AddressSent \/ ByteSent \/ ByteReceived
         \/ LoseArbitration \/ OtherMaster(TRUE) \/ OtherMaster(FALSE)
  PROVE  Inv'
<1> USE DEF Bits, Phases
<1>1. CASE GenerateStart
  <2>1. wire' \in Seq(Symbols)
    BY <1>1, WireGrows DEF GenerateStart, Symbols
  <2> QED
    BY <1>1, <2>1, BusTypes, ControllerFrame DEF GenerateStart
<1>2. CASE GenerateStop
  <2>1. wire' \in Seq(Symbols)
    BY <1>2, WireGrows DEF GenerateStop, Symbols
  <2> QED
    BY <1>2, <2>1, BusTypes, ClearBits, ControllerFrame DEF GenerateStop
<1>3. CASE AddressSent
  <2>1. wire' \in Seq(Symbols)
    BY <1>3, WireGrows DEF AddressSent, Symbols
  <2> QED
    BY <1>3, <2>1, BusTypes, SetBits, ControllerFrame DEF AddressSent
<1>4. CASE ByteSent
  <2>1. wire' \in Seq(Symbols)
    BY <1>4, WireGrows DEF ByteSent, Symbols
  <2>2. reg' \in [Bits -> BOOLEAN] /\ shift' \in BOOLEAN
        /\ \A b \in {"dmaen", "iterren", "itevten"} : reg'[b] <=> reg[b]
    <3>1. CASE reg' = [reg EXCEPT !.dr = FALSE, !.btf = ~reg.dr] /\ shift' = reg.dr
      BY <3>1, BusTypes
    <3>2. CASE reg' = Set({"af"}) /\ shift' = FALSE
      <4>1. Registers
        BY BusTypes
      <4>2. \A b \in {"dmaen", "iterren", "itevten"} : Set({"af"})[b] <=> reg[b]
        BY <4>1, SetBits
      <4> QED
        BY <3>2, <4>1, <4>2, SetBits
    <3> QED
      BY <1>4, <3>1, <3>2 DEF ByteSent
  <2> QED
    BY <1>4, <2>1, <2>2, BusTypes, ControllerFrame DEF ByteSent
<1>5. CASE ByteReceived
  <2>1. wire' \in Seq(Symbols)
    BY <1>5, WireGrows DEF ByteReceived, Symbols
  <2> QED
    BY <1>5, <2>1, BusTypes, SetBits, ControllerFrame DEF ByteReceived
<1>6. CASE LoseArbitration
  <2>1. wire' \in Seq(Symbols)
    BY <1>6, WireGrows DEF LoseArbitration, Symbols
  <2> QED
    BY <1>6, <2>1, BusTypes, ControllerFrame DEF LoseArbitration
<1>7. ASSUME NEW takes \in BOOLEAN, OtherMaster(takes) PROVE Inv'
  BY <1>7, BusTypes, ControllerFrame DEF OtherMaster
<1> QED
  BY <1>1, <1>2, <1>3, <1>4, <1>5, <1>6, <1>7

\* The transfer's last byte wakes the task.
LEMMA DmaSteps == Inv /\ DmaMoves => Inv'
<1> SUFFICES ASSUME Inv, DmaMoves PROVE Inv'
  OBVIOUS
<1>1. /\ UNCHANGED <<phase, other, wire, pc, callVars, frame, left, polling, result>>
      /\ dma > 0 /\ dma' = dma - 1 /\ woken' = (woken \/ dma = 1)
  BY DEF DmaMoves
<1>2. /\ reg' \in [Bits -> BOOLEAN] /\ shift' \in BOOLEAN
      /\ \A b \in {"dmaen", "iterren", "itevten"} : reg'[b] <=> reg[b]
  <2>1. CASE reg' = [reg EXCEPT !.dr = shift, !.btf = FALSE] /\ shift' = TRUE
    BY <2>1, BusTypes DEF Bits
  <2>2. CASE reg' = Clear({"rxne"}) /\ shift' = shift
    BY <2>2, BusTypes, ClearBits DEF Bits
  <2> QED
    BY <2>1, <2>2 DEF DmaMoves
<1>3. dma' \in 0 .. MaxLen /\ (dma = 1 \/ dma' # 0)
  BY <1>1, BusTypes, I2cAssumption
<1>4. Asleep'
  BY <1>1, <1>2, <1>3 DEF Inv, Asleep
<1>5. mode = "blocking" \/ pc = "idle" => ~reg'.dmaen /\ ~reg'.iterren /\ ~reg'.itevten
  BY <1>2 DEF Inv, Quiet
<1>6. woken' \in BOOLEAN
  BY <1>1, BusTypes, Zenon
<1> QED
  BY <1>1, <1>2, <1>3, <1>4, <1>5, <1>6, BusTypes, BusFrame

LEMMA HandlerSteps == Inv /\ on_interrupt => Inv'
<1> SUFFICES ASSUME Inv, on_interrupt PROVE Inv'
  OBVIOUS
<1>1. /\ UNCHANGED <<busVars, dma, pc, callVars, frame, left, polling, result>>
      /\ woken' = TRUE /\ reg' = Clear({"itevten", "iterren"})
  BY DEF on_interrupt
<1>2. reg' \in [Bits -> BOOLEAN] /\ ~reg'.iterren /\ ~reg'.itevten
      /\ (reg'.dmaen <=> reg.dmaen)
  BY <1>1, BusTypes, ClearBits DEF Bits
<1>3. mode = "blocking" \/ pc = "idle" => ~reg'.dmaen /\ ~reg'.iterren /\ ~reg'.itevten
  BY <1>2 DEF Inv, Quiet
<1> QED
  BY <1>1, <1>2, <1>3, BusTypes, BusFrame DEF Asleep, busVars

-------------------------------------------------------------------------------
(* The steps of the driver within a transaction. *)

LEMMA CurrentOp ==
  ASSUME Inv, pc # "idle"
  PROVE  /\ frame \in 1 .. Len(ops) /\ Current \in Op /\ Current.n \in 0 .. MaxLen
         /\ Current.kind \in {"read", "write"}
         /\ Current.kind = "read" => Current.n # 0
<1>1. frame \in 1 .. Len(ops) /\ ops \in Seq(Op) /\ frame \in DOMAIN ops
  BY DEF Inv, TypeOK, Place
<1>2. Current \in Op
  BY <1>1 DEF Current
<1> QED
  BY <1>1, <1>2 DEF Op, Current, Inv, Place

\* What a step to another place of the same transaction has to see to.
LEMMA GotoKeeps ==
  ASSUME Inv, pc # "idle", NEW step, Goto(step),
         step \in Flags \cup {"body", "last", "stop", "done"},
         reg' \in [Bits -> BOOLEAN], phase' \in Phases, shift' \in BOOLEAN,
         dma' \in 0 .. MaxLen, left' \in 0 .. MaxLen,
         mode = "blocking" => ~reg'.dmaen /\ ~reg'.iterren /\ ~reg'.itevten,
         step \in {"sb", "addr", "body"} => Whole',
         step \in {"txe", "btf"} => left' >= 1 /\ Current.kind = "write",
         step = "rxne" => left' >= 2 /\ Current.kind = "read",
         step \in BlockingOnly => mode = "blocking"
  PROVE  Inv'
<1>1. /\ pc' = step /\ polling' = "no" /\ step # "idle"
      /\ UNCHANGED <<other, wire, callVars, frame, woken, result>>
  BY DEF Goto, Flags
<1>2. TypeOK'
  BY <1>1, WaitFlags DEF Inv, TypeOK, callVars, Phases
<1>3. Place' /\ Waits' /\ Quiet' /\ Asleep' /\ Registers'
  BY <1>1 DEF Inv, Place, Waits, Quiet, Asleep, Registers, Current, callVars
<1> QED
  BY <1>2, <1>3 DEF Inv

\* A step that finds its flag, in a transaction.
LEMMA ReachesFacts ==
  ASSUME Inv, NEW flag \in Flags, Reaches(flag)
  PROVE  pc = flag /\ pc # "idle"
  BY DEF Reaches, Flags

LEMMA QuietRegisters ==
  ASSUME Inv
  PROVE  mode = "blocking" => ~reg.dmaen /\ ~reg.iterren /\ ~reg.itevten
  BY DEF Inv, Quiet

LEMMA BeginFrame == Inv /\ begin_frame => Inv'
<1> SUFFICES ASSUME Inv, begin_frame PROVE Inv'
  OBVIOUS
<1> DEFINE starts == IF send_start(Options)
                     THEN {"start"} \cup (IF Current.kind = "read" THEN {"ack"} ELSE {})
                     ELSE {}
           r == Set(starts \cup (IF mode = "async" THEN {"dmaen"} ELSE {}))
           last == Current.kind = "read" /\ send_nack(Options) /\ ~SingleByte
           step == IF send_start(Options) THEN "sb" ELSE "body"
<1>1. /\ pc = "frame" /\ left' = Current.n /\ UNCHANGED <<phase, shift, dma>> /\ Goto(step)
      /\ reg' = IF mode = "async" THEN [r EXCEPT !.last = last] ELSE r
  BY DEF begin_frame
<1>2. /\ r \in [Bits -> BOOLEAN] /\ last \in BOOLEAN
      /\ \A b \in {"iterren", "itevten"} : r[b] <=> reg[b]
      /\ mode = "blocking" => (r.dmaen <=> reg.dmaen)
  <2>1. \A b \in {"iterren", "itevten"} : b \notin starts \cup {"dmaen"}
    OBVIOUS
  <2>2. "dmaen" \notin starts
    OBVIOUS
  <2>3. last \in BOOLEAN
    OBVIOUS
  <2> HIDE DEF starts, last
  <2>4. \A b \in {"iterren", "itevten"} :
          b \notin starts \cup (IF mode = "async" THEN {"dmaen"} ELSE {})
    BY <2>1
  <2>5. mode = "blocking" => "dmaen" \notin starts \cup (IF mode = "async" THEN {"dmaen"} ELSE {})
    BY <2>2
  <2> QED
    BY <2>3, <2>4, <2>5, BusTypes, SetBits DEF Bits
<1>3. /\ reg' \in [Bits -> BOOLEAN]
      /\ mode = "blocking" => ~reg'.dmaen /\ ~reg'.iterren /\ ~reg'.itevten
  <2> HIDE DEF r, last
  <2>1. CASE mode = "async"
    BY <1>1, <1>2, <2>1
  <2>2. CASE mode # "async"
    BY <1>1, <1>2, <2>2, QuietRegisters DEF Bits
  <2> QED
    BY <2>1, <2>2
<1>4. left' \in 0 .. MaxLen /\ step \in {"sb", "body"}
  BY <1>1, CurrentOp
<1>5. Whole'
  BY <1>1 DEF Whole, Current, Goto, callVars
<1> HIDE DEF r, last, starts, step
<1> QED
  BY <1>1, <1>3, <1>4, <1>5, BusTypes, GotoKeeps DEF Flags, BlockingOnly

LEMMA StartGenerated == Inv /\ start_generated => Inv'
<1> SUFFICES ASSUME Inv, start_generated PROVE Inv'
  OBVIOUS
<1>1. pc = "sb" /\ pc # "idle"
  BY ReachesFacts DEF start_generated, Flags
<1>2. CASE reg.start \/ ~reg.msl
  BY <1>2, BusTypes, ReturnKeeps DEF start_generated
<1>3. CASE ~(reg.start \/ ~reg.msl)
  <2>1. /\ reg' = Clear({"sb"}) /\ phase' \in Phases /\ Goto("addr")
        /\ UNCHANGED <<shift, dma, left>>
    BY <1>3 DEF start_generated, Phases
  <2>2. /\ reg' \in [Bits -> BOOLEAN]
        /\ mode = "blocking" => ~reg'.dmaen /\ ~reg'.iterren /\ ~reg'.itevten
    BY <2>1, BusTypes, ClearBits, QuietRegisters DEF Bits
  <2>3. Whole' /\ left' \in 0 .. MaxLen
    BY <1>1, <2>1 DEF Inv, Place, TypeOK, Whole, Current, Goto, callVars
  <2> QED
    BY <1>1, <2>1, <2>2, <2>3, BusTypes, GotoKeeps DEF Flags, BlockingOnly
<1> QED
  BY <1>2, <1>3

LEMMA AddressAcknowledged == Inv /\ address_acknowledged => Inv'
<1> SUFFICES ASSUME Inv, address_acknowledged PROVE Inv'
  OBVIOUS
<1>1. pc = "addr" /\ pc # "idle"
  BY ReachesFacts DEF address_acknowledged, Flags
<1>2. PICK bits : reg' = Clear(bits)
  BY DEF address_acknowledged
<1>3. /\ reg' \in [Bits -> BOOLEAN]
      /\ mode = "blocking" => ~reg'.dmaen /\ ~reg'.iterren /\ ~reg'.itevten
  BY <1>2, BusTypes, ClearBits, QuietRegisters DEF Bits
<1>4. phase' \in Phases /\ Goto("body") /\ UNCHANGED <<shift, dma, left>>
  BY DEF address_acknowledged, Phases
<1>5. Whole' /\ left' \in 0 .. MaxLen
  BY <1>1, <1>4 DEF Inv, Place, TypeOK, Whole, Current, Goto, callVars
<1> QED
  BY <1>1, <1>3, <1>4, <1>5, BusTypes, GotoKeeps DEF Flags, BlockingOnly

LEMMA StartDma == Inv /\ start_dma => Inv'
<1> SUFFICES ASSUME Inv, start_dma PROVE Inv'
  OBVIOUS
<1> DEFINE single == Current.kind = "read" /\ SingleByte
           r == IF single /\ send_nack(Options) /\ ~send_start(Options)
                THEN Clear({"ack"}) ELSE reg
           stops == single /\ send_stop(Options)
<1>1. /\ pc = "body" /\ mode = "async" /\ Goto("dma") /\ dma' = Current.n
      /\ UNCHANGED <<phase, shift, left>>
      /\ reg' = [r EXCEPT !.stop = @ \/ stops]
  BY DEF start_dma
<1>2. r \in [Bits -> BOOLEAN]
  BY BusTypes, ClearBits
<1>3. reg' \in [Bits -> BOOLEAN]
  <2> HIDE DEF r, stops
  <2>1. (r.stop \/ stops) \in BOOLEAN
    OBVIOUS
  <2> QED
    BY <1>1, <1>2, <2>1
<1>4. dma' \in 0 .. MaxLen /\ left' \in 0 .. MaxLen
  BY <1>1, CurrentOp DEF Inv, TypeOK
<1> HIDE DEF r, stops
<1> QED
  BY <1>1, <1>3, <1>4, BusTypes, GotoKeeps DEF Flags, BlockingOnly

LEMMA DmaComplete == Inv /\ dma_complete => Inv'
<1> SUFFICES ASSUME Inv, dma_complete PROVE Inv'
  OBVIOUS
<1> DEFINE stops == send_stop(Options) /\ Current.kind = "read" /\ ~SingleByte
           step == IF send_stop(Options) /\ Current.kind = "write" THEN "end" ELSE "done"
<1>1. /\ pc = "dma" /\ pc # "idle"
  BY ReachesFacts DEF dma_complete, Flags
<1>2. /\ reg' = [reg EXCEPT !.dmaen = FALSE, !.stop = @ \/ stops]
      /\ Goto(step) /\ UNCHANGED <<phase, shift, dma, left>> /\ step \in {"end", "done"}
  BY DEF dma_complete
<1>3. /\ reg' \in [Bits -> BOOLEAN]
      /\ mode = "blocking" => ~reg'.dmaen /\ ~reg'.iterren /\ ~reg'.itevten
  <2> HIDE DEF stops
  <2>1. (reg.stop \/ stops) \in BOOLEAN
    OBVIOUS
  <2> QED
    BY <1>2, <2>1, BusTypes, QuietRegisters DEF Bits
<1>4. left' \in 0 .. MaxLen
  BY <1>2 DEF Inv, TypeOK
<1> HIDE DEF stops, step
<1> QED
  BY <1>1, <1>2, <1>3, <1>4, BusTypes, GotoKeeps DEF Flags, BlockingOnly

-------------------------------------------------------------------------------
(* The blocking loops. *)

\* The point a loop goes on at fits what is left.
LEMMA LoopKeeps ==
  ASSUME Inv, pc # "idle", mode = "blocking", NEW n \in 0 .. MaxLen, left' = n,
         Current.kind = "read" => n >= 1,
         Goto(LoopPoint(n)),
         reg' \in [Bits -> BOOLEAN], ~reg'.dmaen, ~reg'.iterren, ~reg'.itevten,
         UNCHANGED <<phase, shift, dma>>
  PROVE  Inv'
<1>1. /\ LoopPoint(n) \in {"stop", "txe", "last", "rxne"}
      /\ LoopPoint(n) = "txe" => n >= 1 /\ Current.kind = "write"
      /\ LoopPoint(n) = "rxne" => n >= 2 /\ Current.kind = "read"
  BY CurrentOp, I2cAssumption DEF LoopPoint
<1> QED
  BY <1>1, BusTypes, GotoKeeps DEF Flags, BlockingOnly

LEMMA LoopSteps ==
  ASSUME Inv, start_loop \/ byte_transferred \/ recv_byte
  PROVE  Inv'
<1>1. CASE start_loop
  <2>1. /\ pc = "body" /\ pc # "idle" /\ mode = "blocking" /\ Goto(LoopPoint(left))
        /\ UNCHANGED <<reg, phase, shift, dma, left>>
    BY <1>1 DEF start_loop
  <2>2. left \in 0 .. MaxLen /\ (Current.kind = "read" => left >= 1)
    BY <2>1, CurrentOp, I2cAssumption DEF Inv, Place, Whole
  <2> QED
    BY <2>1, <2>2, BusTypes, QuietRegisters, LoopKeeps
<1>2. CASE byte_transferred
  <2>1. pc = "btf" /\ pc # "idle"
    BY <1>2, ReachesFacts DEF byte_transferred, Flags
  <2>2. /\ mode = "blocking" /\ left \in 1 .. MaxLen /\ Current.kind = "write"
        /\ left' = left - 1 /\ UNCHANGED <<reg, phase, shift, dma>>
        /\ Goto(LoopPoint(left'))
    BY <1>2, <2>1, I2cAssumption DEF byte_transferred, Inv, TypeOK, Place, Waits, BlockingOnly
  <2>3. left' \in 0 .. MaxLen
    BY <2>2, I2cAssumption
  <2> QED
    BY <2>1, <2>2, <2>3, BusTypes, QuietRegisters, LoopKeeps
<1>3. CASE recv_byte
  <2>1. pc = "rxne" /\ pc # "idle"
    BY <1>3, ReachesFacts DEF recv_byte, Flags
  <2>2. /\ mode = "blocking" /\ left \in 2 .. MaxLen
        /\ left' = left - 1 /\ UNCHANGED <<phase, shift, dma>>
        /\ Goto(LoopPoint(left')) /\ reg' = Clear({"rxne"})
    BY <1>3, <2>1, I2cAssumption DEF recv_byte, Inv, TypeOK, Place, Waits, BlockingOnly
  <2>3. left' \in 0 .. MaxLen /\ left' >= 1
    BY <2>2, I2cAssumption
  <2>4. reg' \in [Bits -> BOOLEAN] /\ ~reg'.dmaen /\ ~reg'.iterren /\ ~reg'.itevten
    BY <2>2, BusTypes, ClearBits, QuietRegisters DEF Bits
  <2> QED
    BY <2>1, <2>2, <2>3, <2>4, LoopKeeps
<1> QED
  BY <1>1, <1>2, <1>3

\* The steps that only change registers and go on.
LEMMA RegisterSteps ==
  ASSUME Inv, transfer_finished \/ send_byte \/ prepare_last \/ recv_last \/ write_stop
  PROVE  Inv'
<1>0. left \in 0 .. MaxLen
  BY DEF Inv, TypeOK
<1>1. CASE transfer_finished
  <2>1. pc = "end" /\ pc # "idle"
    BY <1>1, ReachesFacts DEF transfer_finished, Flags
  <2>2. reg' = Set({"stop"}) /\ Goto("done") /\ UNCHANGED <<phase, shift, dma, left>>
    BY <1>1 DEF transfer_finished
  <2>3. /\ reg' \in [Bits -> BOOLEAN]
        /\ mode = "blocking" => ~reg'.dmaen /\ ~reg'.iterren /\ ~reg'.itevten
    BY <2>2, BusTypes, SetBits, QuietRegisters DEF Bits
  <2> QED
    BY <1>0, <2>1, <2>2, <2>3, BusTypes, GotoKeeps DEF BlockingOnly
<1>2. CASE send_byte
  <2>1. pc = "txe" /\ pc # "idle"
    BY <1>2, ReachesFacts DEF send_byte, Flags
  <2>2. /\ reg' = [reg EXCEPT !.dr = shift, !.btf = FALSE] /\ shift' = TRUE
        /\ Goto("btf") /\ UNCHANGED <<phase, dma, left>>
    BY <1>2 DEF send_byte
  <2>3. /\ reg' \in [Bits -> BOOLEAN]
        /\ mode = "blocking" => ~reg'.dmaen /\ ~reg'.iterren /\ ~reg'.itevten
    BY <2>2, BusTypes, QuietRegisters DEF Bits
  <2>4. mode = "blocking" /\ left' >= 1 /\ Current.kind = "write"
    BY <2>1, <2>2 DEF Inv, Place, Waits, BlockingOnly
  <2> QED
    BY <1>0, <2>1, <2>2, <2>3, <2>4, BusTypes, GotoKeeps DEF Flags
<1>3. CASE prepare_last
  <2> DEFINE acks == ~send_nack(Options)
             stops == send_stop(Options)
  <2>1. /\ pc = "last" /\ Goto("rxlast") /\ UNCHANGED <<phase, shift, dma, left>>
        /\ reg' = [reg EXCEPT !.ack = @ /\ acks, !.stop = @ \/ stops]
    BY <1>3 DEF prepare_last
  <2>2. /\ reg' \in [Bits -> BOOLEAN]
        /\ mode = "blocking" => ~reg'.dmaen /\ ~reg'.iterren /\ ~reg'.itevten
    <3>1. (reg.ack /\ acks) \in BOOLEAN /\ (reg.stop \/ stops) \in BOOLEAN
      OBVIOUS
    <3> HIDE DEF acks, stops
    <3> QED
      BY <2>1, <3>1, BusTypes, QuietRegisters DEF Bits
  <2>3. mode = "blocking"
    BY <2>1 DEF Inv, Waits, BlockingOnly
  <2> HIDE DEF acks, stops
  <2> QED
    BY <1>0, <2>1, <2>2, <2>3, BusTypes, GotoKeeps DEF Flags
<1>4. CASE recv_last
  <2>1. pc = "rxlast" /\ pc # "idle"
    BY <1>4, ReachesFacts DEF recv_last, Flags
  <2>2. reg' = Clear({"rxne"}) /\ Goto("done") /\ UNCHANGED <<phase, shift, dma, left>>
    BY <1>4 DEF recv_last
  <2>3. /\ reg' \in [Bits -> BOOLEAN]
        /\ mode = "blocking" => ~reg'.dmaen /\ ~reg'.iterren /\ ~reg'.itevten
    BY <2>2, BusTypes, ClearBits, QuietRegisters DEF Bits
  <2> QED
    BY <1>0, <2>1, <2>2, <2>3, BusTypes, GotoKeeps DEF BlockingOnly
<1>5. CASE write_stop
  <2> DEFINE stops == send_stop(Options)
  <2>1. /\ pc = "stop" /\ Goto("done") /\ UNCHANGED <<phase, shift, dma, left>>
        /\ reg' = [reg EXCEPT !.stop = @ \/ stops]
    BY <1>5 DEF write_stop
  <2>2. /\ reg' \in [Bits -> BOOLEAN]
        /\ mode = "blocking" => ~reg'.dmaen /\ ~reg'.iterren /\ ~reg'.itevten
    <3>1. (reg.stop \/ stops) \in BOOLEAN
      OBVIOUS
    <3> HIDE DEF stops
    <3> QED
      BY <2>1, <3>1, BusTypes, QuietRegisters DEF Bits
  <2> HIDE DEF stops
  <2> QED
    BY <1>0, <2>1, <2>2, BusTypes, GotoKeeps DEF BlockingOnly
<1> QED
  BY <1>1, <1>2, <1>3, <1>4, <1>5

-------------------------------------------------------------------------------
(* The frames, the waits and the caller. *)

LEMMA EndFrame == Inv /\ end_frame => Inv'
<1> SUFFICES ASSUME Inv, end_frame PROVE Inv'
  OBVIOUS
<1>1. CASE frame = Len(ops)
  BY <1>1, BusTypes, ReturnKeeps DEF end_frame
<1>2. CASE frame # Len(ops)
  <2>1. /\ pc = "done" /\ reg' = on_drop(reg) /\ frame' = frame + 1 /\ pc' = "frame"
        /\ UNCHANGED <<busVars, dma, callVars, left, polling, woken, result>>
    BY <1>2 DEF end_frame
  <2>2. /\ reg' \in [Bits -> BOOLEAN]
        /\ ~reg'.dmaen /\ ~reg'.iterren /\ ~reg'.itevten
    BY <2>1, BusTypes, QuietRegisters, DropQuiet DEF Inv, TypeOK
  <2>3. frame' \in 1 .. MaxOps /\ frame' <= Len(ops)
    BY <1>2, <2>1, CurrentOp, I2cAssumption DEF Inv, Place, TypeOK
  <2>4. polling = "no"
    BY <2>1 DEF Inv, Waits, Flags, TypeOK
  <2>5. TypeOK'
    BY <2>1, <2>2, <2>3, WaitFlags DEF Inv, TypeOK, busVars, callVars
  <2>6. Registers' /\ Place' /\ Waits' /\ Quiet' /\ Asleep'
    BY <2>1, <2>2, <2>3, <2>4
       DEF Inv, Registers, Place, Waits, Quiet, Asleep, callVars, BlockingOnly
  <2> QED
    BY <2>5, <2>6 DEF Inv
<1> QED
  BY <1>1, <1>2

LEMMA WaitSteps == Inv /\ (await_pends \/ enable_interrupts) => Inv'
<1> SUFFICES ASSUME Inv, await_pends \/ enable_interrupts PROVE Inv'
  OBVIOUS
<1>1. CASE await_pends
  <2>1. /\ mode = "async" /\ pc \in Flags /\ polling' = "checked" /\ woken' = FALSE
        /\ UNCHANGED <<reg, busVars, dma, pc, callVars, frame, left, result>>
        /\ ~Awaited[pc]
    BY <1>1, WaitFlags DEF await_pends
  <2>2. pc = "dma" => dma # 0
    BY <2>1, DmaAwaited
  <2>3. TypeOK'
    BY <2>1, WaitFlags DEF Inv, TypeOK, busVars, callVars
  <2> QED
    BY <2>1, <2>2, <2>3
       DEF Inv, Registers, Place, Waits, Quiet, Asleep, Whole, Current, callVars
<1>2. CASE enable_interrupts
  <2>1. /\ polling = "checked" /\ polling' = "parked" /\ reg' = Set({"iterren", "itevten"})
        /\ UNCHANGED <<busVars, dma, pc, callVars, frame, left, woken, result>>
    BY <1>2 DEF enable_interrupts
  <2>2. reg' \in [Bits -> BOOLEAN] /\ reg'.iterren /\ reg'.itevten
    BY <2>1, BusTypes, SetBits DEF Bits
  <2>3. mode = "async" /\ pc \in Flags /\ pc # "idle"
    BY <2>1 DEF Inv, Waits, Flags
  <2>4. TypeOK'
    BY <2>1, <2>2, WaitFlags DEF Inv, TypeOK, busVars, callVars
  <2> QED
    BY <2>1, <2>2, <2>3, <2>4
       DEF Inv, Registers, Place, Waits, Quiet, Asleep, Whole, Current, callVars
<1> QED
  BY <1>1, <1>2

LEMMA TransactionBegins ==
  ASSUME Inv, NEW s \in SeqOf(Op, MaxOps) \ {<<>>}, NEW m \in {"blocking", "async"},
         transaction(s, m)
  PROVE  Inv'
<1>1. s \in Seq(Op) /\ Len(s) \in 1 .. MaxOps
  <2>1. PICK k \in 0 .. MaxOps : s \in [1 .. k -> Op]
    BY DEF SeqOf
  <2>2. s \in Seq(Op) /\ Len(s) = k /\ s # <<>>
    BY <2>1, I2cAssumption
  <2> QED
    BY <2>2
<1>2. /\ pc = "idle" /\ begun + Len(s) <= MaxOps /\ begun' = begun + Len(s) /\ mode' = m
      /\ ops' = s /\ frame' = 1 /\ settled' = Settled
      /\ UNCHANGED <<reg, busVars, dma, left, polling, woken>>
      /\ pc' \in {"idle", "frame"} /\ result' \in {"overrun", "none"}
      /\ pc' = "frame" => \A i \in DOMAIN s : s[i] # [kind |-> "read", n |-> 0]
  BY DEF transaction
<1>3. polling = "no"
  BY <1>2 DEF Inv, Waits, Flags, TypeOK
<1>4. settled' \in BOOLEAN
  <2>1. Settled \in BOOLEAN
    BY DEF Settled
  <2> QED
    BY <1>2, <2>1
<1>5. begun' \in 0 .. MaxOps /\ frame' \in 1 .. MaxOps
  BY <1>1, <1>2, I2cAssumption DEF Inv, TypeOK
<1>6. TypeOK'
  BY <1>1, <1>2, <1>4, <1>5, WaitFlags DEF Inv, TypeOK, busVars
<1>7. ASSUME pc' # "idle", NEW i \in DOMAIN s, s[i].kind = "read" PROVE s[i].n # 0
  <2>1. s[i] \in Op
    BY <1>1
  <2>2. s[i].n = 0 => s[i] = [kind |-> "read", n |-> 0]
    BY <1>7, <2>1 DEF Op
  <2> QED
    BY <1>2, <1>7, <2>2
<1>8. Place'
  BY <1>1, <1>2, <1>7 DEF Place
<1>9. Registers' /\ Waits' /\ Quiet' /\ Asleep'
  BY <1>2, <1>3 DEF Inv, Registers, Waits, Quiet, Asleep, BlockingOnly
<1> QED
  BY <1>6, <1>8, <1>9 DEF Inv

-------------------------------------------------------------------------------
(* The invariant is inductive. *)

LEMMA InvInit == Init => Inv
<1> SUFFICES ASSUME Init PROVE Inv
  OBVIOUS
<1>1. Registers /\ ~reg.dmaen /\ ~reg.iterren /\ ~reg.itevten
  BY DEF Init, Registers, Bits
<1>2. TypeOK
  <2>1. \A b \in DOMAIN reg : reg[b] \in BOOLEAN
    BY <1>1 DEF Registers
  <2>2. wire \in Seq({"S", "P", "addr_w", "addr_r", "W", "A", "N", "X", "L"}) /\ ops \in Seq(Op)
    BY DEF Init
  <2>3. dma \in 0 .. MaxLen /\ left \in 0 .. MaxLen /\ frame \in 1 .. MaxOps
        /\ begun \in 0 .. MaxOps
    BY I2cAssumption DEF Init
  <2> QED
    BY <2>1, <2>2, <2>3 DEF Init, TypeOK
<1> QED
  BY <1>1, <1>2, I2cAssumption DEF Init, Inv, Place, Waits, Quiet, Asleep, BlockingOnly

LEMMA InvStutters == Inv /\ UNCHANGED vars => Inv'
<1> SUFFICES ASSUME Inv, UNCHANGED vars PROVE Inv'
  OBVIOUS
<1>1. UNCHANGED <<reg, phase, shift, other, wire, dma, pc, mode, ops, settled, begun, frame,
                  left, polling, woken, result>>
  BY DEF vars, busVars, callVars
<1>2. TypeOK'
  BY <1>1, WaitFlags DEF Inv, TypeOK
<1> QED
  BY <1>1, <1>2 DEF Inv, Registers, Place, Waits, Quiet, Asleep, Whole, Current

LEMMA InvStep == Inv /\ [Next]_vars => Inv'
<1> SUFFICES ASSUME Inv, Next PROVE Inv'
  BY InvStutters
<1>1. CASE Controller \/ OtherMaster(TRUE) \/ OtherMaster(FALSE) \/ on_interrupt
  BY <1>1, BusSteps, DmaSteps, HandlerSteps DEF Controller
<1>2. CASE Driver \/ timeout \/ cancel
  BY <1>2, EndSteps, BeginFrame, StartGenerated, AddressAcknowledged, StartDma, DmaComplete,
     LoopSteps, RegisterSteps, EndFrame, WaitSteps DEF Driver
<1> QED
  BY <1>1, <1>2, TransactionBegins DEF Next

LEMMA InvAlways == Spec => []Inv
  BY InvInit, InvStep, PTL DEF Spec

-------------------------------------------------------------------------------
(* Errors: where a flag can come from, and what the wire has seen then.    *)

AddressPhases == {"addr_w", "addr_r"}
NoError == ~reg.af /\ ~reg.arlo

\* The bits that mirror the phase; an error ends what the controller was doing.
BusInv ==
  /\ reg.sb <=> phase = "started"
  /\ phase = "started" => reg.msl
  /\ reg.addr => phase \in AddressPhases
  /\ shift => phase = "tx" /\ ~reg.btf
  /\ NoError \/ phase \in {"off", "hold", "started"}
  /\ ~(reg.af /\ reg.arlo)
  /\ dma # 0 => pc = "dma"

\* The first START of the transaction is behind the driver.
Past == pc # "idle" /\ (pc \in {"frame", "sb"} => frame > 1)

\* From there on the bus does what this transaction asked for.  The blocking loops
\* leave no byte on the wire, and neither does the last frame; a read provokes no error.
OwnInv ==
  Past =>
    /\ pc # "sb" => ~reg.start /\ phase # "started"
    /\ pc # "addr" => phase \notin AddressPhases
    /\ pc = "dma" => mode = "async"
    /\ mode = "blocking" /\ shift => pc = "btf"
    /\ mode = "blocking" /\ pc \in {"frame", "body", "last", "stop", "done"} => NoError
    /\ pc = "frame" /\ ops[frame - 1].kind = "read" => phase # "tx" /\ NoError
    /\ pc \notin {"frame", "sb", "addr"} /\ Current.kind = "read" => phase # "tx" /\ NoError
    /\ pc = "done" /\ frame = Len(ops) => ~shift /\ NoError

\* A transaction that ended by itself leaves no error behind, nor one to come.
EndInv ==
  pc = "idle" /\ result \in {"ok", "nack", "arbitration"} =>
    NoError /\ ~shift /\ phase \notin AddressPhases

\* On a settled bus nothing happens until the first START, and an error that is
\* seen after it is on the wire.
Calm == phase \in {"off", "hold"} \/ (Txe /\ ~shift)
Seen(x) == \E i \in DOMAIN wire : wire[i] = x

SettledInv ==
  settled =>
    /\ pc = "frame" /\ frame = 1 => Calm /\ NoError /\ ~reg.start
    /\ pc = "sb" /\ reg.start => ~reg.sb /\ (frame = 1 => Calm /\ NoError)
    /\ pc # "idle" => (reg.af => Seen("X")) /\ (reg.arlo => Seen("L"))
    /\ pc = "idle" /\ result = "nack" => Seen("X")
    /\ pc = "idle" /\ result = "arbitration" => Seen("L")
    /\ pc = "idle" /\ result \in {"nack", "arbitration"} => ~(reg.start /\ frame = 1)

ErrorInv == BusInv /\ OwnInv /\ EndInv /\ SettledInv

-------------------------------------------------------------------------------
(* What the registers that matter here are, and how they are kept.         *)

ErrorBits == {"start", "sb", "addr", "btf", "af", "arlo", "msl", "dr"}

LEMMA ErrorTypes ==
  ASSUME Inv
  PROVE  /\ reg \in [Bits -> BOOLEAN] /\ phase \in Phases /\ shift \in BOOLEAN
         /\ mode \in {"blocking", "async"} /\ settled \in BOOLEAN /\ dma \in Nat
         /\ frame \in 1 .. MaxOps /\ ErrorBits \subseteq Bits
         /\ pc \in Flags \cup {"idle", "frame", "body", "last", "stop", "done"}
  BY WaitFlags, I2cAssumption DEF Inv, TypeOK, Registers, Phases, ErrorBits, Bits

LEMMA FailingFacts == ~Failing <=> NoError
  BY DEF Failing, check_and_clear_error_flags, NoError

LEMMA SeenGrows ==
  ASSUME Inv, NEW x \in Symbols, wire' = Append(wire, x)
  PROVE  (\A y : Seen(y) => Seen(y)') /\ Seen(x)'
<1>1. wire \in Seq(Symbols) /\ Len(wire) \in Nat
  BY BusTypes
<1>2. /\ DOMAIN wire = 1 .. Len(wire) /\ DOMAIN wire' = 1 .. Len(wire) + 1
      /\ wire'[Len(wire) + 1] = x /\ \A i \in 1 .. Len(wire) : wire'[i] = wire[i]
  BY <1>1
<1>3. Seen(x)'
  BY <1>1, <1>2 DEF Seen
<1>4. ASSUME NEW y, Seen(y) PROVE Seen(y)'
  <2>1. PICK i \in 1 .. Len(wire) : wire[i] = y
    BY <1>2, <1>4 DEF Seen
  <2>2. i \in DOMAIN wire' /\ wire'[i] = y
    BY <1>1, <1>2, <2>1
  <2> QED
    BY <2>2 DEF Seen
<1> QED
  BY <1>3, <1>4

\* The steps that leave the bus, the errors and the driver's place alone.
LEMMA ErrorsStay ==
  ASSUME Inv, ErrorInv, UNCHANGED <<phase, shift, wire, dma, pc, mode, ops, settled, frame, result>>,
         \A b \in ErrorBits : reg'[b] <=> reg[b]
  PROVE  ErrorInv'
<1>1. /\ reg'.start <=> reg.start
      /\ reg'.sb <=> reg.sb
      /\ reg'.addr <=> reg.addr
      /\ reg'.btf <=> reg.btf
      /\ reg'.af <=> reg.af
      /\ reg'.arlo <=> reg.arlo
      /\ reg'.msl <=> reg.msl
      /\ reg'.dr <=> reg.dr
  BY DEF ErrorBits
<1>2. BusInv'
  BY <1>1 DEF ErrorInv, BusInv, NoError
<1>3. OwnInv'
  BY <1>1 DEF ErrorInv, OwnInv, Past, NoError, Current
<1>4. EndInv'
  BY <1>1 DEF ErrorInv, EndInv, NoError
<1>5. SettledInv'
  BY <1>1 DEF ErrorInv, SettledInv, NoError, Calm, Txe, Seen
<1> QED
  BY <1>2, <1>3, <1>4, <1>5 DEF ErrorInv

LEMMA ErrorsStutter ==
  ASSUME Inv, ErrorInv,
         \/ UNCHANGED vars \/ on_interrupt \/ await_pends \/ enable_interrupts
         \/ OtherMaster(TRUE) \/ OtherMaster(FALSE)
  PROVE  ErrorInv'
<1>1. Registers
  BY BusTypes
<1>2. CASE on_interrupt
  <2>1. \A b \in ErrorBits : reg'[b] <=> reg[b]
    BY <1>1, <1>2, ClearBits DEF on_interrupt, ErrorBits, Bits
  <2> QED
    BY <1>2, <2>1, ErrorsStay DEF on_interrupt, busVars, callVars
<1>3. CASE enable_interrupts
  <2>1. \A b \in ErrorBits : reg'[b] <=> reg[b]
    BY <1>1, <1>3, SetBits DEF enable_interrupts, ErrorBits, Bits
  <2> QED
    BY <1>3, <2>1, ErrorsStay DEF enable_interrupts, busVars, callVars
<1>4. CASE await_pends
  BY <1>4, ErrorsStay DEF await_pends, busVars, callVars
<1>5. CASE UNCHANGED vars
  BY <1>5, ErrorsStay DEF vars, busVars, callVars
<1>6. CASE OtherMaster(TRUE) \/ OtherMaster(FALSE)
  BY <1>6, ErrorsStay DEF OtherMaster, callVars
<1> QED
  BY <1>2, <1>3, <1>4, <1>5, <1>6

-------------------------------------------------------------------------------
(* The controller. *)

LEMMA StartErrors == ASSUME Inv, ErrorInv, GenerateStart PROVE ErrorInv'
<1>1. /\ UNCHANGED <<shift, dma, pc, mode, ops, settled, frame, result>>
      /\ reg.start /\ ~reg.sb /\ phase' = "started"
      /\ phase \in {"off", "hold", "rx"} \/ (phase = "tx" /\ ~shift)
  BY DEF GenerateStart, callVars, Txe
<1>2. /\ ~reg'.start /\ reg'.sb /\ reg'.msl
      /\ reg'.addr <=> reg.addr
      /\ reg'.af <=> reg.af
      /\ reg'.arlo <=> reg.arlo
  BY BusTypes DEF GenerateStart, Bits
<1>3. ~shift /\ ~reg.addr
  BY <1>1 DEF ErrorInv, BusInv, AddressPhases
<1>4. BusInv'
  BY <1>1, <1>2, <1>3 DEF ErrorInv, BusInv, NoError
<1>5. Past => pc = "sb"
  BY <1>1 DEF ErrorInv, OwnInv
<1>6. OwnInv'
  BY <1>1, <1>3, <1>5 DEF OwnInv, Past, AddressPhases
<1>7. EndInv'
  BY <1>1, <1>2, <1>3 DEF ErrorInv, EndInv, NoError, AddressPhases
<1>8. CASE frame # 1
  <2>1. wire' = Append(wire, "S")
    BY <1>8 DEF GenerateStart
  <2>2. \A y : Seen(y) => Seen(y)'
    BY <2>1, SeenGrows DEF Symbols
  <2>3. SettledInv'
    BY <1>1, <1>2, <1>8, <2>2 DEF ErrorInv, SettledInv
  <2> QED
    BY <1>4, <1>6, <1>7, <2>3 DEF ErrorInv
<1>9. CASE frame = 1
  <2>1. ASSUME settled PROVE (pc = "sb" /\ NoError) \/ (pc = "idle" /\ result \notin {"nack", "arbitration"})
    <3>1. CASE pc = "idle"
      BY <1>1, <1>9, <2>1, <3>1 DEF ErrorInv, SettledInv
    <3>2. CASE pc # "idle"
      <4>1. pc \in {"frame", "sb"}
        BY <1>5, <3>2 DEF Past
      <4> QED
        BY <1>1, <1>9, <2>1, <4>1 DEF ErrorInv, SettledInv
    <3> QED
      BY <3>1, <3>2
  <2>2. SettledInv'
    BY <1>1, <1>2, <2>1 DEF SettledInv, NoError
  <2> QED
    BY <1>4, <1>6, <1>7, <2>2 DEF ErrorInv
<1> QED
  BY <1>8, <1>9

\* What the other steps of the controller have in common.
LEMMA WireErrors ==
  ASSUME Inv, ErrorInv, NEW x \in Symbols, wire' = Append(wire, x),
         UNCHANGED <<dma, pc, mode, ops, settled, frame, result>>,
         reg'.start <=> reg.start, reg'.sb <=> reg.sb, reg'.msl \/ phase' # "started",
         phase # "started" /\ phase' # "started",
         reg'.addr => phase' \in AddressPhases,
         shift' => shift /\ phase' = "tx" /\ ~reg'.btf,
         reg'.af <=> reg.af \/ x = "X", reg'.arlo <=> reg.arlo \/ x = "L",
         x \in {"X", "L"} => NoError /\ (phase \in AddressPhases \/ shift) /\ phase' \in {"off", "hold"},
         phase' \in {phase, "off", "hold"},
         phase' = phase => phase \notin {"off", "hold"},
         phase \in {"tx", "rx", "hold"} \/ phase \in AddressPhases,
         phase = "tx" /\ phase' = "tx" => shift
  PROVE  ErrorInv'
<1>1. BusInv'
  BY DEF ErrorInv, BusInv, NoError
<1>2. (\A y : Seen(y) => Seen(y)') /\ Seen(x)'
  BY SeenGrows
<1>3. ASSUME Past
      PROVE  /\ phase \in AddressPhases => pc = "addr"
             /\ shift => (mode = "blocking" => pc = "btf") /\ ~(pc = "done" /\ frame = Len(ops)) /\ phase = "tx"
  BY <1>3 DEF ErrorInv, OwnInv, BusInv, NoError
<1>4. OwnInv'
  <2>1. Past' <=> Past
    BY DEF Past
  <2>2. ASSUME Past, x \notin {"X", "L"} PROVE OwnInv'
    <3>1. NoError' <=> NoError
      BY <2>2 DEF NoError
    <3>2. Current' = Current /\ ops' = ops /\ frame' = frame /\ pc' = pc /\ mode' = mode
      BY DEF Current
    <3> QED
      BY <1>3, <2>2, <3>1, <3>2 DEF ErrorInv, OwnInv, AddressPhases
  <2>3. ASSUME Past, x \in {"X", "L"} PROVE OwnInv'
    <3>1. CASE phase \in AddressPhases
      BY <1>3, <2>3, <3>1 DEF ErrorInv, OwnInv, AddressPhases, Past
    <3>2. CASE shift
      BY <1>3, <2>3, <3>2 DEF ErrorInv, OwnInv, AddressPhases, Current
    <3> QED
      BY <2>3, <3>1, <3>2
  <2> QED
    BY <2>1, <2>2, <2>3 DEF OwnInv
<1>5. EndInv'
  <2>1. ASSUME pc = "idle", result \in {"ok", "nack", "arbitration"}
        PROVE  NoError /\ ~shift /\ phase \notin AddressPhases
    BY <2>1 DEF ErrorInv, EndInv
  <2>2. ASSUME pc = "idle", result \in {"ok", "nack", "arbitration"} PROVE x \notin {"X", "L"}
    BY <2>1, <2>2
  <2> QED
    BY <2>1, <2>2 DEF EndInv, NoError, AddressPhases
<1>6. SettledInv'
  <2>1. ASSUME Calm PROVE x \notin {"X", "L"} /\ phase' \in {"off", "hold"}
    BY <2>1 DEF Calm, Txe, AddressPhases, ErrorInv, BusInv
  <2>2. ASSUME Calm, NoError PROVE Calm' /\ NoError'
    BY <2>1, <2>2 DEF Calm, NoError
  <2> QED
    BY <1>2, <2>2 DEF ErrorInv, SettledInv
<1> QED
  BY <1>1, <1>4, <1>5, <1>6 DEF ErrorInv

LEMMA WireSteps ==
  ASSUME Inv, ErrorInv,
         GenerateStop \/ AddressSent \/ ByteSent \/ ByteReceived \/ LoseArbitration
  PROVE  ErrorInv'
<1> USE DEF Bits, Symbols, AddressPhases
<1>0. /\ Registers
      /\ reg.sb <=> phase = "started"
      /\ shift => phase = "tx" /\ ~reg.btf
      /\ reg.addr => phase \in AddressPhases
      /\ NoError \/ phase \in {"off", "hold", "started"}
  BY BusTypes DEF ErrorInv, BusInv
<1>1. CASE GenerateStop
  <2>1. /\ wire' = Append(wire, "P") /\ phase' = "off"
        /\ UNCHANGED <<shift, dma, pc, mode, ops, settled, frame, result>>
        /\ phase = "hold" \/ (phase = "tx" /\ ~shift)
        /\ reg' = Clear({"stop", "msl", "btf"})
    BY <1>1 DEF GenerateStop, callVars, Txe
  <2>2. /\ reg'.start <=> reg.start
        /\ reg'.sb <=> reg.sb
        /\ reg'.addr <=> reg.addr
        /\ reg'.af <=> reg.af
        /\ reg'.arlo <=> reg.arlo
    BY <1>0, <2>1, ClearBits
  <2>3. ~shift' /\ ~reg'.addr
    BY <1>0, <2>1, <2>2
  <2> QED
    BY <2>1, <2>2, <2>3, WireErrors
<1>2. CASE AddressSent
  <2>1. /\ UNCHANGED <<shift, dma, pc, mode, ops, settled, frame, result>>
        /\ phase \in AddressPhases /\ ~reg.addr
    BY <1>2 DEF AddressSent, callVars
  <2>2. ~shift /\ NoError
    BY <1>0, <2>1
  <2>3. CASE reg' = Set({"addr"}) /\ wire' = Append(wire, phase) /\ phase' = phase
    <3>1. /\ reg'.start <=> reg.start
          /\ reg'.sb <=> reg.sb
          /\ reg'.af <=> reg.af
          /\ reg'.arlo <=> reg.arlo
      BY <1>0, <2>3, SetBits
    <3> QED
      BY <2>1, <2>2, <2>3, <3>1, WireErrors
  <2>4. CASE reg' = Set({"af"}) /\ wire' = Append(wire, "X") /\ phase' = "hold"
    <3>1. /\ reg'.start <=> reg.start
          /\ reg'.sb <=> reg.sb
          /\ reg'.addr <=> reg.addr
          /\ reg'.af
          /\ reg'.arlo <=> reg.arlo
      BY <1>0, <2>4, SetBits
    <3> QED
      BY <2>1, <2>2, <2>4, <3>1, WireErrors
  <2> QED
    BY <1>2, <2>3, <2>4 DEF AddressSent
<1>3. CASE ByteSent
  <2>1. /\ UNCHANGED <<dma, pc, mode, ops, settled, frame, result>>
        /\ phase = "tx" /\ shift
    BY <1>3 DEF ByteSent, callVars
  <2>2. NoError /\ ~reg.addr
    BY <1>0, <2>1
  <2>3. CASE /\ wire' = Append(wire, "W") /\ reg' = [reg EXCEPT !.dr = FALSE, !.btf = ~reg.dr]
             /\ shift' = reg.dr /\ phase' = phase
    <3>1. /\ reg'.start <=> reg.start
          /\ reg'.sb <=> reg.sb
          /\ reg'.addr <=> reg.addr
          /\ reg'.af <=> reg.af
          /\ reg'.arlo <=> reg.arlo
          /\ reg'.btf <=> ~reg.dr
      BY <1>0, <2>3 DEF Registers
    <3> QED
      BY <2>1, <2>2, <2>3, <3>1, WireErrors
  <2>4. CASE /\ wire' = Append(wire, "X") /\ reg' = Set({"af"}) /\ shift' = FALSE /\ phase' = "hold"
    <3>1. /\ reg'.start <=> reg.start
          /\ reg'.sb <=> reg.sb
          /\ reg'.addr <=> reg.addr
          /\ reg'.af
          /\ reg'.arlo <=> reg.arlo
      BY <1>0, <2>4, SetBits
    <3> QED
      BY <2>1, <2>2, <2>4, <3>1, WireErrors
  <2> QED
    BY <1>3, <2>3, <2>4 DEF ByteSent
<1>4. CASE ByteReceived
  <2>1. /\ UNCHANGED <<shift, dma, pc, mode, ops, settled, frame, result>>
        /\ phase = "rx" /\ phase' \in {"rx", "hold"} /\ reg' = Set({"rxne"})
    BY <1>4 DEF ByteReceived, callVars
  <2>2. PICK x \in {"A", "N"} : wire' = Append(wire, x)
    BY <1>4 DEF ByteReceived
  <2>3. /\ reg'.start <=> reg.start
        /\ reg'.sb <=> reg.sb
        /\ reg'.addr <=> reg.addr
        /\ reg'.af <=> reg.af
        /\ reg'.arlo <=> reg.arlo
    BY <1>0, <2>1, SetBits
  <2>4. ~shift /\ ~reg.addr
    BY <1>0, <2>1
  <2> QED
    BY <2>1, <2>2, <2>3, <2>4, WireErrors
<1>5. CASE LoseArbitration
  <2>1. /\ UNCHANGED <<shift, dma, pc, mode, ops, settled, frame, result>>
        /\ phase \in AddressPhases /\ ~reg.addr /\ phase' = "off" /\ wire' = Append(wire, "L")
        /\ reg' = [reg EXCEPT !.arlo = TRUE, !.msl = FALSE]
    BY <1>5 DEF LoseArbitration, callVars
  <2>2. ~shift /\ NoError
    BY <1>0, <2>1
  <2>3. /\ reg'.start <=> reg.start
        /\ reg'.sb <=> reg.sb
        /\ reg'.addr <=> reg.addr
        /\ reg'.af <=> reg.af
        /\ reg'.arlo
    BY <1>0, <2>1 DEF Registers
  <2> QED
    BY <2>1, <2>2, <2>3, WireErrors
<1> QED
  BY <1>1, <1>2, <1>3, <1>4, <1>5

LEMMA DmaErrors == ASSUME Inv, ErrorInv, DmaMoves PROVE ErrorInv'
<1>1. /\ UNCHANGED <<phase, wire, pc, mode, ops, settled, frame, result>>
      /\ dma > 0 /\ dma' = dma - 1 /\ reg.dmaen
  BY DEF DmaMoves, callVars
<1>2. pc = "dma" /\ mode = "async" /\ Past /\ Past'
  BY <1>1, ErrorTypes DEF ErrorInv, BusInv, Past, Inv, Quiet
<1>3. /\ reg'.start <=> reg.start
      /\ reg'.sb <=> reg.sb
      /\ reg'.addr <=> reg.addr
      /\ reg'.af <=> reg.af
      /\ reg'.arlo <=> reg.arlo
      /\ reg'.msl <=> reg.msl
      /\ \/ phase = "tx" /\ ~reg'.btf
         \/ shift' = shift /\ (reg'.btf <=> reg.btf)
  <2>1. CASE Txe /\ reg' = [reg EXCEPT !.dr = shift, !.btf = FALSE]
    BY <2>1, BusTypes DEF Bits, Txe
  <2>2. CASE reg' = Clear({"rxne"}) /\ shift' = shift
    BY <2>2, BusTypes, ClearBits DEF Bits
  <2> QED
    BY <2>1, <2>2 DEF DmaMoves
<1>4. BusInv'
  BY <1>1, <1>2, <1>3 DEF ErrorInv, BusInv, NoError
<1>5. OwnInv'
  BY <1>1, <1>2, <1>3 DEF ErrorInv, OwnInv, NoError, Current
<1>6. EndInv' /\ SettledInv'
  BY <1>1, <1>2, <1>3 DEF ErrorInv, EndInv, SettledInv, Seen
<1> QED
  BY <1>4, <1>5, <1>6 DEF ErrorInv

-------------------------------------------------------------------------------
(* The end of a transaction. *)

LEMMA ReturnErrors ==
  ASSUME Inv, ErrorInv, pc # "idle", NEW r \in [Bits -> BOOLEAN], NEW res, Return(res, r),
         \A b \in {"start", "sb", "addr", "btf", "msl"} : r[b] <=> reg[b],
         r.af => reg.af, r.arlo => reg.arlo,
         res \in {"ok", "nack", "arbitration"} =>
           ~r.af /\ ~r.arlo /\ ~shift /\ phase \notin AddressPhases,
         settled /\ res = "nack" => Seen("X"),
         settled /\ res = "arbitration" => Seen("L"),
         settled /\ res \in {"nack", "arbitration"} => ~(reg.start /\ frame = 1)
  PROVE  ErrorInv'
<1>1. /\ UNCHANGED <<phase, shift, wire, mode, ops, settled, frame>>
      /\ pc' = "idle" /\ dma' = 0 /\ result' = res /\ reg' = on_drop(r)
  BY DEF Return, busVars, callVars
<1>2. \A b \in Bits \ {"dmaen", "iterren", "itevten"} : reg'[b] <=> r[b]
  BY <1>1 DEF on_drop, Bits
<1>3. /\ reg'.start <=> reg.start
      /\ reg'.sb <=> reg.sb
      /\ reg'.addr <=> reg.addr
      /\ reg'.btf <=> reg.btf
      /\ reg'.msl <=> reg.msl
      /\ reg'.af <=> r.af
      /\ reg'.arlo <=> r.arlo
  BY <1>2 DEF Bits
<1>4. BusInv'
  BY <1>1, <1>3 DEF ErrorInv, BusInv, NoError
<1>5. OwnInv' /\ EndInv'
  BY <1>1, <1>3 DEF OwnInv, Past, EndInv, NoError
<1>6. SettledInv'
  BY <1>1, <1>3 DEF SettledInv, Seen
<1> QED
  BY <1>4, <1>5, <1>6 DEF ErrorInv

LEMMA EndErrors ==
  ASSUME Inv, ErrorInv, await_fails \/ timeout \/ cancel
  PROVE  ErrorInv'
<1>0. reg \in [Bits -> BOOLEAN] /\ Registers
  BY BusTypes
<1>1. CASE await_fails
  <2> DEFINE res == check_and_clear_error_flags.error
             r == check_and_clear_error_flags.cleared
  <2>1. pc \in Flags /\ pc # "idle" /\ ~NoError /\ Return(res, r)
    BY <1>1, WaitFlags, FailingFacts DEF await_fails, Flags
  <2>2. ~(reg.af /\ reg.arlo) /\ phase \in {"off", "hold", "started"} /\ ~shift
    BY <2>1 DEF ErrorInv, BusInv
  <2>3. /\ r \in [Bits -> BOOLEAN] /\ ~r.af /\ ~r.arlo
        /\ \A b \in {"start", "sb", "addr", "btf", "msl"} : r[b] <=> reg[b]
        /\ res = IF reg.af THEN "nack" ELSE "arbitration"
    <3>1. CASE reg.af
      BY <1>0, <2>2, <3>1, ClearBits DEF check_and_clear_error_flags, Bits
    <3>2. CASE ~reg.af /\ reg.arlo
      BY <1>0, <3>2, ClearBits DEF check_and_clear_error_flags, Bits
    <3> QED
      BY <2>1, <3>1, <3>2 DEF NoError
  <2>4. settled => (reg.af => Seen("X")) /\ (reg.arlo => Seen("L"))
    BY <2>1 DEF ErrorInv, SettledInv
  <2>5. settled => ~(reg.start /\ frame = 1)
    <3>1. CASE pc = "sb"
      BY <2>1, <3>1 DEF ErrorInv, SettledInv
    <3>2. CASE pc # "sb"
      BY <2>1, <3>2 DEF ErrorInv, OwnInv, Past, Flags
    <3> QED
      BY <3>1, <3>2
  <2> HIDE DEF res, r
  <2>6. (res = "nack" => reg.af) /\ (res = "arbitration" => reg.arlo)
    BY <2>1, <2>3 DEF NoError
  <2> QED
    BY <2>1, <2>2, <2>3, <2>4, <2>5, <2>6, ReturnErrors DEF AddressPhases
<1>2. CASE timeout
  <2>1. pc # "idle" /\ Return("timeout", reg)
    BY <1>2, WaitFlags DEF timeout, Flags
  <2> QED
    BY <1>0, <2>1, ReturnErrors
<1>3. CASE cancel
  <2>1. pc # "idle" /\ Return("cancelled", reg)
    BY <1>3 DEF cancel, Inv, Waits, Flags
  <2> QED
    BY <1>0, <2>1, ReturnErrors
<1> QED
  BY <1>1, <1>2, <1>3

-------------------------------------------------------------------------------
(* The frames. *)

LEMMA Groups ==
  ASSUME Inv, pc # "idle"
  PROVE  /\ send_start(Options) <=> frame = 1 \/ ops[frame - 1].kind # Current.kind
         /\ send_stop(Options) <=> frame = Len(ops)
<1>1. ops \in Seq(Op) /\ frame \in 1 .. Len(ops) /\ frame \in DOMAIN ops
  BY CurrentOp DEF Inv, TypeOK
<1> DEFINE first == frame = 1 \/ ops[frame - 1].kind # Current.kind
           next == IF frame = Len(ops) THEN "none" ELSE ops[frame + 1].kind
<1>2. Options = FrameOf(first, next)
  BY <1>1 DEF Options, operation_frames, Current
<1>3. next \in {"none", "read", "write"} /\ (next = "none" <=> frame = Len(ops))
  <2>1. frame # Len(ops) => frame + 1 \in 1 .. Len(ops)
    BY <1>1
  <2>2. frame # Len(ops) => ops[frame + 1] \in Op
    BY <1>1, <2>1
  <2> QED
    BY <2>2 DEF Op
<1> HIDE DEF first, next
<1>4. /\ FrameOf(TRUE, next) \in {"FirstAndLastFrame", "FirstFrame", "FirstAndNextFrame"}
      /\ FrameOf(FALSE, next) \in {"LastFrame", "NextFrame", "LastFrameNoStop"}
      /\ FrameOf(TRUE, next) = "FirstAndLastFrame" <=> next = "none"
      /\ FrameOf(FALSE, next) = "LastFrame" <=> next = "none"
  BY <1>3 DEF FrameOf
<1>5. (first => Options = FrameOf(TRUE, next)) /\ (~first => Options = FrameOf(FALSE, next))
  BY <1>2 DEF FrameOf
<1>6. send_start(Options) <=> first
  BY <1>4, <1>5 DEF send_start
<1>7. send_stop(Options) <=> next = "none"
  BY <1>4, <1>5 DEF send_stop
<1> QED
  BY <1>3, <1>6, <1>7 DEF first

\* A step from one place to another after the address.
LEMMA GotoErrors ==
  ASSUME Inv, ErrorInv, Past, pc \notin {"sb", "addr"}, NEW step, Goto(step),
         step \in (Flags \ {"sb", "addr"}) \cup {"body", "last", "stop", "done"},
         UNCHANGED <<phase, shift>>, \A b \in ErrorBits : reg'[b] <=> reg[b],
         dma' # 0 => step = "dma", step = "dma" => mode = "async",
         mode = "blocking" /\ shift => step = "btf",
         mode = "blocking" /\ step \in {"body", "last", "stop", "done"} => NoError,
         Current.kind = "read" => phase # "tx" /\ NoError,
         step = "done" /\ frame = Len(ops) => ~shift /\ NoError
  PROVE  ErrorInv'
<1>1. /\ reg'.start <=> reg.start
      /\ reg'.sb <=> reg.sb
      /\ reg'.addr <=> reg.addr
      /\ reg'.btf <=> reg.btf
      /\ reg'.af <=> reg.af
      /\ reg'.arlo <=> reg.arlo
      /\ reg'.msl <=> reg.msl
  BY DEF ErrorBits
<1>2. /\ UNCHANGED <<wire, mode, ops, settled, frame, result>> /\ pc' = step
      /\ step \notin {"idle", "frame", "sb", "addr"} /\ pc # "idle" /\ Current' = Current
  BY DEF Goto, callVars, Flags, Past, Current
<1>3. BusInv'
  BY <1>1, <1>2 DEF ErrorInv, BusInv, NoError
<1>4. OwnInv'
  BY <1>1, <1>2 DEF ErrorInv, OwnInv, NoError
<1>5. EndInv' /\ SettledInv'
  BY <1>1, <1>2 DEF ErrorInv, EndInv, SettledInv, Seen
<1> QED
  BY <1>3, <1>4, <1>5 DEF ErrorInv

\* What is known at a place after the address.
LEMMA PastFacts ==
  ASSUME Inv, ErrorInv, pc \notin {"idle", "frame", "sb", "addr"}
  PROVE  /\ Past /\ ~reg.start /\ phase # "started" /\ phase \notin AddressPhases
         /\ mode = "blocking" /\ shift => pc = "btf"
         /\ mode = "blocking" /\ pc \in {"body", "last", "stop", "done"} => NoError
         /\ Current.kind = "read" => phase # "tx" /\ ~shift /\ NoError
         /\ dma # 0 => pc = "dma"
         /\ shift => ~reg.btf /\ phase = "tx"
  BY DEF ErrorInv, OwnInv, BusInv, Past

LEMMA BeginErrors == ASSUME Inv, ErrorInv, begin_frame PROVE ErrorInv'
<1> DEFINE starts == IF send_start(Options)
                     THEN {"start"} \cup (IF Current.kind = "read" THEN {"ack"} ELSE {})
                     ELSE {}
           bits == starts \cup (IF mode = "async" THEN {"dmaen"} ELSE {})
           last == Current.kind = "read" /\ send_nack(Options) /\ ~SingleByte
           step == IF send_start(Options) THEN "sb" ELSE "body"
<1>1. /\ pc = "frame" /\ UNCHANGED <<phase, shift, dma>> /\ Goto(step)
      /\ reg' = IF mode = "async" THEN [Set(bits) EXCEPT !.last = last] ELSE Set(bits)
  BY DEF begin_frame
<1>2. \A b \in ErrorBits : b \in bits <=> b = "start" /\ send_start(Options)
  BY DEF ErrorBits
<1>3. \A b \in ErrorBits : reg'[b] <=> (reg[b] \/ (b = "start" /\ send_start(Options)))
  <2> HIDE DEF bits, last
  <2>1. ErrorBits \subseteq Bits \ {"last"}
    BY DEF ErrorBits, Bits
  <2>2. \A b \in ErrorBits : Set(bits)[b] <=> (b \in bits \/ reg[b])
    BY <2>1, BusTypes, SetBits
  <2>3. Set(bits) \in [Bits -> BOOLEAN]
    BY BusTypes, SetBits
  <2>4. \A b \in ErrorBits : reg'[b] = Set(bits)[b]
    BY <1>1, <2>1, <2>3
  <2> QED
    BY <1>2, <2>2, <2>4
<1> HIDE DEF bits, last, starts
<1>5. CASE send_start(Options)
  <2>1. /\ UNCHANGED <<phase, shift, dma, wire, mode, ops, settled, frame, result>> /\ pc' = "sb"
    BY <1>1, <1>5 DEF Goto, callVars
  <2>2. /\ reg'.start
        /\ reg'.sb <=> reg.sb
        /\ reg'.addr <=> reg.addr
        /\ reg'.btf <=> reg.btf
        /\ reg'.af <=> reg.af
        /\ reg'.arlo <=> reg.arlo
        /\ reg'.msl <=> reg.msl
        /\ reg'.dr <=> reg.dr
    BY <1>3, <1>5 DEF ErrorBits
  <2>3. BusInv'
    BY <1>1, <2>1, <2>2 DEF ErrorInv, BusInv, NoError
  <2>4. OwnInv'
    BY <1>1, <2>1, <2>2 DEF ErrorInv, OwnInv, Past
  <2>5. EndInv'
    BY <2>1 DEF EndInv
  <2>6. ASSUME settled PROVE ~reg.sb /\ (frame = 1 => Calm /\ NoError)
    <3>1. CASE frame = 1
      <4>1. Calm /\ NoError
        BY <1>1, <2>6, <3>1 DEF ErrorInv, SettledInv
      <4> QED
        BY <4>1 DEF Calm, Txe, ErrorInv, BusInv
    <3>2. CASE frame # 1
      <4>1. Past
        BY <1>1, <3>2, ErrorTypes, I2cAssumption DEF Past
      <4> QED
        BY <1>1, <3>2, <4>1 DEF ErrorInv, OwnInv, BusInv
    <3> QED
      BY <3>1, <3>2
  <2>7. (Calm => Calm') /\ (NoError => NoError') /\ (\A y : Seen(y) => Seen(y)')
    BY <2>1, <2>2 DEF Calm, Txe, NoError, Seen
  <2>8. SettledInv'
    BY <1>1, <2>1, <2>2, <2>6, <2>7 DEF ErrorInv, SettledInv
  <2> QED
    BY <2>3, <2>4, <2>5, <2>8 DEF ErrorInv
<1>6. CASE ~send_start(Options)
  <2>1. frame # 1 /\ ops[frame - 1].kind = Current.kind
    BY <1>1, <1>6, Groups
  <2>2. Past
    BY <1>1, <2>1, ErrorTypes, I2cAssumption DEF Past
  <2>3. /\ mode = "blocking" => ~shift /\ NoError
        /\ Current.kind = "read" => phase # "tx" /\ NoError
        /\ dma = 0
    BY <1>1, <2>1, <2>2 DEF ErrorInv, OwnInv, BusInv
  <2>4. Goto("body") /\ \A b \in ErrorBits : reg'[b] <=> reg[b]
    BY <1>1, <1>3, <1>6
  <2> QED
    BY <1>1, <2>2, <2>3, <2>4, GotoErrors
<1> QED
  BY <1>5, <1>6

LEMMA AddressErrors ==
  ASSUME Inv, ErrorInv, start_generated \/ address_acknowledged
  PROVE  ErrorInv'
<1>0. reg \in [Bits -> BOOLEAN] /\ Registers
  BY BusTypes
<1>1. CASE start_generated /\ (reg.start \/ ~reg.msl)
  <2>1. pc = "sb" /\ NoError /\ reg.sb /\ Return("arbitration", reg)
    BY <1>1, FailingFacts DEF start_generated, Reaches, Awaited
  <2>2. phase = "started" /\ reg.start /\ ~shift /\ ~settled
    BY <1>1, <2>1 DEF ErrorInv, BusInv, SettledInv
  <2> QED
    BY <1>0, <2>1, <2>2, ReturnErrors DEF NoError, AddressPhases
<1>2. CASE start_generated /\ ~(reg.start \/ ~reg.msl)
  <2>1. /\ pc = "sb" /\ NoError /\ reg.sb /\ ~reg.start
        /\ reg' = Clear({"sb"}) /\ phase' \in AddressPhases /\ pc' = "addr"
        /\ UNCHANGED <<shift, dma, wire, mode, ops, settled, frame, result>>
    BY <1>2, FailingFacts DEF start_generated, Reaches, Awaited, Goto, callVars, AddressPhases
  <2>2. ~reg'.start /\ ~reg'.sb /\ ~reg'.af /\ ~reg'.arlo
    BY <1>0, <2>1, ClearBits DEF Bits, NoError
  <2>3. ~shift /\ dma = 0
    BY <2>1 DEF ErrorInv, BusInv
  <2>4. BusInv' /\ OwnInv' /\ EndInv' /\ SettledInv'
    BY <2>1, <2>2, <2>3 DEF BusInv, OwnInv, EndInv, SettledInv, NoError, AddressPhases
  <2> QED
    BY <2>4 DEF ErrorInv
<1>3. CASE address_acknowledged
  <2> DEFINE bits == IF mode = "async" /\ Current.kind = "read" /\ SingleByte /\ send_nack(Options)
                     THEN {"ack"} ELSE {}
  <2>1. reg' = Clear({"addr"} \cup bits) /\ bits \subseteq {"ack"}
    BY <1>3 DEF address_acknowledged
  <2> HIDE DEF bits
  <2>2. /\ pc = "addr" /\ NoError /\ reg.addr /\ pc' = "body"
        /\ phase' = IF Current.kind = "read" THEN "rx" ELSE "tx"
        /\ UNCHANGED <<shift, dma, wire, mode, ops, settled, frame, result>>
    BY <1>3, FailingFacts DEF address_acknowledged, Reaches, Awaited, Goto, callVars
  <2>3. /\ reg'.start <=> reg.start
        /\ reg'.sb <=> reg.sb
        /\ ~reg'.addr /\ ~reg'.af /\ ~reg'.arlo
    BY <1>0, <2>1, <2>2, ClearBits DEF Bits, NoError
  <2>4. ~shift /\ dma = 0 /\ ~reg.sb /\ ~reg.start
    BY <2>2 DEF ErrorInv, BusInv, OwnInv, Past, AddressPhases
  <2>5. BusInv' /\ OwnInv' /\ EndInv' /\ SettledInv'
    BY <2>2, <2>3, <2>4
       DEF BusInv, OwnInv, EndInv, SettledInv, NoError, AddressPhases, Current
  <2> QED
    BY <2>5 DEF ErrorInv
<1> QED
  BY <1>1, <1>2, <1>3

LEMMA FrameErrors ==
  ASSUME Inv, ErrorInv,
         \/ start_dma \/ dma_complete \/ transfer_finished \/ start_loop
         \/ byte_transferred \/ recv_byte \/ prepare_last \/ recv_last \/ write_stop
  PROVE  ErrorInv'
<1>0. Registers /\ reg \in [Bits -> BOOLEAN] /\ ErrorBits \subseteq Bits \ {"stop", "ack", "dmaen", "rxne"}
  BY BusTypes DEF Bits, ErrorBits
<1>1. CASE start_dma
  <2> DEFINE single == Current.kind = "read" /\ SingleByte
             r == IF single /\ send_nack(Options) /\ ~send_start(Options)
                  THEN Clear({"ack"}) ELSE reg
             stop == r.stop \/ (single /\ send_stop(Options))
  <2>1. /\ pc = "body" /\ mode = "async" /\ Goto("dma") /\ UNCHANGED <<phase, shift>>
        /\ reg' = [r EXCEPT !.stop = stop]
    BY <1>1 DEF start_dma
  <2>2. r \in [Bits -> BOOLEAN] /\ \A b \in ErrorBits : r[b] <=> reg[b]
    BY <1>0, ClearBits
  <2>3. \A b \in ErrorBits : reg'[b] <=> reg[b]
    <3> HIDE DEF r, stop
    <3> QED
      BY <1>0, <2>1, <2>2
  <2> QED
    BY <2>1, <2>3, PastFacts, GotoErrors DEF Flags
<1>2. CASE dma_complete
  <2> DEFINE stop == reg.stop \/ (send_stop(Options) /\ Current.kind = "read" /\ ~SingleByte)
             step == IF send_stop(Options) /\ Current.kind = "write" THEN "end" ELSE "done"
  <2>1. /\ pc = "dma" /\ Goto(step) /\ UNCHANGED <<phase, shift, dma>> /\ dma = 0
        /\ reg' = [reg EXCEPT !.dmaen = FALSE, !.stop = stop]
    BY <1>2, DmaAwaited DEF dma_complete, Reaches
  <2>2. \A b \in ErrorBits : reg'[b] <=> reg[b]
    <3> HIDE DEF stop
    <3> QED
      BY <1>0, <2>1
  <2>3. step = "done" /\ frame = Len(ops) => Current.kind = "read"
    BY <2>1, Groups, CurrentOp
  <2>4. mode = "async"
    BY <2>1 DEF ErrorInv, OwnInv, Past
  <2>5. step \in {"end", "done"}
    OBVIOUS
  <2> HIDE DEF step, stop
  <2> QED
    BY <2>1, <2>2, <2>3, <2>4, <2>5, PastFacts, GotoErrors DEF Flags
<1>3. CASE transfer_finished
  <2>1. /\ pc = "end" /\ Goto("done") /\ UNCHANGED <<phase, shift, dma>>
        /\ reg' = Set({"stop"}) /\ reg.btf /\ NoError
    BY <1>3, FailingFacts DEF transfer_finished, Reaches, Awaited
  <2>2. \A b \in ErrorBits : reg'[b] <=> reg[b]
    BY <1>0, <2>1, SetBits
  <2> QED
    BY <2>1, <2>2, PastFacts, GotoErrors
<1>4. CASE start_loop
  <2>1. /\ pc = "body" /\ mode = "blocking" /\ Goto(LoopPoint(left)) /\ UNCHANGED <<reg, phase, shift, dma>>
    BY <1>4 DEF start_loop
  <2>2. LoopPoint(left) \in {"stop", "txe", "last", "rxne"}
    BY DEF LoopPoint
  <2> QED
    BY <2>1, <2>2, PastFacts, GotoErrors DEF Flags
<1>5. CASE byte_transferred
  <2>1. /\ pc = "btf" /\ reg.btf /\ NoError /\ Goto(LoopPoint(left')) /\ UNCHANGED <<reg, phase, shift, dma>>
    BY <1>5, FailingFacts DEF byte_transferred, Reaches, Awaited
  <2>2. LoopPoint(left') \in {"stop", "txe", "last", "rxne"}
    BY DEF LoopPoint
  <2> QED
    BY <2>1, <2>2, PastFacts, GotoErrors DEF Flags
<1>6. CASE recv_byte
  <2>1. /\ pc = "rxne" /\ NoError /\ Goto(LoopPoint(left')) /\ UNCHANGED <<phase, shift, dma>>
        /\ reg' = Clear({"rxne"})
    BY <1>6, FailingFacts DEF recv_byte, Reaches
  <2>2. LoopPoint(left') \in {"stop", "txe", "last", "rxne"}
    BY DEF LoopPoint
  <2>3. \A b \in ErrorBits : reg'[b] <=> reg[b]
    BY <1>0, <2>1, ClearBits
  <2> QED
    BY <2>1, <2>2, <2>3, PastFacts, GotoErrors DEF Flags
<1>7. CASE prepare_last
  <2> DEFINE ack == reg.ack /\ ~send_nack(Options)
             stop == reg.stop \/ send_stop(Options)
  <2>1. /\ pc = "last" /\ Goto("rxlast") /\ UNCHANGED <<phase, shift, dma>>
        /\ reg' = [reg EXCEPT !.ack = ack, !.stop = stop]
    BY <1>7 DEF prepare_last
  <2>2. \A b \in ErrorBits : reg'[b] <=> reg[b]
    <3> HIDE DEF ack, stop
    <3> QED
      BY <1>0, <2>1
  <2> QED
    BY <2>1, <2>2, PastFacts, GotoErrors DEF Flags
<1>8. CASE recv_last
  <2>1. /\ pc = "rxlast" /\ NoError /\ Goto("done") /\ UNCHANGED <<phase, shift, dma>>
        /\ reg' = Clear({"rxne"})
    BY <1>8, FailingFacts DEF recv_last, Reaches
  <2>2. \A b \in ErrorBits : reg'[b] <=> reg[b]
    BY <1>0, <2>1, ClearBits
  <2>3. mode = "blocking"
    BY <2>1 DEF Inv, Waits, BlockingOnly
  <2> QED
    BY <2>1, <2>2, <2>3, PastFacts, GotoErrors
<1>9. CASE write_stop
  <2> DEFINE stop == reg.stop \/ send_stop(Options)
  <2>1. /\ pc = "stop" /\ Goto("done") /\ UNCHANGED <<phase, shift, dma>>
        /\ reg' = [reg EXCEPT !.stop = stop]
    BY <1>9 DEF write_stop
  <2>2. \A b \in ErrorBits : reg'[b] <=> reg[b]
    <3> HIDE DEF stop
    <3> QED
      BY <1>0, <2>1
  <2>3. mode = "blocking"
    BY <2>1 DEF Inv, Waits, BlockingOnly
  <2> QED
    BY <2>1, <2>2, <2>3, PastFacts, GotoErrors
<1> QED
  BY <1>1, <1>2, <1>3, <1>4, <1>5, <1>6, <1>7, <1>8, <1>9

LEMMA SendErrors == ASSUME Inv, ErrorInv, send_byte PROVE ErrorInv'
<1>1. /\ pc = "txe" /\ phase = "tx" /\ NoError /\ phase' = "tx" /\ shift' = TRUE /\ pc' = "btf"
      /\ reg' = [reg EXCEPT !.dr = shift, !.btf = FALSE]
      /\ UNCHANGED <<dma, wire, mode, ops, settled, frame, result>>
  BY FailingFacts DEF send_byte, Reaches, Awaited, Txe, Goto, callVars
<1>2. /\ reg'.start <=> reg.start
      /\ reg'.sb <=> reg.sb
      /\ reg'.addr <=> reg.addr
      /\ reg'.af <=> reg.af
      /\ reg'.arlo <=> reg.arlo
      /\ reg'.msl <=> reg.msl
      /\ ~reg'.btf
  BY <1>1, BusTypes DEF Bits
<1>3. ~reg.start /\ dma = 0 /\ Current.kind = "write" /\ Current' = Current
  BY <1>1, PastFacts DEF Inv, Place, Current
<1>4. BusInv'
  BY <1>1, <1>2, <1>3 DEF ErrorInv, BusInv, NoError
<1>5. OwnInv' /\ EndInv' /\ SettledInv'
  BY <1>1, <1>2, <1>3 DEF OwnInv, EndInv, SettledInv, NoError, AddressPhases
<1> QED
  BY <1>4, <1>5 DEF ErrorInv

LEMMA NextFrameErrors == ASSUME Inv, ErrorInv, end_frame PROVE ErrorInv'
<1>0. reg \in [Bits -> BOOLEAN] /\ pc = "done"
  BY BusTypes DEF end_frame
<1>1. CASE frame = Len(ops)
  <2>1. Return("ok", reg)
    BY <1>1 DEF end_frame
  <2>2. ~shift /\ NoError /\ phase \notin AddressPhases
    BY <1>0, <1>1 DEF ErrorInv, OwnInv, Past
  <2> QED
    BY <1>0, <2>1, <2>2, ReturnErrors DEF NoError
<1>2. CASE frame # Len(ops)
  <2>1. /\ UNCHANGED <<phase, shift, wire, dma, mode, ops, settled, result>>
        /\ reg' = on_drop(reg) /\ pc' = "frame" /\ frame' = frame + 1
    BY <1>2 DEF end_frame, busVars, callVars
  <2>2. /\ reg'.start <=> reg.start
        /\ reg'.sb <=> reg.sb
        /\ reg'.addr <=> reg.addr
        /\ reg'.btf <=> reg.btf
        /\ reg'.af <=> reg.af
        /\ reg'.arlo <=> reg.arlo
        /\ reg'.msl <=> reg.msl
    BY <1>0, <2>1 DEF on_drop, Bits
  <2>3. frame \in Nat \ {0} /\ frame' # 1 /\ frame' - 1 = frame /\ ops'[frame' - 1] = Current
    BY <2>1, ErrorTypes, I2cAssumption DEF Current
  <2>4. /\ Past /\ ~reg.start /\ phase # "started" /\ phase \notin AddressPhases /\ dma = 0
        /\ mode = "blocking" => ~shift /\ NoError
        /\ Current.kind = "read" => phase # "tx" /\ NoError
    BY <1>0, PastFacts
  <2>5. BusInv'
    BY <2>1, <2>2, <2>4 DEF ErrorInv, BusInv, NoError
  <2>6. OwnInv'
    BY <2>1, <2>2, <2>3, <2>4 DEF OwnInv, NoError
  <2>7. EndInv' /\ SettledInv'
    BY <1>0, <2>1, <2>2, <2>3 DEF ErrorInv, EndInv, SettledInv, Seen
  <2> QED
    BY <2>5, <2>6, <2>7 DEF ErrorInv
<1> QED
  BY <1>1, <1>2

\* A transaction begins on a settled bus or is excepted.
LEMMA TransactionErrors ==
  ASSUME Inv, ErrorInv, NEW s \in SeqOf(Op, MaxOps) \ {<<>>}, NEW m \in {"blocking", "async"},
         transaction(s, m)
  PROVE  ErrorInv'
<1>1. /\ UNCHANGED <<reg, phase, shift, wire, dma>> /\ frame' = 1 /\ settled' = Settled /\ pc = "idle"
      /\ pc' \in {"idle", "frame"} /\ result' \in {"overrun", "none"}
  BY DEF transaction, busVars
<1>2. BusInv' /\ EndInv'
  BY <1>1 DEF ErrorInv, BusInv, EndInv, NoError
<1>3. OwnInv'
  BY <1>1 DEF OwnInv, Past
<1>4. ASSUME Settled PROVE Calm /\ NoError /\ ~reg.start
  <2>1. Calm /\ ~reg.start /\ (NoError \/ result \in {"ok", "nack", "arbitration"})
    BY <1>4 DEF Settled, Calm, NoError
  <2> QED
    BY <1>1, <2>1 DEF ErrorInv, EndInv
<1>5. SettledInv'
  BY <1>1, <1>4 DEF SettledInv, Calm, Txe, NoError
<1> QED
  BY <1>2, <1>3, <1>5 DEF ErrorInv

LEMMA ErrorInvInit == Init => ErrorInv
<1> SUFFICES ASSUME Init PROVE ErrorInv
  OBVIOUS
<1>1. ~reg.start /\ ~reg.sb /\ ~reg.addr /\ ~reg.af /\ ~reg.arlo
  BY DEF Init
<1> QED
  BY <1>1 DEF Init, ErrorInv, BusInv, OwnInv, Past, EndInv, SettledInv, NoError, AddressPhases

LEMMA ErrorInvStep == Inv /\ ErrorInv /\ [Next]_vars => ErrorInv'
<1> SUFFICES ASSUME Inv, ErrorInv, Next PROVE ErrorInv'
  BY ErrorsStutter
<1>1. CASE Controller \/ OtherMaster(TRUE) \/ OtherMaster(FALSE) \/ on_interrupt
  BY <1>1, StartErrors, WireSteps, DmaErrors, ErrorsStutter DEF Controller
<1>2. CASE Driver \/ timeout \/ cancel
  BY <1>2, EndErrors, ErrorsStutter, BeginErrors, AddressErrors, FrameErrors, SendErrors,
     NextFrameErrors DEF Driver
<1> QED
  BY <1>1, <1>2, TransactionErrors DEF Next

-------------------------------------------------------------------------------
(* Concatenating a sequence of sequences.                                  *)

\* f holds the concatenations of the first sequences of s.
Concatenates(f, s, n) == f = [i \in 1 .. n |-> IF i = 1 THEN s[i] ELSE f[i - 1] \o s[i]]

\* A set of naturals has a least element, so that what the next number inherits holds of all.
LEMMA Least ==
  ASSUME NEW T \in SUBSET Nat, T # {}
  PROVE  \E n \in T : \A m \in T : n <= m
<1>1. PICK x \in T : \A y \in T : ~ (<<y, x>> \in OpToRel(<, Nat))
  BY NatLessThanWellFounded, WFMin
<1>2. ASSUME NEW y \in T PROVE x <= y
  <2>1. y < x => <<y, x>> \in OpToRel(<, Nat)
    BY DEF OpToRel
  <2>2. ~ (y < x)
    BY <1>1, <2>1
  <2> QED
    BY <2>2
<1> QED
  BY <1>2

LEMMA ConcatenationExists ==
  ASSUME NEW s, NEW n \in Nat
  PROVE  \E f : Concatenates(f, s, n)
<1> DEFINE T == {k \in Nat : ~ \E f : Concatenates(f, s, k)}
<1>1. SUFFICES ASSUME T # {} PROVE FALSE
  OBVIOUS
<1>2. PICK k \in T : \A m \in T : k <= m
  BY <1>1, Least
<1>3. k \in Nat /\ ~ \E f : Concatenates(f, s, k)
  OBVIOUS
<1>4. CASE k = 0
  <2> DEFINE f == [i \in 1 .. 0 |-> 0]
  <2>1. f = [i \in 1 .. 0 |-> IF i = 1 THEN s[i] ELSE f[i - 1] \o s[i]]
    OBVIOUS
  <2> QED
    BY <1>3, <1>4, <2>1 DEF Concatenates
<1>5. CASE k # 0
  <2>1. k - 1 \in Nat /\ k - 1 \notin T
    BY <1>2, <1>3, <1>5
  <2>2. PICK f : Concatenates(f, s, k - 1)
    BY <2>1
  <2> DEFINE e == IF k = 1 THEN s[k] ELSE f[k - 1] \o s[k]
             g == [i \in 1 .. k |-> IF i = k THEN e ELSE f[i]]
  <2>3. ASSUME NEW i \in 1 .. k PROVE g[i] = IF i = 1 THEN s[i] ELSE g[i - 1] \o s[i]
    <3>1. CASE i = k
      BY <3>1, <1>3
    <3>2. CASE i # k
      <4>1. i \in 1 .. k - 1
        BY <3>2, <1>3
      <4>2. f[i] = IF i = 1 THEN s[i] ELSE f[i - 1] \o s[i]
        BY <2>2, <4>1 DEF Concatenates
      <4>3. g[i] = f[i] /\ (i # 1 => g[i - 1] = f[i - 1])
        BY <3>2, <4>1, <1>3
      <4> QED
        BY <4>2, <4>3
    <3> QED
      BY <3>1, <3>2
  <2>4. g = [i \in 1 .. k |-> g[i]]
    OBVIOUS
  <2> HIDE DEF g
  <2>5. g = [i \in 1 .. k |-> IF i = 1 THEN s[i] ELSE g[i - 1] \o s[i]]
    BY <2>3, <2>4
  <2> QED
    BY <1>3, <2>5 DEF Concatenates
<1> QED
  BY <1>4, <1>5

LEMMA ConcatenationUnique ==
  ASSUME NEW s, NEW t, NEW n, NEW m, n \in Nat, m \in Nat, n <= m,
         \A i \in 1 .. n : s[i] = t[i],
         NEW f, Concatenates(f, s, n), NEW g, Concatenates(g, t, m)
  PROVE  \A i \in 1 .. n : f[i] = g[i]
<1> DEFINE T == {i \in 1 .. n : f[i] # g[i]}
<1>1. SUFFICES ASSUME T # {} PROVE FALSE
  OBVIOUS
<1>2. T \in SUBSET Nat
  OBVIOUS
<1>3. PICK k \in T : \A i \in T : k <= i
  BY <1>1, <1>2, Least
<1>4. k \in 1 .. n /\ f[k] # g[k] /\ (k # 1 => k - 1 \in 1 .. n /\ k - 1 \notin T)
  BY <1>3
<1>5. k # 1 => f[k - 1] = g[k - 1]
  BY <1>4
<1>6. f[k] = IF k = 1 THEN s[k] ELSE f[k - 1] \o s[k]
  BY <1>4 DEF Concatenates
<1>7. k \in 1 .. m /\ s[k] = t[k]
  BY <1>4
<1>8. g[k] = IF k = 1 THEN t[k] ELSE g[k - 1] \o t[k]
  BY <1>7 DEF Concatenates
<1> QED
  BY <1>4, <1>5, <1>6, <1>7, <1>8

LEMMA FlattenIs ==
  ASSUME NEW s, Len(s) \in Nat \ {0}
  PROVE  \E f : Concatenates(f, s, Len(s)) /\ FlattenSeq(s) = f[Len(s)]
<1> DEFINE f == CHOOSE f : f = [i \in 1 .. Len(s) |-> IF i = 1 THEN s[i] ELSE f[i - 1] \o s[i]]
<1>1. \E g : g = [i \in 1 .. Len(s) |-> IF i = 1 THEN s[i] ELSE g[i - 1] \o s[i]]
  BY ConcatenationExists DEF Concatenates
<1>2. f = [i \in 1 .. Len(s) |-> IF i = 1 THEN s[i] ELSE f[i - 1] \o s[i]]
  BY <1>1, Zenon
<1>3. FlattenSeq(s) = f[Len(s)]
  BY DEF FlattenSeq
<1> QED
  BY <1>2, <1>3 DEF Concatenates


\* The first sequences of two agree, and so do their concatenations.
LEMMA FlattenGrows ==
  ASSUME NEW t, NEW s, Len(t) \in Nat, Len(s) = Len(t) + 1,
         \A i \in 1 .. Len(t) : t[i] = s[i]
  PROVE  FlattenSeq(s) = IF Len(t) = 0 THEN s[1] ELSE FlattenSeq(t) \o s[Len(s)]
<1>1. PICK g : Concatenates(g, s, Len(s)) /\ FlattenSeq(s) = g[Len(s)]
  BY FlattenIs
<1>2. Len(s) \in 1 .. Len(s) /\ (Len(s) = 1 <=> Len(t) = 0) /\ Len(s) - 1 = Len(t)
  OBVIOUS
<1>3. g[Len(s)] = IF Len(s) = 1 THEN s[Len(s)] ELSE g[Len(s) - 1] \o s[Len(s)]
  BY <1>1, <1>2 DEF Concatenates
<1>4. CASE Len(t) = 0
  BY <1>1, <1>2, <1>3, <1>4
<1>5. CASE Len(t) # 0
  <2>1. PICK f : Concatenates(f, t, Len(t)) /\ FlattenSeq(t) = f[Len(t)]
    BY <1>5, FlattenIs
  <2>2. Len(t) \in 1 .. Len(t) /\ Len(s) \in Nat /\ Len(t) <= Len(s)
    BY <1>5
  <2>3. \A i \in 1 .. Len(t) : f[i] = g[i]
    <3>1. Concatenates(f, t, Len(t)) /\ Concatenates(g, s, Len(s))
      BY <1>1, <2>1
    <3> QED
      BY <2>2, <3>1, ConcatenationUnique
  <2>4. f[Len(t)] = g[Len(t)]
    BY <2>2, <2>3
  <2> QED
    BY <1>1, <1>2, <1>3, <1>5, <2>1, <2>4
<1> QED
  BY <1>4, <1>5

LEMMA FlattenEmpty ==
  FlattenSeq(<<>>) = <<>>
BY DEF FlattenSeq

-------------------------------------------------------------------------------
(* The wire: what each place of a frame has put there.                     *)

First == frame = 1 \/ ops[frame - 1].kind # Current.kind
Final == frame = Len(ops) \/ ops[frame + 1].kind # Current.kind
Reads == Current.kind = "read"

\* What the contract asks for before a frame, and within it up to a number of bytes.
Before(f) == FlattenSeq([i \in 1 .. f - 1 |-> Part(ops, i)])
Address == IF Reads THEN "addr_r" ELSE "addr_w"
Heading == IF First THEN <<"S", Address>> ELSE <<>>
ByteOf(k) == IF ~Reads THEN "W" ELSE IF Final /\ k = Current.n THEN "N" ELSE "A"
Upto(k) == Before(frame) \o (Heading \o [j \in 1 .. k |-> ByteOf(j)])

\* The wire once the byte in the shift register and the one in DR are sent.
Flowing ==
  IF phase = "tx" /\ shift
  THEN IF reg.dr THEN Append(Append(wire, "W"), "W") ELSE Append(wire, "W")
  ELSE wire

Conforms(w) == Flowing = IF phase = "off" THEN Append(w, "P") ELSE w

Rx == IF reg.rxne THEN 1 ELSE 0
Quietly == ~reg.stop /\ ~reg.rxne

\* How bytes will be answered, as the frame is begun.
Prepared ==
  Reads /\ mode = "async" => reg.dmaen /\ (reg.last <=> Final /\ ~SingleByte)

\* Between two frames.
Between ==
  /\ Quietly /\ Flowing = Before(frame)
  /\ phase = IF ops[frame - 1].kind = "write" THEN "tx" ELSE IF Reads THEN "rx" ELSE "hold"
  /\ phase = "rx" => reg.ack

\* After k bytes of a read: the last of a group has ended it.
Received(k) ==
  /\ Conforms(Upto(k))
  /\ IF Final /\ k = Current.n
     THEN phase = "hold" \/ (phase = "off" /\ frame = Len(ops))
     ELSE phase = "rx"

\* The STOP is requested, or on the wire, at the end of the transaction only.
Stops(last) == (reg.stop => last) /\ (last => reg.stop \/ phase = "off")

Sent(k) == Quietly /\ phase = "tx" /\ Flowing = Upto(k)

\* The operation and the count that belong to a place.
PlaceInv ==
  /\ pc \in {"last", "rxlast"} => Reads
  /\ pc \in {"stop", "end"} => ~Reads
  /\ pc = "end" => frame = Len(ops)
  /\ pc \in {"sb", "addr"} => First
  /\ pc \in {"txe", "btf", "rxne"} => left <= Current.n
  /\ pc = "dma" => dma <= Current.n

\* Up to the address: the START and the address follow what came before.
StartInv ==
  /\ pc = "frame" => IF frame = 1 THEN ~reg.rxne ELSE Between
  /\ pc = "sb" =>
       /\ Prepared /\ (Reads => reg.ack) /\ ~reg.rxne
       /\ IF ~reg.start THEN phase = "started" /\ Quietly /\ Flowing = Append(Before(frame), "S")
          ELSE frame = 1 \/ Between
  /\ pc = "addr" =>
       /\ Prepared /\ (Reads => reg.ack) /\ Quietly /\ phase = Address
       /\ Flowing = IF reg.addr THEN Upto(0) ELSE Append(Before(frame), "S")

\* Every byte handed to the controller is one more on the wire.
WriteInv ==
  ~Reads =>
    /\ pc = "body" => Sent(0)
    /\ pc = "txe" => Sent(Current.n - left)
    /\ pc = "btf" => Sent(Current.n - left + 1)
    /\ pc \in {"stop", "end"} => Sent(Current.n)
    /\ pc = "dma" => Sent(Current.n - dma)
    /\ pc = "done" => /\ ~reg.rxne /\ Stops(frame = Len(ops)) /\ Conforms(Upto(Current.n))
                      /\ phase = "tx" \/ (phase = "off" /\ frame = Len(ops))

\* A byte is on the wire once it is received, taken from DR or not; and how the next
\* one will be answered is programmed before it comes.
ReadInv ==
  Reads =>
    /\ pc = "body" => /\ Prepared /\ Quietly /\ phase = "rx" /\ Flowing = Upto(0)
                      /\ reg.ack <=> ~(mode = "async" /\ SingleByte /\ Final /\ First)
    /\ pc = "rxne" => ~reg.stop /\ reg.ack /\ Received(Current.n - left + Rx)
    /\ pc = "last" => Quietly /\ reg.ack /\ phase = "rx" /\ Flowing = Upto(Current.n - 1)
    /\ pc = "rxlast" => /\ Stops(frame = Len(ops)) /\ (reg.ack <=> ~Final)
                        /\ Received(Current.n - 1 + Rx)
    /\ pc = "dma" => /\ Prepared /\ Stops(frame = Len(ops) /\ SingleByte)
                     /\ reg.ack <=> ~(SingleByte /\ Final)
                     /\ reg.rxne => dma # 0
                     /\ Received(Current.n - dma + Rx)
    /\ pc = "done" => /\ ~reg.rxne /\ Stops(frame = Len(ops)) /\ (~Final => reg.ack)
                      /\ Received(Current.n)

\* A successful transaction has all of it on the wire but the STOP.
OkInv ==
  pc = "idle" /\ result = "ok" =>
    Conforms(Before(Len(ops) + 1)) /\ phase \in {"tx", "hold", "off"} /\ ~reg.start

\* An error ends the transaction: nothing is claimed of the wire from there on.
LinkInv ==
  settled =>
    /\ pc # "idle" /\ NoError => StartInv /\ WriteInv /\ ReadInv
    /\ OkInv

-------------------------------------------------------------------------------
(* The algebra of what the contract asks for. *)

LEMMA SeqParts ==
  ASSUME NEW S, NEW a \in Seq(S), NEW b \in Seq(S), NEW x \in S
  PROVE  /\ a \o Append(b, x) = Append(a \o b, x)
         /\ a \o <<>> = a /\ <<>> \o a = a
         /\ a \o <<x>> = Append(a, x)
         /\ a \o b \in Seq(S)
  OBVIOUS

LEMMA PartTypes ==
  ASSUME ops \in Seq(Op), NEW i \in 1 .. Len(ops)
  PROVE  Part(ops, i) \in Seq(Symbols)
<1>0. ops[i] \in Op
  OBVIOUS
<1>1. ops[i].n \in Nat
  BY <1>0, I2cAssumption DEF Op
<1> DEFINE final == i = Len(ops) \/ ops[i + 1].kind # ops[i].kind
           byte(k) == IF ops[i].kind = "write" THEN "W"
                      ELSE IF final /\ k = ops[i].n THEN "N" ELSE "A"
           tail == [k \in 1 .. ops[i].n |-> byte(k)]
           first == i = 1 \/ ops[i - 1].kind # ops[i].kind
           address == IF ops[i].kind = "write" THEN "addr_w" ELSE "addr_r"
           head == IF first THEN <<"S", address>> ELSE <<>>
<1>2. \A k : byte(k) \in Symbols
  BY DEF Symbols
<1>3. address \in Symbols /\ "S" \in Symbols
  BY DEF Symbols
<1>4. Part(ops, i) = head \o tail
  BY DEF Part
<1> HIDE DEF byte, address, first
<1>5. tail \in Seq(Symbols)
  BY <1>1, <1>2
<1>6. head \in Seq(Symbols)
  BY <1>3
<1> HIDE DEF head, tail
<1> QED
  BY <1>4, <1>5, <1>6, SeqParts

LEMMA BeforeGrows ==
  ASSUME ops \in Seq(Op), NEW f \in 1 .. Len(ops)
  PROVE  Before(f + 1) = IF f = 1 THEN Part(ops, 1) ELSE Before(f) \o Part(ops, f)
<1> DEFINE t == [i \in 1 .. f - 1 |-> Part(ops, i)]
           s == [i \in 1 .. f |-> Part(ops, i)]
<1>1. f \in Nat \ {0} /\ f + 1 - 1 = f
  OBVIOUS
<1>2. Len(t) = f - 1
  BY <1>1
<1>3. Len(s) = f
  BY <1>1
<1>4. \A i \in 1 .. f - 1 : t[i] = s[i]
  BY <1>1
<1>5. s[1] = Part(ops, 1) /\ s[f] = Part(ops, f)
  BY <1>1
<1>6. Before(f) = FlattenSeq(t) /\ Before(f + 1) = FlattenSeq(s)
  BY <1>1 DEF Before
<1> HIDE DEF s, t
<1>7. Len(t) \in Nat /\ Len(s) = Len(t) + 1 /\ (Len(t) = 0 <=> f = 1)
  BY <1>1, <1>2, <1>3
<1>8. FlattenSeq(s) = IF Len(t) = 0 THEN s[1] ELSE FlattenSeq(t) \o s[Len(s)]
  BY <1>2, <1>4, <1>7, FlattenGrows
<1> QED
  BY <1>3, <1>5, <1>6, <1>7, <1>8

LEMMA BeforeNothing == Before(1) = <<>>
<1>1. [i \in 1 .. 1 - 1 |-> Part(ops, i)] = <<>>
  OBVIOUS
<1> QED
  BY <1>1, FlattenEmpty DEF Before

LEMMA BeforeTypes ==
  ASSUME ops \in Seq(Op)
  PROVE  \A f \in 1 .. Len(ops) + 1 : Before(f) \in Seq(Symbols)
<1>1. Len(ops) \in Nat
  OBVIOUS
<1> DEFINE T == {f \in 1 .. Len(ops) + 1 : Before(f) \notin Seq(Symbols)}
<1>2. SUFFICES ASSUME T # {} PROVE FALSE
  OBVIOUS
<1>3. T \in SUBSET Nat
  BY <1>1
<1>4. PICK f \in T : \A g \in T : f <= g
  BY <1>2, <1>3, Least
<1>5. f \in 1 .. Len(ops) + 1 /\ Before(f) \notin Seq(Symbols)
  OBVIOUS
<1>6. f # 1
  <2>1. <<>> \in Seq(Symbols)
    OBVIOUS
  <2> QED
    BY <1>5, <2>1, BeforeNothing, Zenon
<1>7. f - 1 \in 1 .. Len(ops) /\ f - 1 \in 1 .. Len(ops) + 1 /\ ~ (f <= f - 1)
  BY <1>1, <1>5, <1>6
<1>8. Before(f - 1) \in Seq(Symbols)
  BY <1>4, <1>7
<1>9. Part(ops, f - 1) \in Seq(Symbols)
  BY <1>7, PartTypes
<1>10. f - 1 + 1 = f
  BY <1>5
<1>11. Before(f) = IF f - 1 = 1 THEN Part(ops, 1) ELSE Before(f - 1) \o Part(ops, f - 1)
  BY <1>7, <1>10, BeforeGrows
<1>12. CASE f - 1 = 1
  BY <1>5, <1>9, <1>11, <1>12
<1>13. CASE f - 1 # 1
  <2>1. Before(f) = Before(f - 1) \o Part(ops, f - 1)
    BY <1>11, <1>13
  <2>2. Before(f - 1) \o Part(ops, f - 1) \in Seq(Symbols)
    BY <1>8, <1>9
  <2> QED
    BY <1>5, <2>1, <2>2
<1> QED
  BY <1>12, <1>13

LEMMA PartIs ==
  ASSUME ops \in Seq(Op), frame \in 1 .. Len(ops)
  PROVE  /\ Part(ops, frame) = Heading \o [k \in 1 .. Current.n |-> ByteOf(k)]
         /\ Heading \in Seq(Symbols)
         /\ \A k \in Nat : [j \in 1 .. k |-> ByteOf(j)] \in Seq(Symbols)
         /\ \A k : ByteOf(k) \in Symbols
<1>1. Current \in Op
  BY DEF Current
<1>2. Current.kind \in {"read", "write"} /\ Current.n \in Nat
  BY <1>1, I2cAssumption DEF Op
<1>3. \A k : ByteOf(k) \in Symbols
  BY DEF ByteOf, Symbols
<1>4. Address \in Symbols /\ "S" \in Symbols
  BY DEF Address, Symbols
<1>5. Heading \in Seq(Symbols)
  BY <1>4 DEF Heading
<1>6. Current.kind = "write" <=> ~Reads
  BY <1>2 DEF Reads
<1>7. (IF Current.kind = "write" THEN "addr_w" ELSE "addr_r") = Address
  BY <1>6 DEF Address
<1>8. \A k : (IF Current.kind = "write" THEN "W"
              ELSE IF Final /\ k = Current.n THEN "N" ELSE "A") = ByteOf(k)
  BY <1>6 DEF ByteOf
<1>9. Part(ops, frame) = Heading \o [k \in 1 .. Current.n |-> ByteOf(k)]
  <2>1. Part(ops, frame) =
          (IF First THEN <<"S", IF Current.kind = "write" THEN "addr_w" ELSE "addr_r">>
           ELSE <<>>)
          \o [k \in 1 .. Current.n |->
                IF Current.kind = "write" THEN "W"
                ELSE IF Final /\ k = Current.n THEN "N" ELSE "A"]
    BY DEF Part, First, Final, Current
  <2>2. [k \in 1 .. Current.n |->
           IF Current.kind = "write" THEN "W"
           ELSE IF Final /\ k = Current.n THEN "N" ELSE "A"]
        = [k \in 1 .. Current.n |-> ByteOf(k)]
    BY <1>8, Zenon
  <2> QED
    BY <1>7, <2>1, <2>2 DEF Heading
<1>10. \A k \in Nat : [j \in 1 .. k |-> ByteOf(j)] \in Seq(Symbols)
  BY <1>3
<1> QED
  BY <1>3, <1>5, <1>9, <1>10

\* One byte after another.
LEMMA UptoGrows ==
  ASSUME ops \in Seq(Op), frame \in 1 .. Len(ops), NEW k \in Nat
  PROVE  Upto(k + 1) = Append(Upto(k), ByteOf(k + 1))
<1> DEFINE a == [j \in 1 .. k |-> ByteOf(j)]
           b == [j \in 1 .. k + 1 |-> ByteOf(j)]
<1>1. a \in Seq(Symbols) /\ b \in Seq(Symbols) /\ ByteOf(k + 1) \in Symbols /\ Heading \in Seq(Symbols)
  BY PartIs
<1>2. b = Append(a, ByteOf(k + 1))
  OBVIOUS
<1>3. frame \in 1 .. Len(ops) + 1
  OBVIOUS
<1>4. Before(frame) \in Seq(Symbols)
  BY <1>3, BeforeTypes
<1>5. Upto(k) = Before(frame) \o (Heading \o a) /\ Upto(k + 1) = Before(frame) \o (Heading \o b)
  BY DEF Upto
<1> HIDE DEF a, b
<1>6. Heading \o b = Append(Heading \o a, ByteOf(k + 1)) /\ Heading \o a \in Seq(Symbols)
  BY <1>1, <1>2, SeqParts
<1>7. Before(frame) \o Append(Heading \o a, ByteOf(k + 1))
      = Append(Before(frame) \o (Heading \o a), ByteOf(k + 1))
  <2> DEFINE c == Heading \o a
             x == ByteOf(k + 1)
  <2>1. c \in Seq(Symbols) /\ x \in Symbols
    BY <1>1, <1>6
  <2> HIDE DEF c, x
  <2>2. Before(frame) \o Append(c, x) = Append(Before(frame) \o c, x)
    BY <1>4, <2>1, SeqParts
  <2> QED
    BY <2>2 DEF c, x
<1> QED
  BY <1>5, <1>6, <1>7

\* The end of a frame is where the next one begins.
LEMMA UptoAll ==
  ASSUME ops \in Seq(Op), frame \in 1 .. Len(ops)
  PROVE  Before(frame + 1) = Upto(Current.n)
<1>1. Before(frame + 1) = IF frame = 1 THEN Part(ops, 1) ELSE Before(frame) \o Part(ops, frame)
  BY BeforeGrows
<1>2. Upto(Current.n) = Before(frame) \o Part(ops, frame)
  BY PartIs DEF Upto
<1>3. frame = 1 => Part(ops, frame) = <<>> \o Part(ops, frame)
  BY PartTypes, SeqParts
<1> QED
  BY <1>1, <1>2, <1>3, BeforeNothing

\* Where a frame begins.
LEMMA UptoNone ==
  ASSUME ops \in Seq(Op), frame \in 1 .. Len(ops)
  PROVE  /\ ~First => Upto(0) = Before(frame)
         /\ First => Upto(0) = Append(Append(Before(frame), "S"), Address)
<1>1. [j \in 1 .. 0 |-> ByteOf(j)] = <<>>
  OBVIOUS
<1>2. frame \in 1 .. Len(ops) + 1
  OBVIOUS
<1>3. Before(frame) \in Seq(Symbols) /\ Heading \in Seq(Symbols)
  BY <1>2, BeforeTypes, PartIs
<1>4. Heading \o <<>> = Heading
  BY <1>3
<1>5. Upto(0) = Before(frame) \o Heading
  BY <1>1, <1>4 DEF Upto
<1>6. ~First => Before(frame) \o Heading = Before(frame)
  BY <1>3 DEF Heading
<1>7. ASSUME First PROVE Before(frame) \o Heading = Append(Append(Before(frame), "S"), Address)
  <2>1. Address \in Symbols /\ "S" \in Symbols
    BY DEF Address, Symbols
  <2>2. Heading = <<"S", Address>>
    BY <1>7 DEF Heading
  <2>3. <<"S", Address>> = Append(<<"S">>, Address) /\ <<"S">> \in Seq(Symbols)
    BY <2>1
  <2>4. Before(frame) \o Append(<<"S">>, Address) = Append(Before(frame) \o <<"S">>, Address)
    BY <1>3, <2>1, <2>3, SeqParts
  <2>5. Before(frame) \o <<"S">> = Append(Before(frame), "S")
    BY <1>3, <2>1, SeqParts
  <2> QED
    BY <2>2, <2>3, <2>4, <2>5
<1> QED
  BY <1>5, <1>6, <1>7

\* The whole contract.
LEMMA ContractIs ==
  ASSUME ops \in Seq(Op)
  PROVE  Contract(ops) = Append(Before(Len(ops) + 1), "P")
<1>1. Len(ops) \in Nat /\ DOMAIN ops = 1 .. Len(ops) /\ Len(ops) + 1 - 1 = Len(ops)
  OBVIOUS
<1>2. Contract(ops) = Before(Len(ops) + 1) \o <<"P">>
  BY <1>1 DEF Contract, Before
<1>3. Before(Len(ops) + 1) \in Seq(Symbols)
  <2>1. Len(ops) + 1 \in 1 .. Len(ops) + 1
    BY <1>1
  <2> QED
    BY <2>1, BeforeTypes
<1> QED
  BY <1>2, <1>3, SeqParts DEF Symbols

-------------------------------------------------------------------------------
(* Steps within a frame, and steps that change nothing on the way to the wire. *)

\* A read answers its last byte with a NACK at the end of its group.
LEMMA Nacks ==
  ASSUME Inv, pc # "idle", Reads
  PROVE  send_nack(Options) <=> Final
<1>1. ops \in Seq(Op) /\ frame \in 1 .. Len(ops) /\ frame \in DOMAIN ops
  BY CurrentOp DEF Inv, TypeOK
<1> DEFINE first == frame = 1 \/ ops[frame - 1].kind # Current.kind
           next == IF frame = Len(ops) THEN "none" ELSE ops[frame + 1].kind
<1>2. Options = FrameOf(first, next)
  BY <1>1 DEF Options, operation_frames, Current
<1>3. next \in {"none", "read", "write"} /\ (next = "none" <=> frame = Len(ops))
  <2>1. frame # Len(ops) => frame + 1 \in 1 .. Len(ops)
    BY <1>1
  <2>2. frame # Len(ops) => ops[frame + 1] \in Op
    BY <1>1, <2>1
  <2> QED
    BY <2>2 DEF Op
<1>4. Final <=> next # "read"
  BY <1>3 DEF Final, Reads
<1> HIDE DEF first, next
<1>5. /\ FrameOf(TRUE, next) \in {"FirstAndNextFrame", "NextFrame"} <=> next = "read"
      /\ FrameOf(FALSE, next) \in {"FirstAndNextFrame", "NextFrame"} <=> next = "read"
  BY <1>3 DEF FrameOf
<1>6. (first => Options = FrameOf(TRUE, next)) /\ (~first => Options = FrameOf(FALSE, next))
  BY <1>2 DEF FrameOf
<1> QED
  BY <1>4, <1>5, <1>6 DEF send_nack

LEMMA Unmoved ==
  ASSUME UNCHANGED <<ops, frame>>
  PROVE  /\ Current' = Current /\ Address' = Address
         /\ Before(frame)' = Before(frame) /\ \A k : Upto(k)' = Upto(k)
         /\ First' <=> First
         /\ Final' <=> Final
         /\ Reads' <=> Reads
         /\ SingleByte' <=> SingleByte
<1>1. /\ Current' = Current
      /\ First' <=> First
      /\ Final' <=> Final
      /\ Reads' <=> Reads
      /\ SingleByte' <=> SingleByte
  BY DEF Current, First, Final, Reads, SingleByte
<1>2. Address' = Address
  BY <1>1 DEF Address
<1>3. Before(frame)' = Before(frame)
  BY DEF Before
<1>4. \A k : Upto(k)' = Upto(k)
  <2>1. Heading' = Heading
    BY <1>1, <1>2 DEF Heading
  <2>2. \A k : ByteOf(k)' = ByteOf(k)
    BY <1>1 DEF ByteOf
  <2>3. ASSUME NEW k PROVE [j \in 1 .. k |-> ByteOf(j)'] = [j \in 1 .. k |-> ByteOf(j)]
    BY <2>2, Zenon
  <2> QED
    BY <1>3, <2>1, <2>3 DEF Upto
<1> QED
  BY <1>1, <1>2, <1>3, <1>4

\* What a step that keeps the bus and the driver's place needs to keep.
LEMMA RowsStay ==
  ASSUME LinkInv, UNCHANGED <<phase, dma, pc, mode, ops, settled, frame, left, result>>,
         Flowing' = Flowing, NoError' => NoError,
         reg'.start <=> reg.start, reg'.stop <=> reg.stop, reg'.rxne <=> reg.rxne,
         reg'.ack <=> reg.ack, reg'.dmaen <=> reg.dmaen, reg'.last <=> reg.last,
         reg'.addr <=> reg.addr
  PROVE  LinkInv'
<1>1. /\ Current' = Current /\ Address' = Address
      /\ Before(frame)' = Before(frame) /\ \A k : Upto(k)' = Upto(k)
      /\ First' <=> First
      /\ Final' <=> Final
      /\ Reads' <=> Reads
      /\ SingleByte' <=> SingleByte
  BY Unmoved
<1>2. /\ Prepared' <=> Prepared
      /\ Quietly' <=> Quietly
      /\ Rx' = Rx
  BY <1>1 DEF Prepared, Quietly, Rx
<1>3. Between' <=> Between
  BY <1>1, <1>2 DEF Between
<1>4. /\ \A k : Conforms(Upto(k))' <=> Conforms(Upto(k))
      /\ \A k : Received(k)' <=> Received(k)
      /\ \A k : Sent(k)' <=> Sent(k)
      /\ \A l : Stops(l)' <=> Stops(l)
  BY <1>1, <1>2 DEF Conforms, Received, Sent, Stops
<1>5. StartInv' <=> StartInv
  BY <1>1, <1>2, <1>3 DEF StartInv
<1>6. WriteInv' <=> WriteInv
  BY <1>1, <1>4 DEF WriteInv
<1>7. ReadInv' <=> ReadInv
  BY <1>1, <1>2, <1>4 DEF ReadInv
<1>8. OkInv' <=> OkInv
  <2>1. Before(Len(ops) + 1)' = Before(Len(ops) + 1)
    BY DEF Before
  <2> QED
    BY <2>1 DEF OkInv, Conforms
<1> QED
  BY <1>5, <1>6, <1>7, <1>8 DEF LinkInv

LEMMA FlowingStays ==
  ASSUME UNCHANGED <<phase, shift, wire>>, reg'.dr <=> reg.dr
  PROVE  Flowing' = Flowing
  BY DEF Flowing

LinkBits == {"start", "stop", "rxne", "ack", "dmaen", "last", "addr", "dr", "af", "arlo"}

\* The registers stay, as far as they matter here.
LEMMA LinkStays ==
  ASSUME LinkInv, UNCHANGED <<phase, shift, wire, dma, pc, mode, ops, settled, frame, left, result>>,
         \A b \in LinkBits : reg'[b] <=> reg[b]
  PROVE  LinkInv'
<1>1. /\ reg'.start <=> reg.start
      /\ reg'.stop <=> reg.stop
      /\ reg'.rxne <=> reg.rxne
      /\ reg'.ack <=> reg.ack
      /\ reg'.dmaen <=> reg.dmaen
      /\ reg'.last <=> reg.last
      /\ reg'.addr <=> reg.addr
      /\ reg'.dr <=> reg.dr
      /\ reg'.af <=> reg.af
      /\ reg'.arlo <=> reg.arlo
  BY DEF LinkBits
<1>2. Flowing' = Flowing
  BY <1>1, FlowingStays
<1>3. NoError' <=> NoError
  BY <1>1 DEF NoError
<1> QED
  BY <1>1, <1>2, <1>3, RowsStay

LEMMA LinkStutters ==
  ASSUME Inv, LinkInv,
         \/ UNCHANGED vars \/ on_interrupt \/ await_pends \/ enable_interrupts
         \/ OtherMaster(TRUE) \/ OtherMaster(FALSE)
  PROVE  LinkInv'
<1>1. Registers
  BY BusTypes
<1>2. CASE on_interrupt
  <2>1. \A b \in LinkBits : reg'[b] <=> reg[b]
    BY <1>1, <1>2, ClearBits DEF on_interrupt, LinkBits, Bits
  <2> QED
    BY <1>2, <2>1, LinkStays DEF on_interrupt, busVars, callVars
<1>3. CASE enable_interrupts
  <2>1. \A b \in LinkBits : reg'[b] <=> reg[b]
    BY <1>1, <1>3, SetBits DEF enable_interrupts, LinkBits, Bits
  <2> QED
    BY <1>3, <2>1, LinkStays DEF enable_interrupts, busVars, callVars
<1>4. CASE await_pends
  BY <1>4, LinkStays DEF await_pends, busVars, callVars
<1>5. CASE UNCHANGED vars
  BY <1>5, LinkStays DEF vars, busVars, callVars
<1>6. CASE OtherMaster(TRUE) \/ OtherMaster(FALSE)
  BY <1>6, LinkStays DEF OtherMaster, callVars
<1> QED
  BY <1>2, <1>3, <1>4, <1>5, <1>6

-------------------------------------------------------------------------------
(* The bus moves. *)

\* An error ends the transaction's claim to the wire.
LEMMA ErrorEnds ==
  ASSUME LinkInv, ~NoError', UNCHANGED <<pc, result, ops, settled>>, pc = "idle" => result # "ok"
  PROVE  LinkInv'
  BY DEF LinkInv, OkInv

LEMMA ByteLink == ASSUME Inv, ErrorInv, LinkInv, ByteSent PROVE LinkInv'
<1>1. /\ UNCHANGED <<dma, pc, mode, ops, settled, frame, left, result>> /\ phase = "tx" /\ shift
  BY DEF ByteSent, callVars
<1>2. Registers /\ wire \in Seq(Symbols) /\ shift \in BOOLEAN
  BY BusTypes, ErrorTypes
<1>3. CASE /\ wire' = Append(wire, "W") /\ reg' = [reg EXCEPT !.dr = FALSE, !.btf = ~reg.dr]
           /\ shift' = reg.dr /\ phase' = phase
  <2>1. /\ reg'.start <=> reg.start
        /\ reg'.stop <=> reg.stop
        /\ reg'.rxne <=> reg.rxne
        /\ reg'.ack <=> reg.ack
        /\ reg'.dmaen <=> reg.dmaen
        /\ reg'.last <=> reg.last
        /\ reg'.addr <=> reg.addr
        /\ reg'.af <=> reg.af
        /\ reg'.arlo <=> reg.arlo
        /\ ~reg'.dr
    BY <1>2, <1>3 DEF Registers, Bits
  <2>2. Flowing' = Flowing
    BY <1>1, <1>3, <2>1 DEF Flowing
  <2>3. NoError' <=> NoError
    BY <2>1 DEF NoError
  <2> QED
    BY <1>1, <1>3, <2>1, <2>2, <2>3, RowsStay
<1>4. CASE /\ wire' = Append(wire, "X") /\ reg' = Set({"af"}) /\ shift' = FALSE /\ phase' = "hold"
  <2>1. reg'.af
    BY <1>2, <1>4, SetBits DEF Bits
  <2>2. pc = "idle" => result # "ok"
    BY <1>1 DEF ErrorInv, EndInv
  <2> QED
    BY <1>1, <2>1, <2>2, ErrorEnds DEF NoError
<1> QED
  BY <1>3, <1>4 DEF ByteSent

LEMMA AddressLink ==
  ASSUME Inv, ErrorInv, PlaceInv, LinkInv, AddressSent \/ LoseArbitration
  PROVE  LinkInv'
<1>1. /\ UNCHANGED <<shift, dma, pc, mode, ops, settled, frame, left, result>>
      /\ phase \in AddressPhases /\ ~reg.addr
  BY DEF AddressSent, LoseArbitration, callVars, AddressPhases
<1>2. Registers /\ ~shift
  BY <1>1, BusTypes DEF ErrorInv, BusInv, AddressPhases
<1>3. pc = "idle" => result # "ok"
  BY <1>1 DEF ErrorInv, EndInv
<1>4. CASE reg' = Set({"af"})
  <2>1. reg'.af
    BY <1>2, <1>4, SetBits DEF Bits
  <2> QED
    BY <1>1, <1>3, <2>1, ErrorEnds DEF NoError
<1>5. CASE reg' = [reg EXCEPT !.arlo = TRUE, !.msl = FALSE]
  <2>1. reg'.arlo
    BY <1>2, <1>5 DEF Registers, Bits
  <2> QED
    BY <1>1, <1>3, <2>1, ErrorEnds DEF NoError
<1>6. CASE reg' = Set({"addr"}) /\ wire' = Append(wire, phase) /\ phase' = phase
  <2>1. /\ reg'.start <=> reg.start
        /\ reg'.stop <=> reg.stop
        /\ reg'.rxne <=> reg.rxne
        /\ reg'.ack <=> reg.ack
        /\ reg'.dmaen <=> reg.dmaen
        /\ reg'.last <=> reg.last
        /\ reg'.af <=> reg.af
        /\ reg'.arlo <=> reg.arlo
        /\ reg'.addr
    BY <1>2, <1>6, SetBits DEF Bits
  <2>2. NoError' <=> NoError
    BY <2>1 DEF NoError
  <2>3. SUFFICES ASSUME settled, pc # "idle", NoError PROVE StartInv' /\ WriteInv' /\ ReadInv'
    BY <1>1, <1>3, <2>2 DEF LinkInv, OkInv
  <2>4. Past => pc = "addr"
    BY <1>1 DEF ErrorInv, OwnInv
  <2>5. ~(pc \in {"frame", "sb"} /\ frame = 1 /\ (pc = "sb" => reg.start))
    BY <1>1, <2>3 DEF ErrorInv, SettledInv, Calm, Txe, AddressPhases
  <2>6. pc = "sb" => reg.start
    BY <1>1, <2>3 DEF LinkInv, StartInv, AddressPhases
  <2>7. pc = "addr"
    <3>1. frame \in Nat /\ frame # 0
      BY ErrorTypes, I2cAssumption
    <3> QED
      BY <2>3, <2>4, <2>5, <2>6, <3>1 DEF Past
  <2>8. First /\ frame \in 1 .. Len(ops) /\ ops \in Seq(Op)
    BY <2>7, CurrentOp DEF PlaceInv, Inv, TypeOK
  <2>9. Upto(0) = Append(Append(Before(frame), "S"), Address)
    BY <2>8, UptoNone
  <2>10. /\ Prepared /\ (Reads => reg.ack) /\ Quietly /\ phase = Address
         /\ Flowing = Append(Before(frame), "S")
    BY <1>1, <2>3, <2>7 DEF LinkInv, StartInv
  <2>11. Flowing = wire /\ Flowing' = Append(wire, phase)
    BY <1>1, <1>2, <1>6 DEF Flowing
  <2>12. /\ Current' = Current /\ Address' = Address
         /\ Before(frame)' = Before(frame) /\ \A k : Upto(k)' = Upto(k)
         /\ First' <=> First
         /\ Final' <=> Final
         /\ Reads' <=> Reads
         /\ SingleByte' <=> SingleByte
    BY <1>1, Unmoved
  <2>13. (Prepared' <=> Prepared) /\ (Quietly' <=> Quietly)
    BY <1>1, <2>1, <2>12 DEF Prepared, Quietly
  <2>14. StartInv'
    BY <1>1, <1>6, <2>1, <2>7, <2>9, <2>10, <2>11, <2>12, <2>13 DEF StartInv
  <2>15. WriteInv' /\ ReadInv'
    BY <1>1, <2>7 DEF WriteInv, ReadInv
  <2> QED
    BY <2>14, <2>15
<1> QED
  BY <1>4, <1>5, <1>6 DEF AddressSent, LoseArbitration

LEMMA StartLink == ASSUME Inv, ErrorInv, PlaceInv, LinkInv, GenerateStart PROVE LinkInv'
<1>1. /\ UNCHANGED <<shift, dma, pc, mode, ops, settled, frame, left, result>>
      /\ reg.start /\ ~reg.stop /\ phase' = "started"
      /\ phase \in {"off", "hold", "rx"} \/ (phase = "tx" /\ ~shift)
      /\ wire' = IF frame = 1 THEN <<"S">> ELSE Append(wire, "S")
  BY DEF GenerateStart, callVars, Txe
<1>2. /\ ~reg'.start
      /\ reg'.stop <=> reg.stop
      /\ reg'.rxne <=> reg.rxne
      /\ reg'.ack <=> reg.ack
      /\ reg'.dmaen <=> reg.dmaen
      /\ reg'.last <=> reg.last
      /\ reg'.af <=> reg.af
      /\ reg'.arlo <=> reg.arlo
  BY BusTypes DEF GenerateStart, Bits
<1>3. Flowing = wire /\ Flowing' = wire'
  BY <1>1 DEF Flowing
<1>4. NoError' <=> NoError
  BY <1>2 DEF NoError
<1>5. SUFFICES ASSUME settled, pc # "idle", NoError PROVE StartInv' /\ WriteInv' /\ ReadInv'
  BY <1>1, <1>4 DEF LinkInv, OkInv
<1>6. Past => pc = "sb"
  BY <1>1 DEF ErrorInv, OwnInv
<1>7. ~(pc = "frame" /\ frame = 1)
  BY <1>1, <1>5 DEF ErrorInv, SettledInv
<1>8. pc = "sb"
  <2>1. frame \in Nat /\ frame # 0
    BY ErrorTypes, I2cAssumption
  <2> QED
    BY <1>5, <1>6, <1>7, <2>1 DEF Past
<1>9. Prepared /\ (Reads => reg.ack) /\ ~reg.rxne /\ (frame = 1 \/ Between)
  BY <1>1, <1>5, <1>8 DEF LinkInv, StartInv
<1>10. wire' = Append(Before(frame), "S")
  <2>1. CASE frame = 1
    <3>1. Append(<<>>, "S") = <<"S">>
      OBVIOUS
    <3> QED
      BY <1>1, <2>1, <3>1, BeforeNothing
  <2>2. CASE frame # 1
    BY <1>1, <1>3, <1>9, <2>2 DEF Between
  <2> QED
    BY <2>1, <2>2
<1>11. /\ Current' = Current
       /\ Before(frame)' = Before(frame)
       /\ Final' <=> Final
       /\ Reads' <=> Reads
       /\ SingleByte' <=> SingleByte
  BY <1>1, Unmoved
<1>12. Prepared' <=> Prepared
  BY <1>1, <1>2, <1>11 DEF Prepared
<1>13. Quietly'
  BY <1>1, <1>2, <1>9 DEF Quietly
<1>14. StartInv'
  BY <1>1, <1>2, <1>3, <1>8, <1>9, <1>10, <1>11, <1>12, <1>13 DEF StartInv
<1>15. WriteInv' /\ ReadInv'
  BY <1>1, <1>8 DEF WriteInv, ReadInv
<1> QED
  BY <1>14, <1>15

\* A STOP follows what has been sent.
LEMMA StopLink == ASSUME Inv, ErrorInv, PlaceInv, LinkInv, GenerateStop PROVE LinkInv'
<1>1. /\ UNCHANGED <<shift, dma, pc, mode, ops, settled, frame, left, result>>
      /\ reg.stop /\ phase' = "off" /\ wire' = Append(wire, "P")
      /\ phase = "hold" \/ (phase = "tx" /\ ~shift)
      /\ reg' = Clear({"stop", "msl", "btf"})
  BY DEF GenerateStop, callVars, Txe
<1>2. /\ reg'.start <=> reg.start
      /\ ~reg'.stop
      /\ reg'.rxne <=> reg.rxne
      /\ reg'.ack <=> reg.ack
      /\ reg'.dmaen <=> reg.dmaen
      /\ reg'.last <=> reg.last
      /\ reg'.addr <=> reg.addr
      /\ reg'.af <=> reg.af
      /\ reg'.arlo <=> reg.arlo
  BY <1>1, BusTypes, ClearBits DEF Bits
<1>3. Flowing = wire /\ Flowing' = Append(Flowing, "P")
  BY <1>1 DEF Flowing
<1>4. NoError' <=> NoError
  BY <1>2 DEF NoError
<1>5. \A w : Conforms(w) => Flowing' = Append(w, "P")
  BY <1>1, <1>3 DEF Conforms
<1>6. /\ Current' = Current
      /\ Before(frame)' = Before(frame) /\ \A k : Upto(k)' = Upto(k)
      /\ First' <=> First
      /\ Final' <=> Final
      /\ Reads' <=> Reads
      /\ SingleByte' <=> SingleByte
  BY <1>1, Unmoved
<1>7. /\ Prepared' <=> Prepared
      /\ Rx' = Rx
  BY <1>1, <1>2, <1>6 DEF Prepared, Rx
<1>8. OkInv' \/ ~settled
  <2>1. Before(Len(ops) + 1)' = Before(Len(ops) + 1)
    BY <1>1 DEF Before
  <2> QED
    BY <1>1, <1>2, <1>5, <2>1 DEF LinkInv, OkInv, Conforms
<1>9. SUFFICES ASSUME settled, pc # "idle", NoError PROVE StartInv' /\ WriteInv' /\ ReadInv'
  BY <1>1, <1>4, <1>8 DEF LinkInv
<1>10. StartInv /\ WriteInv /\ ReadInv
  BY <1>9 DEF LinkInv
<1>11. ~Quietly /\ ~Between /\ \A k : ~Sent(k)
  BY <1>1 DEF Quietly, Between, Sent
<1>12. StartInv'
  BY <1>1, <1>2, <1>6, <1>7, <1>10, <1>11 DEF StartInv
<1>13. ASSUME NEW k, Received(k), frame = Len(ops) PROVE Received(k)'
  BY <1>1, <1>5, <1>6, <1>13 DEF Received, Conforms
<1>14. ASSUME NEW l, Stops(l) PROVE l /\ Stops(l)'
  BY <1>1, <1>2, <1>14 DEF Stops
<1>15. WriteInv'
  <2>1. SUFFICES ASSUME ~Reads PROVE pc = "done" => 
           /\ ~reg.rxne /\ frame = Len(ops) /\ Stops(TRUE)' /\ Conforms(Upto(Current.n))'
    BY <1>1, <1>2, <1>6, <1>10, <1>11 DEF WriteInv
  <2>2. CASE pc = "done"
    BY <1>1, <1>5, <1>6, <1>10, <1>14, <2>1, <2>2 DEF WriteInv, Conforms
  <2> QED
    BY <2>2
<1>16. ReadInv'
  <2>1. SUFFICES ASSUME Reads PROVE ReadInv'
    BY <1>6 DEF ReadInv
  <2>2. CASE pc = "rxlast"
    BY <1>1, <1>2, <1>6, <1>7, <1>10, <1>13, <1>14, <2>1, <2>2 DEF ReadInv
  <2>3. CASE pc = "dma"
    BY <1>1, <1>2, <1>6, <1>7, <1>10, <1>13, <1>14, <2>1, <2>3 DEF ReadInv
  <2>4. CASE pc = "done"
    BY <1>1, <1>2, <1>6, <1>7, <1>10, <1>13, <1>14, <2>1, <2>4 DEF ReadInv
  <2> QED
    BY <1>1, <1>10, <1>11, <2>1, <2>2, <2>3, <2>4 DEF ReadInv
<1> QED
  BY <1>12, <1>15, <1>16

\* One more byte of a read, answered as the group it belongs to asks for.
LEMMA ReceivedGrows ==
  ASSUME Inv, pc # "idle", Reads, NEW k \in Nat, Received(k), phase = "rx", ops' = ops, frame' = frame,
         NEW acked \in BOOLEAN, acked <=> ~(Final /\ k + 1 = Current.n),
         wire' = Append(wire, IF acked THEN "A" ELSE "N"), phase' = IF acked THEN "rx" ELSE "hold"
  PROVE  Received(k + 1)'
<1>1. ops \in Seq(Op) /\ frame \in 1 .. Len(ops)
  BY CurrentOp DEF Inv, TypeOK
<1>2. ByteOf(k + 1) = IF acked THEN "A" ELSE "N"
  BY DEF ByteOf
<1>3. Upto(k + 1) = Append(Upto(k), ByteOf(k + 1))
  BY <1>1, UptoGrows
<1>4. wire = Upto(k)
  BY DEF Received, Conforms, Flowing
<1>5. Flowing' = Upto(k + 1)
  BY <1>2, <1>3, <1>4 DEF Flowing
<1>6. Upto(k + 1)' = Upto(k + 1) /\ Current' = Current /\ (Final' <=> Final)
  BY Unmoved
<1> QED
  BY <1>5, <1>6 DEF Received, Conforms

LEMMA ReceiveLink ==
  ASSUME Prompt, Inv, ErrorInv, PlaceInv, LinkInv, ByteReceived
  PROVE  LinkInv'
<1> DEFINE acked == reg.ack /\ ~LastOfDma
<1>1. /\ UNCHANGED <<shift, dma, pc, mode, ops, settled, frame, left, result>>
      /\ phase = "rx" /\ ~reg.rxne /\ ~Preparing /\ reg' = Set({"rxne"})
      /\ wire' = Append(wire, IF acked THEN "A" ELSE "N")
      /\ phase' = IF acked /\ ~reg.stop THEN "rx" ELSE "hold"
  BY DEF ByteReceived, callVars
<1>2. /\ reg'.start <=> reg.start
      /\ reg'.stop <=> reg.stop
      /\ reg'.rxne
      /\ reg'.ack <=> reg.ack
      /\ reg'.dmaen <=> reg.dmaen
      /\ reg'.last <=> reg.last
      /\ reg'.addr <=> reg.addr
      /\ reg'.af <=> reg.af
      /\ reg'.arlo <=> reg.arlo
  BY <1>1, BusTypes, SetBits DEF Bits
<1>0. ops' = ops /\ frame' = frame /\ acked \in BOOLEAN
  BY <1>1
<1>20. acked <=> reg.ack /\ ~LastOfDma
  OBVIOUS
<1> HIDE DEF acked
<1>3. NoError' <=> NoError
  BY <1>2 DEF NoError
<1>4. SUFFICES ASSUME settled, pc # "idle", NoError PROVE StartInv' /\ WriteInv' /\ ReadInv'
  BY <1>1, <1>3 DEF LinkInv, OkInv
<1>5. StartInv /\ WriteInv /\ ReadInv
  BY <1>4 DEF LinkInv
<1>6. Current \in Op /\ Current.n \in Nat /\ Current.kind \in {"read", "write"}
      /\ (Reads => Current.n # 0) /\ dma \in Nat /\ left \in Nat /\ frame \in 1 .. Len(ops)
  BY <1>4, CurrentOp, I2cAssumption DEF Reads, Inv, TypeOK
<1>7. pc \notin {"frame", "body", "last", "done", "addr"} /\ (pc = "dma" => dma # 0)
  <2>1. pc # "addr"
    BY <1>1, <1>5 DEF StartInv, Address
  <2> QED
    BY <1>1, <2>1 DEF Preparing
<1>8. pc # "sb"
  <2>1. SUFFICES ASSUME pc = "sb" PROVE FALSE
    OBVIOUS
  <2>2. reg.start
    BY <1>1, <1>5, <2>1 DEF StartInv
  <2>3. frame # 1
    BY <1>1, <1>4, <2>1, <2>2 DEF ErrorInv, SettledInv, Calm, Txe
  <2>4. First /\ Between
    BY <1>5, <2>1, <2>2, <2>3 DEF PlaceInv, StartInv
  <2> QED
    <3>1. Reads /\ ops[frame - 1].kind # "write"
      BY <1>1, <2>4 DEF Between
    <3>2. ops[frame - 1].kind # "read"
      BY <2>3, <2>4, <3>1 DEF First, Reads
    <3>3. frame - 1 \in 1 .. Len(ops) /\ ops \in Seq(Op)
      BY <1>6, <2>3 DEF Inv, TypeOK
    <3>4. ops[frame - 1] \in Op
      BY <3>3
    <3> QED
      BY <3>1, <3>2, <3>4 DEF Op
<1>9. Reads
  <2>1. pc = "rxne" => Reads
    BY DEF Inv, Place, Reads
  <2> QED
    BY <1>1, <1>4, <1>5, <1>7, <1>8, <2>1, ErrorTypes DEF WriteInv, PlaceInv, Sent, Flags
<1>10. pc \in {"rxne", "rxlast", "dma"}
  BY <1>1, <1>4, <1>7, <1>8, <1>9, ErrorTypes DEF PlaceInv, Flags, Inv, Place, Reads
<1>11. /\ Current' = Current
       /\ Final' <=> Final
       /\ Reads' <=> Reads
       /\ SingleByte' <=> SingleByte
  BY <1>1, Unmoved
<1>12. StartInv' /\ WriteInv'
  BY <1>1, <1>9, <1>10, <1>11 DEF StartInv, WriteInv
<1>13. Rx = 0 /\ Rx' = 1
  BY <1>1, <1>2 DEF Rx
<1>14. pc \in {"rxne", "rxlast"} => ~reg.dmaen
  BY DEF Inv, Waits, BlockingOnly, Quiet
<1>15. frame = Len(ops) => Final
  BY DEF Final
<1>16. CASE pc = "rxne"
  <2>0. Current.n - left \in Nat /\ Current.n - left + 1 # Current.n
    BY <1>6, <1>16 DEF PlaceInv, Inv, Place
  <2>k. PICK k \in Nat : k = Current.n - left
    BY <2>0
  <2>1. k \in Nat /\ k + 0 = k /\ k + 1 # Current.n
    BY <2>0, <2>k
  <2>2. ~reg.stop /\ reg.ack /\ Received(k)
    BY <1>5, <1>9, <1>13, <1>16, <2>1, <2>k DEF ReadInv
  <2>3. acked
    BY <1>14, <1>16, <1>20, <2>2 DEF LastOfDma
  <2>4. phase' = "rx" /\ wire' = Append(wire, "A")
    BY <1>1, <2>2, <2>3
  <2>5. Received(k + 1)'
    BY <1>0, <1>1, <1>4, <1>9, <2>1, <2>2, <2>3, <2>4, ReceivedGrows
  <2>6. (Current.n - left)' = k
    BY <1>1, <1>11, <2>k
  <2>7. Received(Current.n - left + Rx)'
    BY <1>13, <2>5, <2>6
  <2> QED
    BY <1>1, <1>2, <1>12, <1>16, <2>2, <2>7 DEF ReadInv
<1>17. CASE pc = "rxlast"
  <2>k. PICK k \in Nat : k = Current.n - 1
    BY <1>6, <1>9
  <2>1. k \in Nat /\ k + 0 = k /\ k + 1 = Current.n
    BY <1>6, <2>k
  <2>2. Stops(frame = Len(ops)) /\ (reg.ack <=> ~Final) /\ Received(k)
    BY <1>5, <1>9, <1>13, <1>17, <2>1, <2>k DEF ReadInv
  <2>3. acked <=> ~Final
    BY <1>14, <1>17, <1>20, <2>2 DEF LastOfDma
  <2>4. reg.stop => Final
    BY <1>15, <2>2 DEF Stops
  <2>5. phase' = IF acked THEN "rx" ELSE "hold"
    BY <1>1, <2>3, <2>4
  <2>6. Received(k + 1)'
    BY <1>0, <1>1, <1>4, <1>9, <2>1, <2>2, <2>3, <2>5, ReceivedGrows
  <2>7. (Current.n - 1)' = k
    BY <1>11, <2>k
  <2>8. Received(Current.n - 1 + Rx)'
    BY <1>13, <2>6, <2>7
  <2>9. Stops(frame = Len(ops))'
    BY <1>1, <1>2, <2>2 DEF Stops
  <2> QED
    BY <1>1, <1>2, <1>11, <1>12, <1>17, <2>2, <2>8, <2>9 DEF ReadInv
<1>18. CASE pc = "dma"
  <2>0. Current.n - dma \in Nat /\ (SingleByte => dma = 1)
    BY <1>6, <1>7, <1>18 DEF PlaceInv, SingleByte
  <2>k. PICK k \in Nat : k = Current.n - dma
    BY <2>0
  <2>1. k \in Nat /\ k + 0 = k /\ (k + 1 = Current.n <=> dma = 1) /\ (SingleByte => dma = 1)
    BY <1>6, <2>0, <2>k
  <2>2. /\ Prepared /\ Stops(frame = Len(ops) /\ SingleByte)
        /\ reg.ack <=> ~(SingleByte /\ Final)
        /\ Received(k)
    BY <1>5, <1>9, <1>13, <1>18, <2>1, <2>k DEF ReadInv
  <2>3. mode = "async"
    BY <1>18 DEF ErrorInv, OwnInv, Past
  <2>4. acked <=> ~(Final /\ dma = 1)
    BY <1>9, <1>20, <2>1, <2>2, <2>3 DEF LastOfDma, Prepared
  <2>5. reg.stop => Final /\ dma = 1
    BY <1>15, <2>1, <2>2 DEF Stops
  <2>9. phase' = IF acked THEN "rx" ELSE "hold"
    BY <1>1, <2>4, <2>5
  <2>6. Received(k + 1)'
    BY <1>0, <1>1, <1>4, <1>9, <2>1, <2>2, <2>4, <2>9, ReceivedGrows
  <2>7. (Current.n - dma)' = k
    BY <1>1, <1>11, <2>k
  <2>10. Received(Current.n - dma + Rx)'
    BY <1>13, <2>6, <2>7
  <2>8. Stops(frame = Len(ops) /\ SingleByte)' /\ Prepared'
    BY <1>1, <1>2, <1>11, <2>2 DEF Stops, Prepared
  <2> QED
    BY <1>1, <1>2, <1>7, <1>11, <1>12, <1>18, <2>2, <2>8, <2>10 DEF ReadInv
<1> QED
  BY <1>10, <1>16, <1>17, <1>18

LEMMA DmaLink == ASSUME Inv, ErrorInv, PlaceInv, LinkInv, DmaMoves PROVE LinkInv' /\ PlaceInv'
<1>1. /\ UNCHANGED <<phase, wire, pc, mode, ops, settled, frame, left, result>>
      /\ dma \in Nat /\ dma # 0 /\ dma' = dma - 1
  BY ErrorTypes DEF DmaMoves, callVars
<1>2. pc = "dma"
  BY <1>1 DEF ErrorInv, BusInv
<1>3. /\ Current' = Current
      /\ Before(frame)' = Before(frame) /\ \A k : Upto(k)' = Upto(k)
      /\ First' <=> First
      /\ Final' <=> Final
      /\ Reads' <=> Reads
      /\ SingleByte' <=> SingleByte
  BY <1>1, Unmoved
<1>4. /\ Current.n \in Nat /\ frame \in 1 .. Len(ops) /\ ops \in Seq(Op) /\ dma <= Current.n
  BY <1>2, CurrentOp, I2cAssumption DEF PlaceInv, Inv, TypeOK
<1>5. PlaceInv'
  BY <1>1, <1>2, <1>3, <1>4 DEF PlaceInv
<1>6. /\ reg'.start <=> reg.start
      /\ reg'.stop <=> reg.stop
      /\ reg'.ack <=> reg.ack
      /\ reg'.dmaen <=> reg.dmaen
      /\ reg'.last <=> reg.last
      /\ reg'.af <=> reg.af
      /\ reg'.arlo <=> reg.arlo
  <2>1. CASE reg' = [reg EXCEPT !.dr = shift, !.btf = FALSE]
    BY <2>1, BusTypes DEF Bits
  <2>2. CASE reg' = Clear({"rxne"})
    BY <2>2, BusTypes, ClearBits DEF Bits
  <2> QED
    BY <2>1, <2>2 DEF DmaMoves
<1>7. NoError' <=> NoError
  BY <1>6 DEF NoError
<1>8. SUFFICES ASSUME settled, NoError PROVE StartInv' /\ WriteInv' /\ ReadInv'
  BY <1>1, <1>2, <1>5, <1>7 DEF LinkInv, OkInv
<1>9. StartInv'
  BY <1>1, <1>2 DEF StartInv
<1>k. PICK k \in Nat : k = Current.n - dma
  BY <1>1, <1>4
<1>10. k \in Nat /\ (Current.n - dma)' = k + 1
  BY <1>1, <1>3, <1>4, <1>k
<1>11. ReadInv /\ WriteInv
  BY <1>2, <1>8 DEF LinkInv
<1>12. CASE ~Reads
  <2>1. Sent(k)
    BY <1>2, <1>11, <1>12, <1>k DEF WriteInv
  <2>2. Txe /\ reg' = [reg EXCEPT !.dr = shift, !.btf = FALSE] /\ shift' = TRUE
    BY <2>1 DEF DmaMoves, Sent, Quietly
  <2>3. (reg'.dr <=> shift) /\ (reg'.rxne <=> reg.rxne)
    BY <2>2, BusTypes DEF Bits
  <2>4. Flowing' = Append(Flowing, "W")
    BY <1>1, <2>2, <2>3 DEF Flowing, Txe
  <2>5. Upto(k + 1) = Append(Upto(k), "W")
    BY <1>4, <1>10, <1>12, UptoGrows DEF ByteOf
  <2>6. Sent(k + 1)'
    BY <1>1, <1>3, <1>6, <2>1, <2>3, <2>4, <2>5 DEF Sent, Quietly
  <2> QED
    BY <1>1, <1>2, <1>3, <1>9, <1>10, <1>12, <2>6 DEF WriteInv, ReadInv
<1>13. CASE Reads
  <2>1. /\ Prepared /\ Stops(frame = Len(ops) /\ SingleByte)
        /\ reg.ack <=> ~(SingleByte /\ Final)
        /\ Received(k + Rx)
    BY <1>2, <1>11, <1>13, <1>k DEF ReadInv
  <2>2. reg.rxne /\ reg' = Clear({"rxne"}) /\ shift' = shift
    BY <2>1 DEF DmaMoves, Received, Txe
  <2>3. ~reg'.rxne /\ (reg'.dr <=> reg.dr)
    BY <2>2, BusTypes, ClearBits DEF Bits
  <2>4. Rx = 1 /\ Rx' = 0 /\ Flowing' = Flowing
    BY <1>1, <2>2, <2>3, FlowingStays DEF Rx
  <2>5. Received(k + 1)'
    BY <1>1, <1>3, <2>1, <2>4 DEF Received, Conforms
  <2>6. Stops(frame = Len(ops) /\ SingleByte)' /\ Prepared'
    BY <1>1, <1>3, <1>6, <2>1 DEF Stops, Prepared
  <2>7. k + 1 + 0 = k + 1
    BY <1>10
  <2> QED
    BY <1>1, <1>2, <1>3, <1>6, <1>9, <1>10, <1>13, <2>1, <2>3, <2>4, <2>5, <2>6, <2>7 DEF WriteInv, ReadInv
<1> QED
  BY <1>12, <1>13

-------------------------------------------------------------------------------
(* The driver goes on. *)

LEMMA GotoFacts ==
  ASSUME NEW step, Goto(step)
  PROVE  /\ pc' = step /\ UNCHANGED <<wire, mode, ops, settled, frame, result>>
         /\ Current' = Current /\ Address' = Address
         /\ Before(frame)' = Before(frame) /\ \A k : Upto(k)' = Upto(k)
         /\ First' <=> First
         /\ Final' <=> Final
         /\ Reads' <=> Reads
         /\ SingleByte' <=> SingleByte
<1>1. pc' = step /\ UNCHANGED <<wire, mode, ops, settled, frame, result>>
  BY DEF Goto, callVars
<1> QED
  BY <1>1, Unmoved

LEMMA FrameFacts ==
  ASSUME Inv, ErrorInv, pc # "idle"
  PROVE  /\ ops \in Seq(Op) /\ frame \in 1 .. Len(ops) /\ Len(ops) \in Nat
         /\ Current.n \in Nat /\ left \in Nat /\ dma \in Nat
         /\ Current.kind \in {"read", "write"} /\ (Reads => Current.n # 0)
         /\ mode \in {"blocking", "async"}
         /\ frame = Len(ops) => Final
         /\ send_start(Options) <=> First
         /\ send_stop(Options) <=> frame = Len(ops)
         /\ Reads => (send_nack(Options) <=> Final)
<1>1. /\ ops \in Seq(Op) /\ frame \in 1 .. Len(ops)
      /\ Current.n \in Nat /\ left \in Nat /\ dma \in Nat
      /\ Current.kind \in {"read", "write"} /\ (Reads => Current.n # 0)
      /\ mode \in {"blocking", "async"}
  BY CurrentOp, I2cAssumption DEF Reads, Inv, TypeOK
<1>2. /\ send_start(Options) <=> First
      /\ send_stop(Options) <=> frame = Len(ops)
  BY Groups DEF First
<1>3. frame = Len(ops) => Final
  BY DEF Final
<1> QED
  BY <1>1, <1>2, <1>3, Nacks

LEMMA BeginLink == ASSUME Inv, ErrorInv, PlaceInv, LinkInv, begin_frame PROVE LinkInv' /\ PlaceInv'
<1> DEFINE starts == IF send_start(Options)
                     THEN {"start"} \cup (IF Current.kind = "read" THEN {"ack"} ELSE {})
                     ELSE {}
           bits == starts \cup (IF mode = "async" THEN {"dmaen"} ELSE {})
           last == Current.kind = "read" /\ send_nack(Options) /\ ~SingleByte
           step == IF send_start(Options) THEN "sb" ELSE "body"
<1>1. /\ pc = "frame" /\ UNCHANGED <<phase, shift, dma>> /\ Goto(step) /\ left' = Current.n
      /\ reg' = IF mode = "async" THEN [Set(bits) EXCEPT !.last = last] ELSE Set(bits)
  BY DEF begin_frame
<1>2. /\ "start" \in bits <=> send_start(Options)
      /\ "ack" \in bits <=> send_start(Options) /\ Reads
      /\ "dmaen" \in bits <=> mode = "async"
      /\ bits \subseteq {"start", "ack", "dmaen"} /\ last \in BOOLEAN
  BY DEF Reads
<1>3. last <=> Reads /\ send_nack(Options) /\ ~SingleByte
  BY DEF Reads
<1> HIDE DEF bits, last, starts
<1>4. /\ reg'.start <=> reg.start \/ send_start(Options)
      /\ reg'.ack <=> reg.ack \/ (send_start(Options) /\ Reads)
      /\ reg'.dmaen <=> reg.dmaen \/ mode = "async"
      /\ mode = "async" => (reg'.last <=> last)
      /\ reg'.stop <=> reg.stop
      /\ reg'.rxne <=> reg.rxne
      /\ reg'.dr <=> reg.dr
      /\ reg'.af <=> reg.af
      /\ reg'.arlo <=> reg.arlo
  <2>1. Set(bits) \in [Bits -> BOOLEAN] /\ \A b \in Bits : Set(bits)[b] <=> (b \in bits \/ reg[b])
    BY BusTypes, SetBits
  <2>2. \A b \in Bits \ {"last"} : reg'[b] <=> (b \in bits \/ reg[b])
    BY <1>1, <2>1
  <2>3. mode = "async" => (reg'.last <=> last)
    BY <1>1, <2>1 DEF Bits
  <2> QED
    BY <1>2, <2>2, <2>3 DEF Bits
<1>5. /\ pc' = step /\ UNCHANGED <<wire, mode, ops, settled, frame, result>>
      /\ Current' = Current /\ Address' = Address
      /\ Before(frame)' = Before(frame) /\ \A k : Upto(k)' = Upto(k)
      /\ First' <=> First
      /\ Final' <=> Final
      /\ Reads' <=> Reads
      /\ SingleByte' <=> SingleByte
  BY <1>1, GotoFacts
<1>6. /\ ops \in Seq(Op) /\ frame \in 1 .. Len(ops) /\ Current.n \in Nat
      /\ Current.kind \in {"read", "write"}
      /\ send_start(Options) <=> First
      /\ Reads => (send_nack(Options) <=> Final)
  BY <1>1, FrameFacts
<1>7. PlaceInv'
  BY <1>1, <1>5, <1>6 DEF PlaceInv
<1>8. NoError' <=> NoError
  BY <1>4 DEF NoError
<1>9. SUFFICES ASSUME settled, NoError PROVE StartInv' /\ WriteInv' /\ ReadInv'
  BY <1>1, <1>5, <1>7, <1>8 DEF LinkInv, OkInv
<1>10. IF frame = 1 THEN ~reg.rxne ELSE Between
  BY <1>1, <1>9 DEF LinkInv, StartInv
<1>11. ~reg.rxne
  BY <1>10 DEF Between, Quietly
<1>12. Flowing' = Flowing
  BY <1>1, <1>4, <1>5, FlowingStays
<1>13. Prepared'
  BY <1>3, <1>4, <1>5, <1>6 DEF Prepared
<1>14. CASE First
  <2>1. pc' = "sb"
    BY <1>5, <1>6, <1>14
  <2>2. (Reads => reg'.ack) /\ reg'.start /\ ~reg'.rxne
    BY <1>4, <1>6, <1>11, <1>14
  <2>3. frame # 1 => Between'
    BY <1>1, <1>4, <1>5, <1>10, <1>12 DEF Between, Quietly
  <2> QED
    BY <1>5, <1>13, <2>1, <2>2, <2>3 DEF StartInv, WriteInv, ReadInv
<1>15. CASE ~First
  <2>1. pc' = "body" /\ frame # 1 /\ ops[frame - 1].kind = Current.kind /\ Between
    BY <1>5, <1>6, <1>10, <1>15 DEF First
  <2>2. Upto(0) = Before(frame)
    BY <1>6, <1>15, UptoNone
  <2>3. Quietly' /\ Flowing' = Upto(0)
    BY <1>4, <1>12, <2>1, <2>2 DEF Between, Quietly
  <2>4. IF Reads THEN phase = "rx" /\ reg.ack ELSE phase = "tx"
    BY <1>6, <2>1 DEF Between, Reads
  <2>5. StartInv'
    BY <2>1 DEF StartInv
  <2>6. WriteInv'
    BY <1>1, <1>5, <2>1, <2>3, <2>4 DEF WriteInv, Sent
  <2>7. ReadInv'
    BY <1>1, <1>4, <1>5, <1>6, <1>13, <1>15, <2>1, <2>3, <2>4 DEF ReadInv
  <2> QED
    BY <2>5, <2>6, <2>7
<1> QED
  BY <1>14, <1>15

LEMMA ReturnLink ==
  ASSUME NEW res, NEW r, Return(res, r), res # "ok"
  PROVE  LinkInv' /\ PlaceInv'
<1>1. pc' = "idle" /\ result' # "ok"
  BY DEF Return
<1> QED
  BY <1>1 DEF LinkInv, OkInv, PlaceInv

LEMMA GeneratedLink ==
  ASSUME Inv, ErrorInv, PlaceInv, LinkInv, start_generated
  PROVE  LinkInv' /\ PlaceInv'
<1>1. CASE reg.start \/ ~reg.msl
  <2>1. Return("arbitration", reg)
    BY <1>1 DEF start_generated
  <2> QED
    BY <2>1, ReturnLink
<1>2. CASE ~(reg.start \/ ~reg.msl)
  <2>1. /\ pc = "sb" /\ NoError /\ reg.sb /\ ~reg.start
        /\ reg' = Clear({"sb"}) /\ phase' = IF Reads THEN "addr_r" ELSE "addr_w"
        /\ Goto("addr") /\ UNCHANGED <<shift, dma, left>>
    BY <1>2, FailingFacts DEF start_generated, Reaches, Awaited, Reads
  <2>2. /\ reg'.stop <=> reg.stop
        /\ reg'.rxne <=> reg.rxne
        /\ reg'.ack <=> reg.ack
        /\ reg'.dmaen <=> reg.dmaen
        /\ reg'.last <=> reg.last
        /\ reg'.addr <=> reg.addr
    BY <2>1, BusTypes, ClearBits DEF Bits
  <2>3. /\ pc' = "addr" /\ UNCHANGED <<wire, mode, ops, settled, frame, result>>
        /\ Current' = Current /\ Address' = Address
        /\ Before(frame)' = Before(frame) /\ \A k : Upto(k)' = Upto(k)
        /\ First' <=> First
        /\ Final' <=> Final
        /\ Reads' <=> Reads
        /\ SingleByte' <=> SingleByte
    BY <2>1, GotoFacts
  <2>4. PlaceInv'
    BY <2>1, <2>3 DEF PlaceInv
  <2>5. SUFFICES ASSUME settled PROVE StartInv' /\ WriteInv' /\ ReadInv'
    BY <2>3, <2>4 DEF LinkInv, OkInv
  <2>6. /\ Prepared /\ (Reads => reg.ack) /\ phase = "started" /\ Quietly
        /\ Flowing = Append(Before(frame), "S")
    BY <2>1, <2>5 DEF LinkInv, StartInv
  <2>7. ~reg'.addr
    BY <2>2, <2>6 DEF ErrorInv, BusInv, AddressPhases
  <2>8. phase' = Address'
    BY <2>1, <2>3 DEF Address
  <2>9. Flowing' = Append(Before(frame), "S")
    BY <2>1, <2>3, <2>6 DEF Flowing
  <2>10. Prepared' /\ Quietly' /\ (Reads' => reg'.ack)
    BY <2>2, <2>3, <2>6 DEF Prepared, Quietly
  <2> QED
    BY <2>3, <2>7, <2>8, <2>9, <2>10 DEF StartInv, WriteInv, ReadInv
<1> QED
  BY <1>1, <1>2

LEMMA AcknowledgedLink ==
  ASSUME Inv, ErrorInv, PlaceInv, LinkInv, address_acknowledged
  PROVE  LinkInv' /\ PlaceInv'
<1> DEFINE bits == IF mode = "async" /\ Current.kind = "read" /\ SingleByte /\ send_nack(Options)
                   THEN {"ack"} ELSE {}
<1>1. /\ pc = "addr" /\ reg.addr /\ reg' = Clear({"addr"} \cup bits)
      /\ phase' = IF Reads THEN "rx" ELSE "tx"
      /\ Goto("body") /\ UNCHANGED <<shift, dma, left>>
  BY DEF address_acknowledged, Reaches, Awaited, Reads
<1>2. bits \subseteq {"ack"}
      /\ ("ack" \in bits <=> mode = "async" /\ Reads /\ SingleByte /\ send_nack(Options))
  BY DEF Reads
<1> HIDE DEF bits
<1>3. /\ reg'.ack <=> reg.ack /\ "ack" \notin bits
      /\ reg'.stop <=> reg.stop
      /\ reg'.rxne <=> reg.rxne
      /\ reg'.dmaen <=> reg.dmaen
      /\ reg'.last <=> reg.last
      /\ reg'.af <=> reg.af
      /\ reg'.arlo <=> reg.arlo
  <2>1. \A b \in Bits : reg'[b] <=> (b \notin {"addr"} \cup bits /\ reg[b])
    BY <1>1, BusTypes, ClearBits
  <2> QED
    BY <1>2, <2>1 DEF Bits
<1>4. /\ pc' = "body" /\ UNCHANGED <<wire, mode, ops, settled, frame, result>>
      /\ Current' = Current /\ \A k : Upto(k)' = Upto(k)
      /\ First' <=> First
      /\ Final' <=> Final
      /\ Reads' <=> Reads
      /\ SingleByte' <=> SingleByte
  BY <1>1, GotoFacts
<1>5. /\ Reads => (send_nack(Options) <=> Final)
      /\ First
  BY <1>1, FrameFacts DEF PlaceInv
<1>6. PlaceInv'
  BY <1>1, <1>4 DEF PlaceInv
<1>7. NoError' <=> NoError
  BY <1>3 DEF NoError
<1>8. SUFFICES ASSUME settled, NoError PROVE StartInv' /\ WriteInv' /\ ReadInv'
  BY <1>1, <1>4, <1>6, <1>7 DEF LinkInv, OkInv
<1>9. Prepared /\ (Reads => reg.ack) /\ Quietly /\ phase = Address /\ Flowing = Upto(0)
  BY <1>1, <1>8 DEF LinkInv, StartInv
<1>10. ~shift /\ phase # "tx"
  BY <1>9 DEF ErrorInv, BusInv, Address
<1>11. Flowing' = Upto(0)
  BY <1>1, <1>4, <1>9, <1>10 DEF Flowing
<1>12. Prepared' /\ Quietly'
  BY <1>3, <1>4, <1>9 DEF Prepared, Quietly
<1>13. StartInv'
  BY <1>4 DEF StartInv
<1>14. WriteInv'
  BY <1>1, <1>4, <1>11, <1>12 DEF WriteInv, Sent
<1>15. ReadInv'
  BY <1>1, <1>2, <1>3, <1>4, <1>5, <1>9, <1>11, <1>12 DEF ReadInv
<1> QED
  BY <1>13, <1>14, <1>15

\* A step after the address that leaves no error to the ones that follow.
LEMMA StepLink ==
  ASSUME PlaceInv, LinkInv, pc \notin {"idle", "frame", "sb", "addr"},
         NEW step, step \notin {"idle", "frame", "sb", "addr"}, Goto(step), PlaceInv',
         NoError' => NoError,
         settled /\ NoError => WriteInv' /\ ReadInv'
  PROVE  LinkInv' /\ PlaceInv'
<1>1. pc' = step /\ UNCHANGED <<settled, result>>
  BY DEF Goto, callVars
<1>2. StartInv'
  BY <1>1 DEF StartInv
<1> QED
  BY <1>1, <1>2 DEF LinkInv, OkInv

LEMMA StartDmaLink ==
  ASSUME Inv, ErrorInv, PlaceInv, LinkInv, start_dma
  PROVE  LinkInv' /\ PlaceInv'
<1> DEFINE single == Current.kind = "read" /\ SingleByte
           r == IF single /\ send_nack(Options) /\ ~send_start(Options) THEN Clear({"ack"}) ELSE reg
<1>1. /\ pc = "body" /\ mode = "async" /\ dma' = Current.n
      /\ reg' = [r EXCEPT !.stop = @ \/ (single /\ send_stop(Options))]
      /\ Goto("dma") /\ UNCHANGED <<phase, shift, left>>
  BY DEF start_dma
<1>2. single <=> Reads /\ SingleByte
  BY DEF Reads
<1> HIDE DEF single
<1>3. /\ r \in [Bits -> BOOLEAN]
      /\ r.ack <=> reg.ack /\ ~(single /\ send_nack(Options) /\ ~send_start(Options))
      /\ \A b \in Bits \ {"ack"} : r[b] <=> reg[b]
  BY BusTypes, ClearBits DEF Bits
<1> HIDE DEF r
<1>4. /\ reg'.ack <=> r.ack
      /\ reg'.stop <=> reg.stop \/ (single /\ send_stop(Options))
      /\ reg'.rxne <=> reg.rxne
      /\ reg'.dmaen <=> reg.dmaen
      /\ reg'.last <=> reg.last
      /\ reg'.dr <=> reg.dr
      /\ reg'.af <=> reg.af
      /\ reg'.arlo <=> reg.arlo
  BY <1>1, <1>3 DEF Bits
<1>5. /\ pc' = "dma" /\ UNCHANGED <<wire, mode, ops, settled, frame, result>>
      /\ Current' = Current /\ \A k : Upto(k)' = Upto(k)
      /\ First' <=> First
      /\ Final' <=> Final
      /\ Reads' <=> Reads
      /\ SingleByte' <=> SingleByte
  BY <1>1, GotoFacts
<1>6. /\ Current.n \in Nat /\ (Reads => Current.n # 0)
      /\ send_start(Options) <=> First
      /\ send_stop(Options) <=> frame = Len(ops)
      /\ Reads => (send_nack(Options) <=> Final)
  BY <1>1, FrameFacts
<1>7. PlaceInv'
  BY <1>1, <1>5, <1>6 DEF PlaceInv
<1>8. NoError' <=> NoError
  BY <1>4 DEF NoError
<1>9. Flowing' = Flowing
  BY <1>1, <1>4, <1>5, FlowingStays
<1>10. (Current.n - dma)' = 0
  BY <1>1, <1>5, <1>6
<1>11. ASSUME settled, NoError PROVE WriteInv'
  <2>1. SUFFICES ASSUME ~Reads PROVE WriteInv'
    BY <1>5 DEF WriteInv
  <2>2. Sent(0)
    BY <1>1, <1>11, <2>1 DEF LinkInv, WriteInv
  <2>3. Sent(0)'
    BY <1>1, <1>2, <1>4, <1>5, <1>9, <2>1, <2>2 DEF Sent, Quietly
  <2> QED
    BY <1>5, <1>10, <2>3 DEF WriteInv
<1>12. ASSUME settled, NoError PROVE ReadInv'
  <2>1. SUFFICES ASSUME Reads PROVE ReadInv'
    BY <1>5 DEF ReadInv
  <2>2. /\ Prepared /\ Quietly /\ phase = "rx" /\ Flowing = Upto(0)
        /\ reg.ack <=> ~(SingleByte /\ Final /\ First)
    BY <1>1, <1>12, <2>1 DEF LinkInv, ReadInv
  <2>3. Prepared' /\ ~reg'.rxne
    BY <1>4, <1>5, <2>2 DEF Prepared, Quietly
  <2>4. reg'.ack <=> ~(SingleByte /\ Final)
    BY <1>2, <1>3, <1>4, <1>6, <2>1, <2>2
  <2>5. reg'.stop <=> frame = Len(ops) /\ SingleByte
    BY <1>2, <1>4, <1>6, <2>1, <2>2 DEF Quietly
  <2>6. Stops(frame = Len(ops) /\ SingleByte)'
    BY <1>5, <2>5 DEF Stops
  <2>7. Received(0)'
    BY <1>1, <1>5, <1>6, <1>9, <2>1, <2>2 DEF Received, Conforms
  <2>8. Rx' = 0 /\ 0 + 0 = 0
    BY <2>3 DEF Rx
  <2>9. Received(Current.n - dma + Rx)'
    BY <1>10, <2>7, <2>8
  <2> QED
    BY <1>5, <2>3, <2>4, <2>6, <2>9 DEF ReadInv
<1> QED
  BY <1>1, <1>7, <1>8, <1>11, <1>12, StepLink

LEMMA DmaCompleteLink ==
  ASSUME Inv, ErrorInv, PlaceInv, LinkInv, dma_complete
  PROVE  LinkInv' /\ PlaceInv'
<1> DEFINE step == IF send_stop(Options) /\ Current.kind = "write" THEN "end" ELSE "done"
<1>1. /\ pc = "dma" /\ dma = 0 /\ Goto(step) /\ UNCHANGED <<phase, shift, dma, left>>
      /\ reg' = [reg EXCEPT !.dmaen = FALSE,
                   !.stop = @ \/ (send_stop(Options) /\ Current.kind = "read" /\ ~SingleByte)]
  BY DEF dma_complete, Reaches, Awaited
<1>2. /\ reg'.stop <=> reg.stop \/ (send_stop(Options) /\ Reads /\ ~SingleByte)
      /\ reg'.ack <=> reg.ack
      /\ reg'.rxne <=> reg.rxne
      /\ reg'.dr <=> reg.dr
      /\ reg'.af <=> reg.af
      /\ reg'.arlo <=> reg.arlo
  BY <1>1, BusTypes DEF Bits, Reads
<1>3. /\ pc' = step /\ UNCHANGED <<wire, mode, ops, settled, frame, result>>
      /\ Current' = Current /\ \A k : Upto(k)' = Upto(k)
      /\ Final' <=> Final
      /\ Reads' <=> Reads
  BY <1>1, GotoFacts
<1>4. /\ Current.n \in Nat /\ Current.n - 0 = Current.n /\ Current.n + 0 = Current.n
      /\ Current.kind \in {"read", "write"} /\ (frame = Len(ops) => Final)
      /\ send_stop(Options) <=> frame = Len(ops)
  BY <1>1, FrameFacts
<1>5. step = IF frame = Len(ops) /\ ~Reads THEN "end" ELSE "done"
  BY <1>4 DEF Reads
<1> HIDE DEF step
<1>6. PlaceInv'
  BY <1>3, <1>5 DEF PlaceInv
<1>7. NoError' <=> NoError
  BY <1>2 DEF NoError
<1>8. Flowing' = Flowing
  BY <1>1, <1>2, <1>3, FlowingStays
<1>9. ASSUME settled, NoError PROVE WriteInv'
  <2>1. SUFFICES ASSUME ~Reads PROVE WriteInv'
    BY <1>3 DEF WriteInv
  <2>2. Sent(Current.n)
    BY <1>1, <1>4, <1>9, <2>1 DEF LinkInv, WriteInv
  <2>3. Sent(Current.n)'
    BY <1>1, <1>2, <1>3, <1>8, <2>1, <2>2 DEF Sent, Quietly
  <2>4. pc' = "done" => frame # Len(ops)
    BY <1>3, <1>5, <2>1
  <2> QED
    BY <1>3, <1>5, <2>3, <2>4 DEF WriteInv, Sent, Quietly, Stops, Conforms
<1>10. ASSUME settled, NoError PROVE ReadInv'
  <2>1. SUFFICES ASSUME Reads PROVE ReadInv'
    BY <1>3 DEF ReadInv
  <2>2. /\ Stops(frame = Len(ops) /\ SingleByte)
        /\ reg.ack <=> ~(SingleByte /\ Final)
        /\ ~reg.rxne /\ Received(Current.n - dma + Rx)
    BY <1>1, <1>10, <2>1 DEF LinkInv, ReadInv
  <2>3. Received(Current.n)
    BY <1>1, <1>4, <2>2 DEF Rx
  <2>4. Received(Current.n)'
    BY <1>1, <1>3, <1>8, <2>3 DEF Received, Conforms
  <2>5. Stops(frame = Len(ops))'
    BY <1>1, <1>2, <1>3, <1>4, <2>1, <2>2 DEF Stops
  <2> QED
    BY <1>2, <1>3, <1>5, <2>1, <2>2, <2>4, <2>5 DEF ReadInv
<1> QED
  BY <1>1, <1>5, <1>6, <1>7, <1>9, <1>10, StepLink

LEMMA StopsLink ==
  ASSUME Inv, ErrorInv, PlaceInv, LinkInv, transfer_finished \/ write_stop
  PROVE  LinkInv' /\ PlaceInv'
<1>1. /\ pc \in {"end", "stop"} /\ ~Reads /\ Goto("done") /\ UNCHANGED <<phase, shift, left>>
  BY DEF transfer_finished, write_stop, Reaches, PlaceInv
<1>2. /\ Current.n \in Nat /\ (send_stop(Options) <=> frame = Len(ops)) /\ (pc = "end" => frame = Len(ops))
  BY <1>1, FrameFacts DEF PlaceInv
<1>3. /\ reg'.stop <=> reg.stop \/ frame = Len(ops)
      /\ reg'.rxne <=> reg.rxne
      /\ reg'.dr <=> reg.dr
      /\ reg'.af <=> reg.af
      /\ reg'.arlo <=> reg.arlo
  <2>1. CASE transfer_finished
    <3>1. frame = Len(ops) /\ reg' = Set({"stop"})
      BY <1>2, <2>1 DEF transfer_finished, Reaches
    <3> QED
      BY <3>1, BusTypes, SetBits DEF Bits
  <2>2. CASE write_stop
    BY <1>2, <2>2, BusTypes DEF write_stop, Bits
  <2> QED
    BY <2>1, <2>2
<1>4. /\ pc' = "done" /\ UNCHANGED <<wire, mode, ops, settled, frame, result>>
      /\ Current' = Current /\ \A k : Upto(k)' = Upto(k)
      /\ Reads' <=> Reads
  BY <1>1, GotoFacts
<1>5. PlaceInv'
  BY <1>4 DEF PlaceInv
<1>6. NoError' <=> NoError
  BY <1>3 DEF NoError
<1>7. Flowing' = Flowing
  BY <1>1, <1>3, <1>4, FlowingStays
<1>8. ASSUME settled, NoError PROVE WriteInv' /\ ReadInv'
  <2>1. Sent(Current.n)
    BY <1>1, <1>8 DEF LinkInv, WriteInv
  <2> QED
    BY <1>1, <1>3, <1>4, <1>7, <2>1 DEF WriteInv, ReadInv, Sent, Quietly, Stops, Conforms
<1> QED
  BY <1>1, <1>4, <1>5, <1>6, <1>8, StepLink

LEMMA StartLoopLink ==
  ASSUME Inv, ErrorInv, PlaceInv, LinkInv, start_loop
  PROVE  LinkInv' /\ PlaceInv'
<1> DEFINE step == LoopPoint(left)
<1>1. /\ pc = "body" /\ mode = "blocking" /\ Goto(step) /\ UNCHANGED <<reg, phase, shift, left>>
  BY DEF start_loop
<1>2. left = Current.n
  BY <1>1 DEF Inv, Place, Whole
<1>3. Current.n \in Nat /\ (Reads => Current.n # 0) /\ Current.kind \in {"read", "write"}
  BY <1>1, FrameFacts
<1>4. step = IF Reads THEN IF Current.n = 1 THEN "last" ELSE "rxne"
             ELSE IF Current.n = 0 THEN "stop" ELSE "txe"
  BY <1>2, <1>3 DEF LoopPoint, Reads
<1> HIDE DEF step
<1>5. /\ pc' = step /\ UNCHANGED <<wire, mode, ops, settled, frame, result>>
      /\ Current' = Current /\ \A k : Upto(k)' = Upto(k)
      /\ Final' <=> Final
      /\ Reads' <=> Reads
      /\ SingleByte' <=> SingleByte
  BY <1>1, GotoFacts
<1>6. PlaceInv'
  BY <1>1, <1>2, <1>3, <1>4, <1>5 DEF PlaceInv
<1>7. NoError' <=> NoError
  BY <1>1 DEF NoError
<1>8. Flowing' = Flowing
  BY <1>1, <1>5, FlowingStays
<1>9. (Current.n - left)' = 0
  BY <1>1, <1>2, <1>3, <1>5
<1>10. ASSUME settled, NoError PROVE WriteInv'
  <2>1. SUFFICES ASSUME ~Reads PROVE WriteInv'
    BY <1>5 DEF WriteInv
  <2>2. Sent(0)
    BY <1>1, <1>10, <2>1 DEF LinkInv, WriteInv
  <2>3. Sent(0)'
    BY <1>1, <1>5, <1>8, <2>2 DEF Sent, Quietly
  <2> QED
    BY <1>4, <1>5, <1>9, <2>1, <2>3 DEF WriteInv
<1>11. ASSUME settled, NoError PROVE ReadInv'
  <2>1. SUFFICES ASSUME Reads PROVE ReadInv'
    BY <1>5 DEF ReadInv
  <2>2. Quietly /\ phase = "rx" /\ Flowing = Upto(0) /\ reg.ack
    BY <1>1, <1>11, <2>1 DEF LinkInv, ReadInv
  <2>3. Rx' = 0 /\ 0 + 0 = 0
    BY <1>1, <2>2 DEF Rx, Quietly
  <2>4. Received(0)'
    BY <1>1, <1>3, <1>5, <1>8, <2>1, <2>2 DEF Received, Conforms
  <2>5. Received(Current.n - left + Rx)'
    BY <1>9, <2>3, <2>4
  <2>6. Quietly' /\ reg'.ack /\ phase' = "rx" /\ Flowing' = Upto(0) /\ ~reg'.stop
    BY <1>1, <1>8, <2>2 DEF Quietly
  <2>7. Current.n = 1 => (Current.n - 1)' = 0
    BY <1>5
  <2>8. Upto(0)' = Upto(0)
    BY <1>5
  <2> QED
    BY <1>4, <1>5, <2>1, <2>5, <2>6, <2>7, <2>8 DEF ReadInv
<1> QED
  BY <1>1, <1>4, <1>6, <1>7, <1>10, <1>11, StepLink

LEMMA SendLink ==
  ASSUME Inv, ErrorInv, PlaceInv, LinkInv, send_byte
  PROVE  LinkInv' /\ PlaceInv'
<1>1. /\ pc = "txe" /\ Txe /\ Goto("btf") /\ UNCHANGED <<phase, left>> /\ shift' = TRUE
      /\ reg' = [reg EXCEPT !.dr = shift, !.btf = FALSE]
  BY DEF send_byte, Reaches, Awaited
<1>2. /\ Current.n \in Nat /\ left \in Nat /\ left <= Current.n
      /\ ops \in Seq(Op) /\ frame \in 1 .. Len(ops)
  BY <1>1, FrameFacts DEF PlaceInv
<1>3. ~Reads
  BY <1>1 DEF Inv, Place, Reads
<1>4. /\ pc' = "btf" /\ UNCHANGED <<wire, mode, ops, settled, frame, result>>
      /\ Current' = Current /\ \A k : Upto(k)' = Upto(k)
      /\ Reads' <=> Reads
  BY <1>1, GotoFacts
<1>5. /\ reg'.dr <=> shift
      /\ reg'.stop <=> reg.stop
      /\ reg'.rxne <=> reg.rxne
      /\ reg'.af <=> reg.af
      /\ reg'.arlo <=> reg.arlo
  BY <1>1, BusTypes DEF Bits
<1>6. PlaceInv'
  BY <1>1, <1>2, <1>4 DEF PlaceInv
<1>7. NoError' <=> NoError
  BY <1>5 DEF NoError
<1>8. PICK k \in Nat : k = Current.n - left
  BY <1>2
<1>9. Flowing' = Append(Flowing, "W")
  BY <1>1, <1>4, <1>5 DEF Flowing, Txe
<1>10. Upto(k + 1) = Append(Upto(k), "W")
  BY <1>2, <1>3, UptoGrows DEF ByteOf
<1>11. (Current.n - left)' = k
  BY <1>1, <1>4, <1>8
<1>12. ASSUME settled, NoError PROVE WriteInv' /\ ReadInv'
  <2>1. Sent(k)
    BY <1>1, <1>3, <1>8, <1>12 DEF LinkInv, WriteInv
  <2>2. Sent(k + 1)'
    BY <1>1, <1>4, <1>5, <1>9, <1>10, <2>1 DEF Sent, Quietly
  <2> QED
    BY <1>3, <1>4, <1>11, <2>2 DEF WriteInv, ReadInv
<1> QED
  BY <1>1, <1>6, <1>7, <1>12, StepLink

LEMMA TransferredLink ==
  ASSUME Inv, ErrorInv, PlaceInv, LinkInv, byte_transferred
  PROVE  LinkInv' /\ PlaceInv'
<1> DEFINE step == LoopPoint(left - 1)
<1>1. /\ pc = "btf" /\ left' = left - 1 /\ Goto(LoopPoint(left')) /\ UNCHANGED <<reg, phase, shift>>
  BY DEF byte_transferred, Reaches
<1>2. Goto(step)
  BY <1>1
<1>3. /\ Current.n \in Nat /\ left \in Nat /\ left <= Current.n /\ left >= 1 /\ Current.kind = "write"
  BY <1>1, FrameFacts DEF PlaceInv, Inv, Place
<1>4. ~Reads /\ step = IF left = 1 THEN "stop" ELSE "txe"
  BY <1>3 DEF Reads, LoopPoint
<1> HIDE DEF step
<1>5. /\ pc' = step /\ UNCHANGED <<wire, mode, ops, settled, frame, result>>
      /\ Current' = Current /\ \A k : Upto(k)' = Upto(k)
      /\ Reads' <=> Reads
  BY <1>2, GotoFacts
<1>6. PlaceInv'
  BY <1>1, <1>3, <1>4, <1>5 DEF PlaceInv
<1>7. NoError' <=> NoError
  BY <1>1 DEF NoError
<1>8. Flowing' = Flowing
  BY <1>1, <1>5, FlowingStays
<1>9. PICK k \in Nat : k = Current.n - left + 1
  BY <1>3
<1>10. (Current.n - left)' = k /\ (left = 1 => Current.n' = k)
  BY <1>1, <1>3, <1>5, <1>9
<1>11. ASSUME settled, NoError PROVE WriteInv' /\ ReadInv'
  <2>1. Sent(k)
    BY <1>1, <1>4, <1>9, <1>11 DEF LinkInv, WriteInv
  <2>2. Sent(k)'
    BY <1>1, <1>5, <1>8, <2>1 DEF Sent, Quietly
  <2> QED
    BY <1>4, <1>5, <1>10, <2>2 DEF WriteInv, ReadInv
<1> QED
  BY <1>1, <1>2, <1>4, <1>6, <1>7, <1>11, StepLink

LEMMA RecvLink ==
  ASSUME Inv, ErrorInv, PlaceInv, LinkInv, recv_byte
  PROVE  LinkInv' /\ PlaceInv'
<1> DEFINE step == LoopPoint(left - 1)
<1>1. /\ pc = "rxne" /\ reg.rxne /\ left' = left - 1 /\ Goto(LoopPoint(left'))
      /\ UNCHANGED <<phase, shift>> /\ reg' = Clear({"rxne"})
  BY DEF recv_byte, Reaches, Awaited
<1>2. Goto(step)
  BY <1>1
<1>3. /\ Current.n \in Nat /\ left \in Nat /\ left <= Current.n /\ left >= 2 /\ Current.kind = "read"
  BY <1>1, FrameFacts DEF PlaceInv, Inv, Place
<1>4. Reads /\ step = IF left = 2 THEN "last" ELSE "rxne"
  BY <1>3 DEF Reads, LoopPoint
<1> HIDE DEF step
<1>5. /\ pc' = step /\ UNCHANGED <<wire, mode, ops, settled, frame, result>>
      /\ Current' = Current /\ \A k : Upto(k)' = Upto(k)
      /\ Final' <=> Final
      /\ Reads' <=> Reads
  BY <1>2, GotoFacts
<1>6. /\ reg'.ack <=> reg.ack
      /\ reg'.stop <=> reg.stop
      /\ reg'.dr <=> reg.dr
      /\ reg'.af <=> reg.af
      /\ reg'.arlo <=> reg.arlo
      /\ ~reg'.rxne
  BY <1>1, BusTypes, ClearBits DEF Bits
<1>7. PlaceInv'
  BY <1>1, <1>3, <1>4, <1>5 DEF PlaceInv
<1>8. NoError' <=> NoError
  BY <1>6 DEF NoError
<1>9. Flowing' = Flowing
  BY <1>1, <1>5, <1>6, FlowingStays
<1>10. PICK k \in Nat : k = Current.n - left + 1
  BY <1>3
<1>11. (Current.n - left)' = k /\ k # Current.n /\ (left = 2 => Current.n' - 1 = k) /\ k + 0 = k
  BY <1>1, <1>3, <1>5, <1>10
<1>12. ASSUME settled, NoError PROVE WriteInv' /\ ReadInv'
  <2>1. ~reg.stop /\ reg.ack /\ Received(Current.n - left + Rx)
    BY <1>1, <1>4, <1>12 DEF LinkInv, ReadInv
  <2>2. Received(k)
    BY <1>1, <1>10, <2>1 DEF Rx
  <2>3. phase = "rx" /\ Flowing = Upto(k)
    BY <1>11, <2>2 DEF Received, Conforms
  <2>4. Received(k)'
    BY <1>1, <1>5, <1>9, <2>2 DEF Received, Conforms
  <2>5. Rx' = 0
    BY <1>6 DEF Rx
  <2>6. Received(Current.n - left + Rx)'
    BY <1>11, <2>4, <2>5
  <2>7. WriteInv'
    BY <1>4, <1>5 DEF WriteInv
  <2>8. left = 2 => (Current.n - 1)' = k
    BY <1>11
  <2>9. Flowing' = Upto(k)' /\ phase' = "rx" /\ Quietly' /\ reg'.ack /\ ~reg'.stop
    BY <1>1, <1>5, <1>6, <1>9, <2>1, <2>3 DEF Quietly
  <2>10. ReadInv'
    BY <1>4, <1>5, <2>6, <2>8, <2>9 DEF ReadInv
  <2> QED
    BY <2>7, <2>10
<1> QED
  BY <1>1, <1>2, <1>4, <1>7, <1>8, <1>12, StepLink

LEMMA LastLink ==
  ASSUME Inv, ErrorInv, PlaceInv, LinkInv, prepare_last \/ recv_last
  PROVE  LinkInv' /\ PlaceInv'
<1>1. CASE prepare_last
  <2>1. /\ pc = "last" /\ Reads /\ Goto("rxlast") /\ UNCHANGED <<phase, shift, left>>
        /\ reg' = [reg EXCEPT !.ack = @ /\ ~send_nack(Options), !.stop = @ \/ send_stop(Options)]
    BY <1>1 DEF prepare_last, PlaceInv
  <2>2. /\ Current.n \in Nat /\ Current.n # 0
        /\ send_stop(Options) <=> frame = Len(ops)
        /\ send_nack(Options) <=> Final
    BY <2>1, FrameFacts
  <2>3. /\ reg'.ack <=> reg.ack /\ ~Final
        /\ reg'.stop <=> reg.stop \/ frame = Len(ops)
        /\ reg'.rxne <=> reg.rxne
        /\ reg'.dr <=> reg.dr
        /\ reg'.af <=> reg.af
        /\ reg'.arlo <=> reg.arlo
    BY <2>1, <2>2, BusTypes DEF Bits
  <2>4. /\ pc' = "rxlast" /\ UNCHANGED <<wire, mode, ops, settled, frame, result>>
        /\ Current' = Current /\ \A k : Upto(k)' = Upto(k)
        /\ Final' <=> Final
        /\ Reads' <=> Reads
    BY <2>1, GotoFacts
  <2>5. PlaceInv'
    BY <2>1, <2>4 DEF PlaceInv
  <2>6. NoError' <=> NoError
    BY <2>3 DEF NoError
  <2>7. Flowing' = Flowing
    BY <2>1, <2>3, <2>4, FlowingStays
  <2>8. PICK k \in Nat : k = Current.n - 1
    BY <2>2
  <2>9. (Current.n - 1)' = k /\ k # Current.n /\ k + 0 = k
    BY <2>2, <2>4, <2>8
  <2>10. ASSUME settled, NoError PROVE WriteInv' /\ ReadInv'
    <3>1. Quietly /\ reg.ack /\ phase = "rx" /\ Flowing = Upto(k)
      BY <2>1, <2>8, <2>10 DEF LinkInv, ReadInv
    <3>2. Received(k)'
      BY <2>1, <2>4, <2>7, <2>9, <3>1 DEF Received, Conforms
    <3>3. Rx' = 0
      BY <2>3, <3>1 DEF Rx, Quietly
    <3>4. Received(Current.n - 1 + Rx)'
      BY <2>9, <3>2, <3>3
    <3>5. Stops(frame = Len(ops))' /\ (reg'.ack <=> ~Final)
      BY <2>3, <2>4, <3>1 DEF Stops, Quietly
    <3> QED
      BY <2>1, <2>4, <3>4, <3>5 DEF WriteInv, ReadInv
  <2> QED
    BY <2>1, <2>5, <2>6, <2>10, StepLink
<1>2. CASE recv_last
  <2>1. /\ pc = "rxlast" /\ reg.rxne /\ Reads /\ Goto("done") /\ UNCHANGED <<phase, shift, left>>
        /\ reg' = Clear({"rxne"})
    BY <1>2 DEF recv_last, Reaches, Awaited, PlaceInv
  <2>2. Current.n \in Nat /\ Current.n - 1 + 1 = Current.n
    BY <2>1, FrameFacts
  <2>3. /\ reg'.ack <=> reg.ack
        /\ reg'.stop <=> reg.stop
        /\ reg'.dr <=> reg.dr
        /\ reg'.af <=> reg.af
        /\ reg'.arlo <=> reg.arlo
        /\ ~reg'.rxne
    BY <2>1, BusTypes, ClearBits DEF Bits
  <2>4. /\ pc' = "done" /\ UNCHANGED <<wire, mode, ops, settled, frame, result>>
        /\ Current' = Current /\ \A k : Upto(k)' = Upto(k)
        /\ Final' <=> Final
        /\ Reads' <=> Reads
    BY <2>1, GotoFacts
  <2>5. PlaceInv'
    BY <2>1, <2>4 DEF PlaceInv
  <2>6. NoError' <=> NoError
    BY <2>3 DEF NoError
  <2>7. Flowing' = Flowing
    BY <2>1, <2>3, <2>4, FlowingStays
  <2>8. ASSUME settled, NoError PROVE WriteInv' /\ ReadInv'
    <3>1. Stops(frame = Len(ops)) /\ (reg.ack <=> ~Final) /\ Received(Current.n - 1 + Rx)
      BY <2>1, <2>8 DEF LinkInv, ReadInv
    <3>2. Received(Current.n)
      BY <2>1, <2>2, <3>1 DEF Rx
    <3>3. Received(Current.n)'
      BY <2>1, <2>4, <2>7, <3>2 DEF Received, Conforms
    <3>4. Stops(frame = Len(ops))'
      BY <2>1, <2>3, <2>4, <3>1 DEF Stops
    <3> QED
      BY <2>1, <2>3, <2>4, <3>1, <3>3, <3>4 DEF WriteInv, ReadInv
  <2> QED
    BY <2>1, <2>5, <2>6, <2>8, StepLink
<1> QED
  BY <1>1, <1>2

LEMMA NextFrameLink ==
  ASSUME Inv, ErrorInv, PlaceInv, LinkInv, end_frame
  PROVE  LinkInv' /\ PlaceInv'
<1>1. /\ pc = "done" /\ UNCHANGED <<phase, shift, wire, ops, settled>> /\ reg' = on_drop(reg)
  BY DEF end_frame, Return, busVars, callVars
<1>2. /\ reg'.start <=> reg.start
      /\ reg'.stop <=> reg.stop
      /\ reg'.rxne <=> reg.rxne
      /\ reg'.ack <=> reg.ack
      /\ reg'.dr <=> reg.dr
      /\ reg'.af <=> reg.af
      /\ reg'.arlo <=> reg.arlo
  <2>1. \A b \in Bits \ {"dmaen", "iterren", "itevten"} : reg'[b] <=> reg[b]
    BY <1>1, BusTypes DEF on_drop, Bits
  <2> QED
    BY <2>1 DEF Bits
<1>3. /\ ops \in Seq(Op) /\ frame \in 1 .. Len(ops) /\ Len(ops) \in Nat
      /\ Current.kind \in {"read", "write"} /\ (frame = Len(ops) => Final)
  BY <1>1, FrameFacts
<1>4. Before(frame + 1) = Upto(Current.n)
  BY <1>3, UptoAll
<1>5. Flowing' = Flowing
  BY <1>1, <1>2, FlowingStays
<1>6. NoError' <=> NoError
  BY <1>2 DEF NoError
<1>7. ASSUME settled, NoError
      PROVE  /\ ~reg.rxne /\ Stops(frame = Len(ops)) /\ Conforms(Before(frame + 1))
             /\ ~Reads => phase = "tx" \/ (phase = "off" /\ frame = Len(ops))
             /\ Reads => (~Final => reg.ack) /\ Received(Current.n)
  BY <1>1, <1>4, <1>7 DEF LinkInv, WriteInv, ReadInv, Received
<1>8. CASE frame = Len(ops)
  <2>1. pc' = "idle" /\ UNCHANGED <<frame>>
    BY <1>8 DEF end_frame, Return
  <2>2. PlaceInv'
    BY <2>1 DEF PlaceInv
  <2>3. SUFFICES ASSUME settled PROVE OkInv'
    BY <1>1, <2>1, <2>2 DEF LinkInv
  <2>4. NoError /\ ~reg.start
    BY <1>1, <1>8 DEF ErrorInv, OwnInv, Past
  <2>5. Conforms(Before(Len(ops) + 1)) /\ phase \in {"tx", "hold", "off"}
    BY <1>3, <1>7, <1>8, <2>3, <2>4 DEF Received
  <2>6. Before(Len(ops) + 1)' = Before(Len(ops) + 1)
    BY <1>1 DEF Before
  <2> QED
    BY <1>1, <1>2, <1>5, <2>4, <2>5, <2>6 DEF OkInv, Conforms
<1>9. CASE frame # Len(ops)
  <2>1. pc' = "frame" /\ frame' = frame + 1
    BY <1>9 DEF end_frame
  <2>2. PlaceInv'
    BY <2>1 DEF PlaceInv
  <2>3. SUFFICES ASSUME settled, NoError PROVE StartInv' /\ WriteInv' /\ ReadInv'
    BY <1>1, <1>6, <2>1, <2>2 DEF LinkInv, OkInv
  <2>4. frame' - 1 = frame /\ frame' # 1 /\ frame + 1 \in 1 .. Len(ops)
    BY <1>3, <1>9, <2>1
  <2>5. ops[frame + 1] \in Op
    BY <1>3, <2>4
  <2>6. Quietly' /\ phase # "off" /\ (~Reads => phase = "tx")
    BY <1>2, <1>7, <1>9, <2>3 DEF Quietly, Stops, Received
  <2>7. Flowing' = Before(frame + 1)
    BY <1>5, <1>7, <2>3, <2>6 DEF Conforms
  <2>8. Before(frame)' = Before(frame + 1)
    BY <1>1, <2>1 DEF Before
  <2>9. Reads' <=> ops[frame + 1].kind = "read"
    BY <1>1, <2>1 DEF Reads, Current
  <2>10. Reads => (Final <=> ~Reads')
    BY <1>9, <2>5, <2>9 DEF Final, Reads, Op
  <2>11. Reads => phase = IF Reads' THEN "rx" ELSE "hold"
    BY <1>7, <2>3, <2>6, <2>10 DEF Received
  <2>12. ops'[frame' - 1].kind = "write" <=> ~Reads
    BY <1>1, <1>3, <2>4 DEF Reads, Current
  <2>13. phase' = IF ops'[frame' - 1].kind = "write" THEN "tx" ELSE IF Reads' THEN "rx" ELSE "hold"
    BY <1>1, <2>6, <2>11, <2>12
  <2>14. phase' = "rx" => reg'.ack
    BY <1>1, <1>2, <1>7, <2>3, <2>6, <2>10, <2>11
  <2>15. Between'
    BY <2>6, <2>7, <2>8, <2>13, <2>14 DEF Between
  <2> QED
    BY <2>1, <2>4, <2>15 DEF StartInv, WriteInv, ReadInv
<1> QED
  BY <1>8, <1>9

LEMMA TransactionLink ==
  ASSUME NEW s, NEW m, transaction(s, m)
  PROVE  LinkInv' /\ PlaceInv'
<1>1. /\ (pc' = "idle" /\ result' = "overrun") \/ pc' = "frame"
      /\ frame' = 1 /\ settled' = Settled /\ UNCHANGED reg
  BY DEF transaction
<1>2. PlaceInv'
  BY <1>1 DEF PlaceInv
<1>3. CASE pc' = "frame"
  <2>1. settled' => ~reg'.rxne
    BY <1>1 DEF Settled
  <2> QED
    BY <1>1, <1>2, <1>3, <2>1 DEF LinkInv, OkInv, StartInv, WriteInv, ReadInv
<1>4. CASE pc' = "idle" /\ result' = "overrun"
  BY <1>2, <1>4 DEF LinkInv, OkInv
<1> QED
  BY <1>1, <1>3, <1>4

\* Steps that leave the driver where it is leave it at its place.
LEMMA PlaceStays ==
  ASSUME PlaceInv, UNCHANGED <<pc, ops, frame, left, dma>>
  PROVE  PlaceInv'
BY Unmoved DEF PlaceInv

LEMMA LinkInit == Init => PlaceInv /\ LinkInv
BY DEF Init, PlaceInv, LinkInv, OkInv

LEMMA LinkStep ==
  ASSUME Prompt
  PROVE  Inv /\ ErrorInv /\ PlaceInv /\ LinkInv /\ [Next]_vars => PlaceInv' /\ LinkInv'
<1> SUFFICES ASSUME Inv, ErrorInv, PlaceInv, LinkInv, [Next]_vars PROVE PlaceInv' /\ LinkInv'
  OBVIOUS
<1>1. CASE GenerateStart \/ GenerateStop \/ AddressSent \/ ByteSent \/ ByteReceived \/ LoseArbitration
  <2>1. LinkInv'
    BY <1>1, StartLink, StopLink, AddressLink, ByteLink, ReceiveLink
  <2>2. UNCHANGED <<pc, ops, frame, left, dma>>
    BY <1>1 DEF GenerateStart, GenerateStop, AddressSent, ByteSent, ByteReceived, LoseArbitration, callVars
  <2> QED
    BY <2>1, <2>2, PlaceStays
<1>2. CASE DmaMoves
  BY <1>2, DmaLink
<1>3. CASE \/ UNCHANGED vars \/ on_interrupt \/ await_pends \/ enable_interrupts
           \/ OtherMaster(TRUE) \/ OtherMaster(FALSE)
  <2>1. LinkInv'
    BY <1>3, LinkStutters
  <2>2. UNCHANGED <<pc, ops, frame, left, dma>>
    BY <1>3 DEF vars, callVars, on_interrupt, await_pends, enable_interrupts, OtherMaster
  <2> QED
    BY <2>1, <2>2, PlaceStays
<1>4. CASE await_fails \/ timeout \/ cancel
  <2>1. CASE await_fails
    <3>1. check_and_clear_error_flags.error # "ok"
      BY DEF check_and_clear_error_flags
    <3> QED
      BY <2>1, <3>1, ReturnLink DEF await_fails
  <2>2. CASE timeout
    BY <2>2, ReturnLink DEF timeout
  <2>3. CASE cancel
    BY <2>3, ReturnLink DEF cancel
  <2> QED
    BY <1>4, <2>1, <2>2, <2>3
<1>5. CASE begin_frame \/ start_generated \/ address_acknowledged \/ end_frame
  BY <1>5, BeginLink, GeneratedLink, AcknowledgedLink, NextFrameLink
<1>6. CASE start_dma \/ dma_complete \/ transfer_finished \/ write_stop
  BY <1>6, StartDmaLink, DmaCompleteLink, StopsLink
<1>7. CASE start_loop \/ send_byte \/ byte_transferred \/ recv_byte \/ prepare_last \/ recv_last
  BY <1>7, StartLoopLink, SendLink, TransferredLink, RecvLink, LastLink
<1>8. ASSUME NEW s \in SeqOf(Op, MaxOps) \ {<<>>}, NEW m \in {"blocking", "async"}, transaction(s, m)
      PROVE  PlaceInv' /\ LinkInv'
  BY <1>8, TransactionLink
<1> QED
  BY <1>1, <1>2, <1>3, <1>4, <1>5, <1>6, <1>7, <1>8 DEF Next, Controller, Driver

-------------------------------------------------------------------------------
(* The theorems. *)

\* The driver's and the controller's state keep their types: the DMA channel never
\* moves a byte too many and the frame never leaves the operations.
THEOREM TypeCorrect == Spec => []TypeOK
  BY InvAlways, PTL DEF Inv

\* OnDrop of the asynchronous frames, "disable transfer when an error occurs or
\* future is canceled": however a transaction ended, no interrupt and no DMA request
\* is left enabled between transactions.
THEOREM AlwaysQuietWhenIdle == Spec => []QuietWhenIdle
<1>1. Inv => QuietWhenIdle
  BY DEF Inv, Quiet, QuietWhenIdle
<1> QED
  BY <1>1, InvAlways, PTL

\* poll_fn's closures check, enable the interrupts and only then wait: an
\* asynchronous wait that sleeps un-woken while its flag or an error is up has an
\* interrupt pending that will wake it, whatever the bus does between the steps.
THEOREM WakeupNeverLost == Spec => []NoLostWakeup
<1>1. ASSUME Inv, polling = "parked", ~woken, Awaited[pc] \/ Failing PROVE InterruptPending
  <2>1. reg.iterren /\ reg.itevten
    BY <1>1 DEF Inv, Asleep
  <2>2. CASE Failing
    BY <2>1, <2>2 DEF Failing, check_and_clear_error_flags, InterruptPending
  <2>3. CASE Awaited[pc]
    <3>1. pc \in {"sb", "addr", "end", "dma"}
      BY <1>1 DEF Inv, Waits, Flags, BlockingOnly
    <3>2. pc # "dma"
      BY <1>1, <2>3, DmaAwaited DEF Inv, Asleep
    <3>3. (pc = "sb" /\ reg.sb) \/ (pc = "addr" /\ reg.addr) \/ (pc = "end" /\ reg.btf)
      BY <2>3, <3>1, <3>2 DEF Awaited
    <3> QED
      BY <2>1, <3>3 DEF InterruptPending
  <2> QED
    BY <1>1, <2>2, <2>3
<1>2. Inv => NoLostWakeup
  BY <1>1 DEF NoLostWakeup
<1> QED
  BY <1>2, InvAlways, PTL

\* check_and_clear_error_flags and start_generated's test: a transaction begun on a settled
\* bus that reports "ACK not received" or "Arbitration lost" saw that happen on
\* the wire, for every list of operations and whatever earlier ones left behind.
THEOREM ErrorsAlwaysReal == Spec => []ErrorIsReal
<1>1. ErrorInv => ErrorIsReal
  BY DEF ErrorInv, SettledInv, Seen, ErrorIsReal
<1>2. Spec => []ErrorInv
  BY ErrorInvInit, ErrorInvStep, InvAlways, PTL DEF Spec
<1> QED
  BY <1>1, <1>2, PTL

\* "the right start/stop/(N)ACK conditions on the wire": a transaction that was begun on
\* a settled bus and succeeded has put exactly what the contract names on it, for every
\* list of operations of any length, as long as the driver keeps up with the bus.
THEOREM WireAlwaysConforms ==
  ASSUME Prompt
  PROVE  Spec => []WireContract
<1>1. Inv /\ ErrorInv /\ PlaceInv /\ LinkInv /\ [Next]_vars => PlaceInv' /\ LinkInv'
  BY LinkStep
<1>2. Spec => []ErrorInv
  BY ErrorInvInit, ErrorInvStep, InvAlways, PTL DEF Spec
<1>3. Spec => []LinkInv
  BY <1>1, <1>2, LinkInit, InvAlways, PTL DEF Spec
<1>4. ASSUME Inv, LinkInv, pc = "idle", result = "ok", settled, phase = "off"
      PROVE  wire = Contract(ops)
  <2>1. wire = Append(Before(Len(ops) + 1), "P")
    BY <1>4 DEF LinkInv, OkInv, Conforms, Flowing
  <2> QED
    BY <1>4, <2>1, ContractIs DEF Inv, TypeOK
<1>5. Inv /\ LinkInv => WireContract
  BY <1>4 DEF WireContract
<1> QED
  BY <1>3, <1>5, InvAlways, PTL

================================================================================
