-------------------------------- MODULE Drivers --------------------------------
(***************************************************************************)
(* The life of the drivers: what their constructors switch on, what a      *)
(* constructor that fails and what Drop switch off again.  One peripheral  *)
(* of each kind; drivers come, share pins and clocks, and go in any order. *)
(*                                                                         *)
(* A constructor runs to its end without another task of the executor in   *)
(* between, but the pins are outside the chip: they are configured one     *)
(* register write at a time.                                               *)
(***************************************************************************)
EXTENDS Gpio, Rcc

CONSTANTS
  Pin,          \* the pins
  PinOf,        \* the pin of each role
  MaxCalls      \* bound: constructors and reconfigurations

Roles == {"tx", "rx", "cts", "rts", "de", "hd", "hd_od", "scl", "sda",
          "ch1", "ch2", "ch1n", "mco"}

ASSUME DriversAssumption ==
  /\ MaxCalls \in Nat
  /\ PinOf \in [Roles -> Pin]
  /\ Function = Roles
  /\ Peripheral = {"USART", "I2C", "ADC", "TIM", "TIMDRV", "DBGMCU", "FLASH"}

VARIABLES
  pin,      \* registers of every pin
  todo,     \* register writes the task is about to make, to one pin
  untouched, \* roles whose pins the constructor has yet to configure
  doing,    \* the constructor that runs
  live,     \* the driver that exists for each part, or none
  owner,    \* who holds each pin
  wants,    \* what the holder of the pin asked it to do
  handed,   \* pins left connected by a driver without Drop for its pins
  rcc,      \* clocks
  refs,     \* tx_rx_refcount of the plain and of the buffered UART state
  uart,     \* UE, the buffers in place, and whether set_config has failed
  irq,      \* interrupts enabled in the NVIC
  calls

pins == <<pin, todo, untouched, owner, wants, handed>>
vars == <<pins, doing, live, rcc, refs, uart, irq, calls>>

-------------------------------------------------------------------------------
(* The constructors: the parts they make, and the pins of each part.        *)

Merge(f, g) ==
  [k \in DOMAIN f \cup DOMAIN g |-> IF k \in DOMAIN f THEN f[k] ELSE g[k]]

TxKinds ==
  [uart_tx         |-> [tx |-> {"tx"}],
   uart_tx_cts     |-> [tx |-> {"tx", "cts"}]]

RxKinds ==
  [uart_rx         |-> [rx |-> {"rx"}],
   uart_rx_rts     |-> [rx |-> {"rx", "rts"}]]

BidirectionalKinds ==
  [uart            |-> [tx |-> {"tx"},        rx |-> {"rx"}],
   uart_rtscts     |-> [tx |-> {"tx", "cts"}, rx |-> {"rx", "rts"}]]

\* One pin, push-pull or open drain.
HalfDuplexKinds ==
  [half_duplex     |-> [tx |-> {"hd"},        rx |-> {}],
   half_duplex_od  |-> [tx |-> {"hd_od"},     rx |-> {}]]

UartKinds == Merge(Merge(TxKinds, RxKinds), Merge(BidirectionalKinds, HalfDuplexKinds))

BufferedKinds ==
  [buffered        |-> [tx |-> {"tx"},        rx |-> {"rx"}],
   buffered_rtscts |-> [tx |-> {"tx", "cts"}, rx |-> {"rx", "rts"}],
   buffered_de     |-> [tx |-> {"tx", "de"},  rx |-> {"rx"}],
   buffered_rts    |-> [tx |-> {"tx"},        rx |-> {"rx", "rts"}]]

SimplePwmKinds == [simple_pwm |-> [timer |-> {"ch1"}]]
ComplementaryPwmKinds == [complementary_pwm |-> [timer |-> {"ch1", "ch1n"}]]
InputCaptureKinds == [input_capture |-> [timer |-> {"ch1"}]]
PwmInputKinds == [pwm_input |-> [timer |-> {"ch1"}]]
QeiKinds == [qei |-> [timer |-> {"ch1", "ch2"}]]

TimerKinds == Merge(Merge(SimplePwmKinds, ComplementaryPwmKinds),
                    Merge(InputCaptureKinds, Merge(PwmInputKinds, QeiKinds)))

I2cKinds == [i2c |-> [i2c |-> {"scl", "sda"}]]
AdcKinds == [adc |-> [adc |-> {}]]
McoKinds == [mco |-> [mco |-> {"mco"}]]

OtherKinds == Merge(I2cKinds, Merge(AdcKinds, TimerKinds))

Kinds == Merge(Merge(UartKinds, BufferedKinds), Merge(OtherKinds, McoKinds))

Parts == {"tx", "rx", "i2c", "adc", "timer", "mco"}
RolesOf(kind) == UNION {Kinds[kind][h] : h \in DOMAIN Kinds[kind]}

PeripheralOf ==
  [tx |-> "USART", rx |-> "USART", i2c |-> "I2C", adc |-> "ADC", timer |-> "TIM",
   mco |-> "DBGMCU"]

\* The parts that hold the peripheral, whose singleton a constructor takes.
Holding(p) == {h \in Parts : live[h] # "none" /\ PeripheralOf[h] = p}

AfOf(role) ==
  CASE role \in {"scl", "sda"} -> AfTypeOutput("OPENDRAIN", "FLOATING")
    [] role = "hd_od" -> AfTypeOutput("OPENDRAIN", "PULLUP")
    [] role \in {"rx", "cts"} -> AfTypeInput("FLOATING")
    [] OTHER -> AfTypeOutput("PUSHPULL", "FLOATING")

new_pin(kind, role) ==
  (IF role \in {"ch1", "ch2", "ch1n"} /\ kind \notin {"input_capture", "pwm_input"}
   THEN <<set_level("low")>> ELSE <<>>)
  \o set_as_af(role, AfOf(role))

\* Each write together with the pin it goes to.
On(p, writes) == [i \in 1 .. Len(writes) |-> [pin |-> p, w |-> writes[i]]]

Disconnect(ps) == [p \in Pin |-> IF p \in ps
                                 THEN Written(pin[p], set_as_disconnected)
                                 ELSE pin[p]]

\* The pins of the part, when it is dropped.
PinsOf(h) == {p \in Pin : owner[p] = h}
Free(ps, h) == /\ owner' = [p \in Pin |-> IF p \in ps THEN h ELSE owner[p]]
               /\ wants' = [p \in Pin |-> IF p \in ps THEN Nothing ELSE wants[p]]

-------------------------------------------------------------------------------
Idle == todo = <<>> /\ doing = "none"

\* The writes to one pin and, after them, those to the next.
Continues(kind, writes, roles) ==
  IF writes # <<>> \/ roles = {}
  THEN todo' = writes /\ untouched' = roles
  ELSE LET r == CHOOSE r \in roles : TRUE IN
       todo' = On(PinOf[r], new_pin(kind, r)) /\ untouched' = roles \ {r}

begin(kind) ==
  /\ Idle /\ calls < MaxCalls
  /\ \A h \in DOMAIN Kinds[kind] : Holding(PeripheralOf[h]) = {}
  /\ \A r \in RolesOf(kind) : owner[PinOf[r]] = "free"
  /\ \A r, s \in RolesOf(kind) : r # s => PinOf[r] # PinOf[s]
  /\ doing' = kind
  /\ Continues(kind, <<>>, RolesOf(kind))
  /\ owner' = [p \in Pin |->
       IF \E r \in RolesOf(kind) : PinOf[r] = p
       THEN CHOOSE h \in DOMAIN Kinds[kind] : \E r \in Kinds[kind][h] : PinOf[r] = p
       ELSE owner[p]]
  /\ wants' = [p \in Pin |->
       IF \E r \in RolesOf(kind) : PinOf[r] = p
       THEN LET r == CHOOSE r \in RolesOf(kind) : PinOf[r] = p IN <<r, AfOf(r).ot>>
       ELSE wants[p]]
  /\ calls' = calls + 1
  /\ UNCHANGED <<pin, handed, live, rcc, refs, uart, irq>>

\* One register write; the pin is in order once the last one is done.
write_pin ==
  /\ todo # <<>>
  /\ LET step == Head(todo) IN
     /\ pin' = [pin EXCEPT ![step.pin] = Written(@, step.w)]
     /\ handed' = IF Tail(todo) = <<>> THEN handed \ {step.pin} ELSE handed
  /\ Continues(doing, Tail(todo), untouched)
  /\ UNCHANGED <<owner, wants, doing, live, rcc, refs, uart, irq, calls>>

Alive(kind, as) ==
  live' = [h \in Parts |-> IF h \in DOMAIN Kinds[kind] THEN as ELSE live[h]]

Configured(p) == [enable_and_reset(rcc, p) EXCEPT !.fresh = @ \ {p}]

-------------------------------------------------------------------------------
(* UART, plain and buffered.                                               *)

UartRefs(kind) == Cardinality(DOMAIN Kinds[kind])

uart_configured ==
  /\ todo = <<>> /\ doing \in DOMAIN UartKinds \cup DOMAIN BufferedKinds
  /\ LET buffered == doing \in DOMAIN BufferedKinds IN
     /\ refs' = [refs EXCEPT ![IF buffered THEN "buffered" ELSE "plain"] = UartRefs(doing)]
     /\ uart' = [ue |-> TRUE, failed |-> FALSE,
                 bufs |-> IF buffered THEN {"tx", "rx"} ELSE uart.bufs]
     /\ Alive(doing, IF buffered THEN "buffered" ELSE "plain")
  /\ rcc' = Configured("USART")
  /\ irq' = irq \cup (IF "rx" \in DOMAIN Kinds[doing] THEN {"USART"} ELSE {})
  /\ doing' = "none"
  /\ UNCHANGED <<pins, calls>>

\* configure() refuses the baud rate: the halves built so far are dropped.
uart_refused ==
  /\ todo = <<>> /\ doing \in DOMAIN UartKinds \cup DOMAIN BufferedKinds
  /\ LET buffered == doing \in DOMAIN BufferedKinds
         ps == {PinOf[r] : r \in RolesOf(doing)} IN
     /\ refs' = [refs EXCEPT ![IF buffered THEN "buffered" ELSE "plain"] =
                               UartRefs(doing) - Cardinality(DOMAIN Kinds[doing])]
     /\ uart' = [ue |-> FALSE, failed |-> FALSE, bufs |-> {}]
     /\ rcc' = disable(Configured("USART"), "USART")
     /\ irq' = IF buffered THEN irq \ {"USART"} ELSE irq
     /\ pin' = Disconnect(ps)
     /\ Free(ps, "free")
  /\ doing' = "none"
  /\ UNCHANGED <<todo, untouched, handed, live, calls>>

\* Mutant: the first buffered half dropped switches the interrupt off.
buffered_inactive_at_once(h) == TRUE

buffered_inactive(h) == uart.bufs \ {h} = {}

\* Mutant: the clock goes with the first half.
last_drop_first(state) == refs[state] >= 1

last_drop(state) == refs[state] = 1

drop_tx_rx(h) ==
  /\ Idle /\ h \in {"tx", "rx"} /\ live[h] # "none"
  /\ LET state == IF live[h] = "buffered" THEN "buffered" ELSE "plain" IN
     /\ refs' = [refs EXCEPT ![state] = @ - 1]
     /\ rcc' = IF last_drop(state) THEN disable(rcc, "USART") ELSE rcc
  /\ IF live[h] = "buffered"
     THEN /\ uart' = [uart EXCEPT !.bufs = @ \ {h}]
          /\ irq' = IF buffered_inactive(h) THEN irq \ {"USART"} ELSE irq
     ELSE UNCHANGED <<uart, irq>>
  /\ pin' = Disconnect(PinsOf(h))
  /\ Free(PinsOf(h), "free")
  /\ live' = [live EXCEPT ![h] = "none"]
  /\ UNCHANGED <<todo, untouched, handed, doing, calls>>

\* The ring-buffered receiver takes the place of the plain one.
into_ring_buffered(h) ==
  /\ Idle /\ h \in {"rx", "adc"} /\ live[h] = "plain"
  /\ live' = [live EXCEPT ![h] = "ring"]
  /\ UNCHANGED <<pins, doing, rcc, refs, uart, irq, calls>>

\* A refused configuration leaves the UART and its interrupt off.
set_config(h) ==
  /\ Idle /\ h \in {"tx", "rx"} /\ live[h] \in {"plain", "buffered", "ring"}
  /\ calls < MaxCalls /\ calls' = calls + 1
  /\ \/ /\ uart' = [uart EXCEPT !.ue = TRUE, !.failed = FALSE]
        /\ irq' = irq \cup {"USART"}
     \/ /\ uart' = [uart EXCEPT !.ue = FALSE, !.failed = TRUE]
        /\ irq' = irq \ {"USART"}
  /\ UNCHANGED <<pins, doing, live, rcc, refs>>

-------------------------------------------------------------------------------
(* I2C, ADC, timers and the clock output.                                  *)

InterruptOf(kind) ==
  CASE kind = "i2c" -> {"I2C"} [] kind = "adc" -> {"ADC"}
    [] kind = "input_capture" -> {"TIM"} [] OTHER -> {}

enable_and_init ==
  /\ todo = <<>>
  /\ doing \in DOMAIN OtherKinds
  /\ rcc' = Configured(PeripheralOf[CHOOSE h \in DOMAIN Kinds[doing] : TRUE])
  /\ irq' = irq \cup InterruptOf(doing)
  /\ Alive(doing, IF doing = "simple_pwm" THEN doing ELSE "plain")
  /\ doing' = "none"
  /\ UNCHANGED <<pins, refs, uart, calls>>

mco_started ==
  /\ todo = <<>> /\ doing = "mco"
  /\ Alive("mco", "plain")
  /\ doing' = "none"
  /\ UNCHANGED <<pins, rcc, refs, uart, irq, calls>>

\* The ADC makes the pin of a channel analog and gives it back.
adc_setup(p) ==
  /\ Idle /\ live.adc = "plain" /\ owner[p] = "free"
  /\ pin' = [pin EXCEPT ![p] = Written(@, set_as_analog)]
  /\ handed' = handed \ {p}
  /\ UNCHANGED <<todo, untouched, owner, wants, doing, live, rcc, refs, uart, irq, calls>>

\* Of these drivers only I2C disconnects its pins.
drop(h) ==
  /\ Idle /\ h \in {"i2c", "adc", "timer", "mco"} /\ live[h] \notin {"none", "leaked"}
  /\ rcc' = IF h = "mco" THEN rcc ELSE disable(rcc, PeripheralOf[h])
  /\ IF h = "i2c"
     THEN pin' = Disconnect(PinsOf(h)) /\ handed' = handed
     ELSE pin' = pin /\ handed' = handed \cup PinsOf(h)
  /\ Free(PinsOf(h), "free")
  /\ live' = [live EXCEPT ![h] = "none"]
  /\ UNCHANGED <<todo, untouched, doing, refs, uart, irq, calls>>

\* The channels of a split PWM keep the timer running for ever.
split_pwm ==
  /\ Idle /\ live.timer = "simple_pwm"
  /\ live' = [live EXCEPT !.timer = "leaked"]
  /\ UNCHANGED <<pins, doing, rcc, refs, uart, irq, calls>>

-------------------------------------------------------------------------------
(* GPIO drivers.                                                           *)

GpioConfig ==
  {[writes |-> Input(pull), wants |-> Nothing] : pull \in {"FLOATING", "PULLUP"}}
  \cup {[writes |-> Output(l), wants |-> DrivesLevel(l, "PUSHPULL")] : l \in {"low", "high"}}
  \cup {[writes |-> OutputOpenDrain(l, "PULLUP"),
         wants |-> DrivesLevel(l, "OPENDRAIN")] : l \in {"low", "high"}}

gpio_new(p) ==
  /\ Idle /\ owner[p] = "free" /\ calls < MaxCalls /\ calls' = calls + 1
  /\ \E c \in GpioConfig :
       /\ todo' = On(p, c.writes)
       /\ wants' = [wants EXCEPT ![p] = c.wants]
  /\ owner' = [owner EXCEPT ![p] = "gpio"]
  /\ UNCHANGED <<pin, untouched, handed, doing, live, rcc, refs, uart, irq>>

\* Flex, Output and OutputOpenDrain: BSRR and BRR are written at once.
set_output(p) ==
  /\ Idle /\ owner[p] = "gpio" /\ pin[p].moder = "OUTPUT"
  /\ \E level \in {"low", "high"} :
       pin' = [pin EXCEPT ![p] = Written(@, set_level(level))]
  /\ wants' = [wants EXCEPT ![p] = Drives(pin'[p])]
  /\ UNCHANGED <<todo, untouched, owner, handed, doing, live, rcc, refs, uart, irq, calls>>

gpio_drop(p) ==
  /\ Idle /\ owner[p] = "gpio"
  /\ pin' = Disconnect({p})
  /\ Free({p}, "free")
  /\ UNCHANGED <<todo, untouched, handed, doing, live, rcc, refs, uart, irq, calls>>

-------------------------------------------------------------------------------
\* py32_hal::init has enabled DBGMCU, the time driver's timer and FLASH; the
\* time driver's timer is not among the peripherals a driver can take.
Init ==
  /\ pin = [p \in Pin |-> Disconnected]
  /\ todo = <<>> /\ untouched = {} /\ doing = "none"
  /\ live = [h \in Parts |-> "none"]
  /\ owner = [p \in Pin |-> "free"]
  /\ wants = [p \in Pin |-> Nothing]
  /\ handed = {}
  /\ rcc = [enable_and_reset(enable_and_reset(enable_and_reset(RccInit, "DBGMCU"), "TIMDRV"),
                              "FLASH")
              EXCEPT !.fresh = @ \ {"DBGMCU", "TIMDRV", "FLASH"}]
  /\ refs = [plain |-> 0, buffered |-> 0]
  /\ uart = [ue |-> FALSE, failed |-> FALSE, bufs |-> {}]
  /\ irq = {}
  /\ calls = 0

Next ==
  \/ \E kind \in DOMAIN Kinds : begin(kind)
  \/ write_pin
  \/ uart_configured \/ uart_refused \/ enable_and_init \/ mco_started \/ split_pwm
  \/ \E h \in Parts : drop_tx_rx(h) \/ into_ring_buffered(h) \/ set_config(h) \/ drop(h)
  \/ \E p \in Pin : adc_setup(p) \/ gpio_new(p) \/ set_output(p) \/ gpio_drop(p)

Spec == Init /\ [][Next]_vars

-------------------------------------------------------------------------------
\* Whatever register write the task is at, a pin drives nothing or what its
\* holder asked for: never a wrong level, another peripheral's function, or
\* push-pull where open drain was asked.  Pins taken over from a timer or clock
\* output, which leave them connected, are excepted until they are configured.
PinsWellDriven ==
  \A p \in Pin \ handed :
    /\ Drives(pin[p]) \in {Nothing, wants[p]}
    /\ todo = <<>> => Drives(pin[p]) = wants[p]

\* While a driver or a half of it exists its clock runs, and nobody has reset
\* its registers since they were written; likewise for the time driver.
ClockedWhileUsed ==
  \A p \in {PeripheralOf[h] : h \in {g \in Parts : live[g] # "none"}} \cup {"TIMDRV"} :
    EnableBit[p] \in rcc.en /\ p \notin rcc.fresh

\* Between calls, the clocks that run are those of the drivers that exist and of
\* the parts enabled at start: a dropped driver and a failed constructor leave
\* no clock, reference or buffer behind.  A split PWM is kept on purpose.
ReleasedWhenDropped ==
  Idle =>
    LET used == {p \in Peripheral : Holding(p) # {}} \cup {"DBGMCU", "TIMDRV", "FLASH"} IN
    /\ rcc.en = {EnableBit[p] : p \in used}
    /\ refs.plain + refs.buffered = Cardinality(Holding("USART"))
    /\ uart.bufs = {h \in Parts : live[h] = "buffered"}

\* A receiver, and the transmitting half of a buffered UART, is served by the
\* interrupt it waits for as long as it exists and the last set_config succeeded.
InterruptServed ==
  ~uart.failed =>
    /\ live.rx # "none" => uart.ue /\ "USART" \in irq
    /\ live.tx = "buffered" => uart.ue /\ "USART" \in irq

================================================================================
