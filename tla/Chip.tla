---------------------------------- MODULE Chip ---------------------------------
(***************************************************************************)
(* A driver is set up after rcc::init: it computes its dividers from the   *)
(* frozen frequency, and the hardware divides the clock it really has.     *)
(***************************************************************************)
EXTENDS ClockTree, Rates

CONSTANTS
  Bauds, Speeds, PwmFreqs, TickFreqs,   \* rates a user may ask for
  DeadTimes                             \* dead times, in ticks

ASSUME ChipAssumption ==
  Bauds \cup Speeds \cup PwmFreqs \cup TickFreqs \cup DeadTimes \subseteq Nat \ {0}

VARIABLE setting    \* the dividers of the driver that was set up

chipVars == <<clockVars, setting>>

Unset == [kind |-> "none"]

Sets(kind, want, regs) ==
  /\ step = "done" /\ setting = Unset
  /\ setting' = [kind |-> kind, want |-> want, regs |-> regs]
  /\ UNCHANGED clockVars

usart_configure(baud) == Sets("baud", baud, configure_brr(baud, freqs.pclk1))

i2c_set_config(speed) == Sets("scl", speed, Timings(freqs.pclk1, speed))

timer_set_frequency(bits, f, center) ==
  Sets("period", [bits |-> bits, f |-> f, center |-> center],
       pwm_set_frequency(bits, freqs.pclk1_tim, f, center))

timer_set_tick_freq(f) == Sets("tick", f, set_tick_freq(freqs.pclk1_tim, f))

pwm_set_duty_percent(f, percent) ==
  LET max == max_duty_cycle(set_frequency(16, freqs.pclk1_tim, f)) IN
  Sets("duty", percent,
       IF max.ok
       THEN [ok |-> TRUE, max |-> max.max,
             duty |-> duty_cycle_fraction(percent, 100, max.max)]
       ELSE Refused)

adc_new == chip = "f072" /\ Sets("adc", None, Prescaler(freqs.pclk1))

set_dead_time(value) ==
  LET s == compute_dead_time_value(value) IN
  Sets("dead_time", value, [ok |-> TRUE, ckd |-> s.ckd, bits |-> s.bits])

Percents == {0, 33, 50, 100}

ChipInit == ClockInit /\ setting = Unset

ChipNext ==
  \/ ClockNext /\ setting' = setting
  \/ \E b \in Bauds : usart_configure(b)
  \/ \E s \in Speeds : i2c_set_config(s)
  \/ \E f \in PwmFreqs, c \in BOOLEAN, w \in {16, 32} : timer_set_frequency(w, f, c)
  \/ \E f \in TickFreqs : timer_set_tick_freq(f)
  \/ \E f \in PwmFreqs, p \in Percents : pwm_set_duty_percent(f, p)
  \/ adc_new
  \/ \E v \in DeadTimes : set_dead_time(v)

ChipSpec == ChipInit /\ [][ChipNext]_chipVars

-------------------------------------------------------------------------------
Abs(x) == IF x < 0 THEN -x ELSE x

Fits(n, limit) == n \in Nat /\ n < limit

\* BRR is 16 bits wide, and the line runs at the nearest rate its divider can make.
BaudAsAsked(s, baud, clock) ==
  2 * Abs(Divider(s) * baud - clock) <= baud + 1 /\ Fits(s.brr, U16)

\* CCR is 12 bits wide, FREQ and TRISE 6.  SCL is within one step of CCR of the speed
\* asked for, or at the smallest CCR; but a speed that takes a greater CCR than its
\* register holds is not refused, and comes out as another.
SclAsAsked(s, speed, clock) ==
  LET step2 == IF s.fast THEN 3 * speed ELSE 2 * speed IN
  /\ Fits(s.ccr, CcrLimit) /\ Fits(s.freq, 64) /\ Fits(s.trise, 64)
  /\ clock \div step2 < CcrLimit =>
       /\ clock < (s.ccr + 1) * step2
       /\ s.ccr * step2 <= clock \/ s.ccr = IF s.fast THEN 1 ELSE 4

\* Counts on a period of p ticks, where the code asked for clock/f.
PeriodFits(p, psc, clock, f) == p <= clock \div f /\ clock \div f < p + psc + 1

\* PSC is 16 bits wide, and so is ARR but in a 32-bit timer.  The period is the longest
\* multiple of the prescaler that is not longer than asked.
PeriodAsAsked(s, w, clock) ==
  /\ Fits(s.psc, U16) /\ Fits(s.arr, IF w.bits = 16 THEN U16 ELSE clock)
  /\ w.bits = 32 => s.psc = 0
  /\ PeriodFits((s.psc + 1) * (s.arr + 1), s.psc, clock, IF w.center THEN 2 * w.f ELSE w.f)

TickAsAsked(s, f, clock) == Fits(s.psc, U16) /\ PeriodFits(s.psc + 1, 0, clock, f)

DutyAsAsked(s, percent) ==
  /\ Fits(s.max, U16) /\ s.duty <= s.max
  /\ s.duty * 100 <= percent * s.max /\ percent * s.max < (s.duty + 1) * 100

\* The ADC is not overclocked.
AdcAsAsked(s, clock) == s.div \in {2, 4, 6, 8} /\ clock <= 16 * MHz * s.div

\* DTG is 8 bits wide.  A dead time of less than 128 ticks is exact; a longer one is
\* not encoded as compute_dead_time_value's comment has it, and nothing is said of it.
DeadTimeAsAsked(s, ticks) ==
  /\ Fits(s.bits, 256) /\ s.ckd \in {1, 2, 4}
  /\ ticks < 128 => DeadTime(s) = ticks

\* With the clock the chip really runs at, the registers a driver computed are wide
\* enough for what is written to them and make what was asked of it.
SettingFits ==
  setting # Unset /\ setting.regs.ok =>
    LET s == setting.regs  w == setting.want IN
    CASE setting.kind = "baud" -> BaudAsAsked(s, w, ActualPclk)
      [] setting.kind = "scl" -> SclAsAsked(s, w, ActualPclk)
      [] setting.kind = "period" -> PeriodAsAsked(s, w, ActualTimerClock)
      [] setting.kind = "tick" -> TickAsAsked(s, w, ActualTimerClock)
      [] setting.kind = "duty" -> DutyAsAsked(s, w)
      [] setting.kind = "adc" -> AdcAsAsked(s, ActualPclk)
      [] setting.kind = "dead_time" -> DeadTimeAsAsked(s, w)

================================================================================
