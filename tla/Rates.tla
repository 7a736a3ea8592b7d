--------------------------------- MODULE Rates ---------------------------------
(***************************************************************************)
(* The divider arithmetic of the drivers: from the frozen frequency of the *)
(* clock and the requested rate to the values of the divider registers, or *)
(* Refused where the code returns an error or panics.                      *)
(***************************************************************************)
EXTENDS Integers

U16 == 65536
Refused == [ok |-> FALSE]

-------------------------------------------------------------------------------
(* Baud rate.                                                              *)

\* Mutant: the remainder is dropped.
calculate_brr_truncated(baud, pclk) == pclk \div baud

calculate_brr(baud, pclk) ==
  pclk \div baud + ((pclk % baud) + (baud \div 2)) \div baud

configure_brr(baud, pclk) ==
  LET brr == calculate_brr(baud, pclk) IN
  CASE brr < 8 -> Refused                                 \* BaudrateTooHigh
    [] brr \in 8 .. 15 ->
         [ok |-> TRUE, over8 |-> TRUE, brr |-> 16 * (brr \div 8) + (brr % 8)]
    [] brr \in 16 .. U16 - 1 -> [ok |-> TRUE, over8 |-> FALSE, brr |-> brr]
    [] brr >= U16 -> Refused                              \* BaudrateTooLow

\* The divider the receiver and transmitter use: with OVER8 the fraction is
\* three bits wide, and bit 3 is not used.
Divider(s) == IF s.over8 THEN 8 * (s.brr \div 16) + (s.brr % 8) ELSE s.brr

-------------------------------------------------------------------------------
(* Timers.                                                                 *)

\* With 32 bits the prescaler is never needed.
set_frequency(bits, timer_f, f) ==
  LET ticks == timer_f \div f IN
  IF ticks = 0 THEN Refused
  ELSE LET psc == IF bits = 16 THEN (ticks - 1) \div U16 ELSE 0
           divide_by == ticks \div (psc + 1)
       IN [ok |-> psc < U16, psc |-> psc, arr |-> divide_by - 1]

set_tick_freq(timer_f, f) ==
  LET ticks == timer_f \div f IN
  IF ticks \in 1 .. U16 THEN [ok |-> TRUE, psc |-> ticks - 1] ELSE Refused

\* The PWM drivers ask a center-aligned timer for twice the frequency.
pwm_set_frequency(bits, timer_f, f, center) ==
  set_frequency(bits, timer_f, IF center THEN 2 * f ELSE f)

\* SimplePwm refuses an ARR of u16::MAX here.
max_duty_cycle(s) ==
  IF s.ok /\ s.arr < U16 - 1 THEN [ok |-> TRUE, max |-> s.arr + 1] ELSE Refused

duty_cycle_fraction(num, denom, max) == (num * max) \div denom

\* compute_dead_time_value: the first clock division whose rounding error is
\* the smallest.
DeadTimeBits(target) ==
  CASE target < 128 -> [bits |-> target, result |-> target]
    [] target \in 128 .. 254 ->
         [bits |-> 64 + target \div 2, result |-> target - (target % 2)]
    [] target \in 255 .. 507 ->
         [bits |-> 32 + target \div 8, result |-> target - (target % 8)]
    [] target \in 508 .. 1007 ->
         [bits |-> 32 + target \div 16, result |-> target - (target % 16)]
    [] target >= 1008 -> [bits |-> 255, result |-> 1008]

DeadTimeError(value, div) ==
  LET d == value - DeadTimeBits(value \div div).result * div IN IF d < 0 THEN -d ELSE d

compute_dead_time_value(value) ==
  LET div == CHOOSE d \in {1, 2, 4} : \A e \in {1, 2, 4} :
               \/ DeadTimeError(value, d) < DeadTimeError(value, e)
               \/ DeadTimeError(value, d) = DeadTimeError(value, e) /\ d <= e
  IN [ckd |-> div, bits |-> DeadTimeBits(value \div div).bits]

\* What the generator makes of DTG, in ticks of the timer clock.
DeadTime(s) ==
  s.ckd * (CASE s.bits < 128 -> s.bits
             [] s.bits \in 128 .. 191 -> (64 + (s.bits % 64)) * 2
             [] s.bits \in 192 .. 223 -> (32 + (s.bits % 32)) * 8
             [] s.bits \in 224 .. 255 -> (32 + (s.bits % 32)) * 16)

-------------------------------------------------------------------------------
(* I2C and ADC.                                                            *)

AtLeast(x, min) == IF x < min THEN min ELSE x

CcrLimit == 4096

\* set_ccr keeps the twelve bits its field has.
Timings(clock, speed) ==
  LET freq == clock \div 1000000
      fast == speed > 100000
  IN IF freq \notin 2 .. 50 THEN Refused
     ELSE [ok |-> TRUE, fast |-> fast, freq |-> freq,
           trise |-> IF fast THEN (freq * 300) \div 1000 + 1 ELSE freq + 1,
           ccr |-> (IF fast THEN AtLeast(clock \div (speed * 3), 1)
                            ELSE AtLeast(clock \div (speed * 2), 4)) % CcrLimit]

Prescaler(pclk) ==
  LET raw_div == pclk \div 16000000 IN
  IF raw_div > 7 THEN Refused ELSE [ok |-> TRUE, div |-> 2 * (raw_div \div 2) + 2]

================================================================================
