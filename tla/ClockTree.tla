------------------------------- MODULE ClockTree -------------------------------
(***************************************************************************)
(* rcc::init: the sequence of register writes and waits that brings the    *)
(* clock tree from its reset state to the requested configuration while    *)
(* the processor runs from it, and the frequencies it then freezes for the *)
(* drivers.  The oscillators and the switch answer in their own time.      *)
(*                                                                         *)
(* The chips differ: "f002b" has no PLL and takes an external clock as it  *)
(* is; "f030" doubles its PLL input; "f072" multiplies it.                 *)
(***************************************************************************)
EXTENDS Integers

CONSTANTS
  Chips,      \* the chips of this instance
  HseFreqs,   \* frequencies of the external oscillator a board may have
  HsiDivs,    \* dividers of HSI a configuration may ask for
  Prescalers  \* AHB and APB prescalers a configuration may ask for

ASSUME ClockTreeAssumption ==
  /\ Chips \subseteq {"f002b", "f030", "f072"}
  /\ HseFreqs \subseteq Nat \ {0}
  /\ HsiDivs \subseteq Nat \ {0} /\ HsiDivs # {}
  /\ Prescalers \subseteq Nat \ {0} /\ Prescalers # {}

VARIABLES
  chip,     \* the chip
  config,   \* the configuration given to init
  creg,     \* CR, ICSCR, CFGR, PLLCFGR and ACR
  ready,    \* the oscillators that are stable
  sws,      \* the clock the system runs from
  step,     \* the next write or wait of init
  freqs     \* CLOCK_FREQS

clockVars == <<chip, config, creg, ready, sws, step, freqs>>

MHz == 1000000
None == 0         \* MaybeHertz and the options keep 0 for None

HsiFreqs(c) == IF c = "f002b" THEN {24 * MHz}
               ELSE {4 * MHz, 8 * MHz, 16 * MHz, 22120000, 24 * MHz}
HsiAtReset(c) == IF c = "f002b" THEN 24 * MHz ELSE 8 * MHz

PllMul(c) == IF c = "f030" THEN {2} ELSE {2, 3}

Config(c) ==
  [hsi : HsiFreqs(c) \cup {None}, hsidiv : HsiDivs, hse : HseFreqs \cup {None},
   bypass : BOOLEAN, sys : {"HSI", "HSE"} \cup (IF c = "f002b" THEN {} ELSE {"PLL"}),
   pll : {"none"} \cup (IF c = "f002b" THEN {} ELSE {"HSI", "HSE"}),
   mul : PllMul(c), ahb_pre : Prescalers, apb1_pre : Prescalers]

-------------------------------------------------------------------------------
(* What the hardware makes of the registers.                               *)

OutputOf(source) ==
  CASE source = "HSI" -> creg.hsi \div creg.hsidiv
    [] source = "HSE" -> config.hse
    [] source = "PLL" -> (IF creg.pllsrc = "HSI" THEN creg.hsi ELSE config.hse) * creg.pllmul

ActualSys == OutputOf(sws)
ActualHclk == ActualSys \div creg.hpre
ActualPclk == ActualHclk \div creg.ppre
ActualTimerClock == IF creg.ppre = 1 THEN ActualPclk ELSE 2 * ActualPclk

\* The fastest AHB clock the flash keeps up with.
MaxHclk(latency) == CASE latency = 0 -> 24 * MHz [] latency = 1 -> 48 * MHz
                      [] latency = 2 -> 72 * MHz

\* The PLL needs its source.
IsOn(source) ==
  CASE source = "PLL" -> creg.pllon /\ creg.pllsrc \in ready
    [] source = "HSI" -> creg.hsion
    [] source = "HSE" -> creg.hseon

Stabilises(source) ==
  /\ IsOn(source) /\ source \notin ready
  /\ ready' = ready \cup {source}
  /\ UNCHANGED <<chip, config, creg, sws, step, freqs>>

\* A switch is made once the new source is stable.
Switches ==
  /\ sws # creg.sw /\ creg.sw \in ready
  /\ sws' = creg.sw
  /\ UNCHANGED <<chip, config, creg, ready, step, freqs>>

-------------------------------------------------------------------------------
(* The steps of init.                                                      *)

Writes(new) == creg' = new /\ ready' = ready /\ UNCHANGED <<chip, config, sws, freqs>>
NoWrite == UNCHANGED <<chip, config, creg, ready, sws, freqs>>

\* assert_eq on the trimming bytes and unwrap end the program.
panics == step' = "panic" /\ NoWrite

hsi_on ==
  /\ step = "hsi_on"
  /\ Writes([creg EXCEPT !.hsion = TRUE, !.hsi = IF config.hsi = None THEN @ ELSE config.hsi])
  /\ step' = "hsi_ready"

hsi_ready == step = "hsi_ready" /\ "HSI" \in ready /\ step' = "to_hsi" /\ NoWrite

to_hsi ==
  /\ step = "to_hsi"
  /\ Writes([creg EXCEPT !.sw = "HSI"])
  /\ step' = "on_hsi"

on_hsi ==
  /\ step = "on_hsi" /\ sws = "HSI"
  /\ Writes([creg EXCEPT !.hsidiv = config.hsidiv])
  /\ step' = "hse"

HseInRange ==
  config.hse \in (IF config.bypass THEN 1 * MHz .. 32 * MHz ELSE 4 * MHz .. 32 * MHz)

hse_off ==
  /\ step = "hse" /\ config.hse = None
  /\ creg' = [creg EXCEPT !.hseon = FALSE] /\ ready' = ready \ {"HSE"}
  /\ UNCHANGED <<chip, config, sws, freqs>>
  /\ step' = "pll"

\* f002b neither checks the frequency nor waits.
hse_on ==
  /\ step = "hse" /\ config.hse # None
  /\ IF chip = "f002b" \/ HseInRange
     THEN /\ Writes([creg EXCEPT !.hseon = TRUE])
          /\ step' = IF chip = "f002b" THEN "pll" ELSE "hse_ready"
     ELSE panics

hse_ready == step = "hse_ready" /\ "HSE" \in ready /\ step' = "pll" /\ NoWrite

PllIn == IF config.pll = "HSI" THEN config.hsi ELSE config.hse

pll_off ==
  /\ step = "pll" /\ config.pll # "none"
  /\ IF PllIn # None /\ PllIn \in 16 * MHz .. 24 * MHz
     THEN /\ creg' = [creg EXCEPT !.pllon = FALSE] /\ ready' = ready \ {"PLL"}
          /\ UNCHANGED <<chip, config, sws, freqs>>
          /\ step' = "pll_on"
     ELSE panics

pll_on ==
  /\ step = "pll_on" /\ "PLL" \notin ready
  /\ Writes([creg EXCEPT !.pllsrc = config.pll, !.pllmul = config.mul, !.pllon = TRUE])
  /\ step' = "pll_ready"

pll_ready == step = "pll_ready" /\ "PLL" \in ready /\ step' = "latency" /\ NoWrite

no_pll == step = "pll" /\ config.pll = "none" /\ step' = "latency" /\ NoWrite

-------------------------------------------------------------------------------
(* The frequencies init computes.                                          *)

pll == IF config.pll = "none" THEN None ELSE PllIn * config.mul

sys == CASE config.sys = "HSI" -> config.hsi \div config.hsidiv
         [] config.sys = "HSE" -> config.hse
         [] config.sys = "PLL" -> pll

hclk1 == sys \div config.ahb_pre

\* Mutant: the timers run at the peripheral clock.
calc_pclk_plain(hclk, ppre) == [pclk |-> hclk \div ppre, pclk_tim |-> hclk \div ppre]

calc_pclk(hclk, ppre) ==
  LET pclk == hclk \div ppre
  IN [pclk |-> pclk, pclk_tim |-> IF hclk = pclk THEN pclk ELSE pclk * 2]

\* Mutant: the wait states follow the APB clock.
latency_apb ==
  LET f == calc_pclk(hclk1, config.apb1_pre).pclk IN
  IF f <= 24 * MHz THEN 0 ELSE IF f <= 48 * MHz \/ chip # "f072" THEN 1 ELSE 2

latency ==
  IF hclk1 <= 24 * MHz THEN 0 ELSE IF hclk1 <= 48 * MHz \/ chip # "f072" THEN 1 ELSE 2

set_latency ==
  /\ step = "latency"
  /\ IF sys = None
     THEN panics
     ELSE Writes([creg EXCEPT !.latency = latency]) /\ step' = "prescalers"

set_prescalers ==
  /\ step = "prescalers"
  /\ Writes([creg EXCEPT !.hpre = config.ahb_pre, !.ppre = config.apb1_pre])
  /\ step' = "switch"

set_sw ==
  /\ step = "switch"
  /\ Writes([creg EXCEPT !.sw = config.sys])
  /\ step' = "switched"

hsi_off ==
  /\ step = "switched" /\ sws = config.sys
  /\ IF config.hsi = None
     THEN /\ creg' = [creg EXCEPT !.hsion = FALSE] /\ ready' = ready \ {"HSI"}
          /\ UNCHANGED <<chip, config, sws, freqs>>
     ELSE NoWrite
  /\ step' = "freeze"

set_freqs ==
  /\ step = "freeze"
  /\ LET apb == calc_pclk(hclk1, config.apb1_pre) IN
     freqs' = [hclk1 |-> hclk1, pclk1 |-> apb.pclk, pclk1_tim |-> apb.pclk_tim,
               sys |-> sys, hsi |-> config.hsi, pll |-> pll, lse |-> None]
  /\ UNCHANGED <<chip, config, creg, ready, sws>>
  /\ step' = "done"

-------------------------------------------------------------------------------
ClockInitWith(which, asked) ==
  /\ chip = which
  /\ config = asked
  /\ creg = [hsion |-> TRUE, hsi |-> HsiAtReset(chip), hsidiv |-> 1, hseon |-> FALSE,
             pllon |-> FALSE, pllsrc |-> "HSI", pllmul |-> 2, sw |-> "HSI",
             hpre |-> 1, ppre |-> 1, latency |-> 0]
  /\ ready = {"HSI"} /\ sws = "HSI"
  /\ step = "hsi_on"
  /\ freqs = [hclk1 |-> None, pclk1 |-> None, pclk1_tim |-> None, sys |-> None,
              hsi |-> None, pll |-> None, lse |-> None]

ClockInit == \E c \in Chips : \E asked \in Config(c) : ClockInitWith(c, asked)

ClockNext ==
  \/ \E s \in {"HSI", "HSE", "PLL"} : Stabilises(s)
  \/ Switches
  \/ hsi_on \/ hsi_ready \/ to_hsi \/ on_hsi
  \/ hse_off \/ hse_on \/ hse_ready
  \/ pll_off \/ pll_on \/ pll_ready \/ no_pll
  \/ set_latency \/ set_prescalers \/ set_sw \/ hsi_off \/ set_freqs

-------------------------------------------------------------------------------
\* At every step of init the system runs from a clock that is on and stable, no
\* faster than the flash can follow: prescalers, wait states and the switch come
\* in an order that never overclocks it, and no oscillator in use is stopped.
ClockSafe ==
  /\ sws \in ready /\ IsOn(sws)
  /\ sws = "PLL" => IsOn(creg.pllsrc)
  /\ ActualHclk <= MaxHclk(creg.latency)

\* The frequencies drivers compute from are those the hardware then runs at, and
\* an oscillator they are told of runs.
FrozenFrequencies ==
  step = "done" =>
    /\ freqs.sys = ActualSys /\ freqs.hclk1 = ActualHclk
    /\ freqs.pclk1 = ActualPclk /\ freqs.pclk1_tim = ActualTimerClock
    /\ freqs.hsi # None => IsOn("HSI") /\ freqs.hsi = creg.hsi
    /\ freqs.pll # None => "PLL" \in ready /\ freqs.pll = OutputOf("PLL")

================================================================================
