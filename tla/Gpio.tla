--------------------------------- MODULE Gpio ----------------------------------
(***************************************************************************)
(* The registers of a GPIO pin, and the order in which the driver writes   *)
(* them: every configuration is a sequence of single-register writes, each *)
(* of which the outside world sees.                                        *)
(***************************************************************************)
EXTENDS Sequences

CONSTANT Function    \* the alternate functions of a pin

Pull == {"FLOATING", "PULLUP", "PULLDOWN"}

\* A pin after reset (Peripherals::take): the registers that the driver writes, MODER,
\* OTYPER, PUPDR, AFR (the alternate function, or none) and ODR.
Disconnected ==
  [moder |-> "ANALOG", otyper |-> "PUSHPULL", pupdr |-> "FLOATING",
   afr |-> "none", odr |-> "low"]

-------------------------------------------------------------------------------
(* One register write, and the sequences of writes of the driver.          *)

W(register, value) == [register |-> register, value |-> value]

Written(p, w) == [p EXCEPT ![w.register] = w.value]

set_level(level) == W("odr", level)

set_as_input(pull) ==
  <<W("pupdr", pull), W("otyper", "PUSHPULL"), W("moder", "INPUT")>>

set_as_output ==
  <<W("pupdr", "FLOATING"), W("otyper", "PUSHPULL"), W("moder", "OUTPUT")>>

set_as_input_output_pull(pull) ==
  <<W("pupdr", pull), W("otyper", "OPENDRAIN"), W("moder", "OUTPUT")>>

set_as_analog == W("moder", "ANALOG")

set_as_disconnected == set_as_analog

AfTypeInput(pull) == [pupdr |-> pull, ot |-> "PUSHPULL"]
AfTypeOutput(ot, pull) == [pupdr |-> pull, ot |-> ot]

\* Mutant: the pin is handed to the peripheral before it is configured.
set_as_af_early(af, type) ==
  <<W("moder", "ALTERNATE"), W("afr", af), W("pupdr", type.pupdr),
    W("otyper", type.ot)>>

set_as_af(af, type) ==
  <<W("afr", af), W("pupdr", type.pupdr), W("otyper", type.ot),
    W("moder", "ALTERNATE")>>

-------------------------------------------------------------------------------
(* Output, OutputOpenDrain and Input; the level comes before the mode.      *)

Output(level) == <<set_level(level)>> \o set_as_output

OutputOpenDrain(level, pull) ==
  <<set_level(level)>> \o set_as_input_output_pull(pull)

Input(pull) == set_as_input(pull)

-------------------------------------------------------------------------------
(* What the pin does to the line: the source of the level and how it is
   driven.                                                                 *)

Nothing == <<"none", "none">>

DrivesLevel(level, ot) ==
  IF ot = "OPENDRAIN" /\ level = "high" THEN Nothing ELSE <<level, ot>>

Drives(p) ==
  CASE p.moder = "OUTPUT" -> DrivesLevel(p.odr, p.otyper)
    [] p.moder = "ALTERNATE" -> <<p.afr, p.otyper>>
    [] OTHER -> Nothing

================================================================================
