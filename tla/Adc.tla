----------------------------------- MODULE Adc ---------------------------------
(***************************************************************************)
(* Single conversions of the ADC drivers, "v1" and "v2".  A read selects   *)
(* the channel, clears EOC, enables its interrupt, starts a conversion and *)
(* polls EOC; reading DR lowers EOC.  A cancelled read leaves its          *)
(* conversion running.                                                     *)
(***************************************************************************)
EXTENDS Integers

CONSTANT Inputs    \* the channels read

ASSUME AdcAssumption == Inputs \subseteq 0 .. 18

VARIABLES
  adc,      \* the driver and its mode
  select,   \* CHSELR, or SQR3: the selected channel
  running,  \* the channel being converted, or Still
  eoc, eocie,  \* end of conversion: the flag and its interrupt enable
  dr,       \* the channel whose sample DR holds
  apc,      \* where the reading task is
  input,    \* the channel it reads
  awaker,   \* State::waker is registered
  awoken,   \* the task is to be polled
  undisturbed,  \* ghost: no conversion ran when the read began
  ended     \* ghost: a conversion ended since the read began

adcRegs == <<select, running, eoc, eocie, dr>>
adcVars == <<adc, adcRegs, apc, input, awaker, awoken, undisturbed, ended>>

Still == -1    \* not a channel

-------------------------------------------------------------------------------
ConversionEnds ==
  /\ running # Still /\ running' = Still
  /\ dr' = running /\ eoc' = TRUE /\ ended' = TRUE
  /\ UNCHANGED <<adc, select, eocie, apc, input, awaker, awoken, undisturbed>>

on_eoc ==
  /\ eoc /\ eocie
  /\ eocie' = FALSE
  /\ awoken' = awaker /\ awaker' = FALSE
  /\ UNCHANGED <<adc, select, running, eoc, dr, apc, input, undisturbed, ended>>

-------------------------------------------------------------------------------
AdcGoes(from, to) == apc = from /\ apc' = to /\ UNCHANGED adc

\* v1 ignores the selection while it converts; v2 converts the new one instead.
read_channel(c) ==
  /\ AdcGoes("idle", "clear")
  /\ input' = c /\ undisturbed' = (running = Still) /\ ended' = FALSE
  /\ select' = IF adc = "v1" /\ running # Still THEN select ELSE c
  /\ running' \in (IF adc # "v1" /\ running # Still THEN {running, c} ELSE {running})
  /\ UNCHANGED <<eoc, eocie, dr, awaker, awoken>>

\* Mutant: EOC of an earlier conversion stays.
clear_eoc_not ==
  /\ AdcGoes("clear", "enable")
  /\ UNCHANGED <<adcRegs, input, awaker, awoken, undisturbed, ended>>

clear_eoc ==
  /\ AdcGoes("clear", "enable")
  /\ eoc' = FALSE
  /\ UNCHANGED <<select, running, eocie, dr, input, awaker, awoken, undisturbed, ended>>

enable_eocie ==
  /\ AdcGoes("enable", "start")
  /\ eocie' = (adc # "blocking")
  /\ UNCHANGED <<select, running, eoc, dr, input, awaker, awoken, undisturbed, ended>>

\* A start is ignored while a conversion runs.
start_conversion ==
  /\ AdcGoes("start", IF adc = "blocking" THEN "registered" ELSE "poll")
  /\ running' = IF running = Still THEN select ELSE running
  /\ UNCHANGED <<select, eoc, eocie, dr, input, awaker, awoken, undisturbed, ended>>

register_adc ==
  /\ AdcGoes("poll", "registered")
  /\ awaker' = TRUE /\ awoken' = FALSE
  /\ UNCHANGED <<adcRegs, input, undisturbed, ended>>

\* The blocking driver spins here.
read_isr ==
  /\ adc = "blocking" => eoc
  /\ AdcGoes("registered", IF eoc THEN "data" ELSE "pending")
  /\ UNCHANGED <<adcRegs, input, awaker, awoken, undisturbed, ended>>

read_dr ==
  /\ AdcGoes("data", "done")
  /\ eoc' = FALSE
  /\ UNCHANGED <<select, running, eocie, dr, input, awaker, awoken, undisturbed, ended>>

repoll_adc ==
  /\ awoken /\ AdcGoes("pending", "poll")
  /\ UNCHANGED <<adcRegs, input, awaker, awoken, undisturbed, ended>>

\* The value is returned, or the future is dropped where it waits.
return_or_drop ==
  /\ apc \in {"done", "pending"} /\ AdcGoes(apc, "idle")
  /\ UNCHANGED <<adcRegs, input, awaker, awoken, undisturbed, ended>>

-------------------------------------------------------------------------------
AdcInit ==
  /\ adc \in {"v1", "v2", "blocking"}
  /\ select \in Inputs /\ dr \in Inputs /\ input \in Inputs
  /\ running = Still /\ eoc = FALSE /\ eocie = FALSE
  /\ apc = "idle" /\ awaker = FALSE /\ awoken = FALSE
  /\ undisturbed = TRUE /\ ended = FALSE

AdcStep ==
  \/ clear_eoc \/ enable_eocie \/ start_conversion
  \/ register_adc \/ read_isr \/ read_dr \/ repoll_adc

AdcNext ==
  \/ ConversionEnds \/ on_eoc \/ AdcStep \/ return_or_drop
  \/ \E c \in Inputs : read_channel(c)

\* The converter, the processor and the executor go on.
AdcFairness == WF_adcVars(ConversionEnds \/ on_eoc \/ AdcStep)

-------------------------------------------------------------------------------
\* The value a read returns was converted during it, and from its channel unless
\* it began while the conversion of a cancelled read was still running.
SampleIsOwn == apc = "done" => ended /\ (undisturbed => dr = input)

\* Every read ends, or is cancelled, that of a cancelled conversion's successor too.
SampleEndsRead == apc # "idle" ~> apc \in {"done", "idle"}

================================================================================
