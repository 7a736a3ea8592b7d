------------------------------- MODULE Peripherals -----------------------------
(***************************************************************************)
(* The drivers that share nothing with one another but the processor: a    *)
(* behaviour exercises one of them, and the others stay as they are after  *)
(* reset.  Each is an interrupt handler and tasks that wait for it.         *)
(***************************************************************************)
EXTENDS Exti, Capture, Adc, Uart

VARIABLE part    \* the driver that is exercised

vars == <<part, extiVars, captureVars, adcVars, uartVars>>

Parts == {"exti", "capture", "adc", "uart"}

\* Of what the others may begin with, one case.
Others ==
  /\ part # "exti" => level = {}
  /\ part # "capture" => \A c \in Channels : channel <= c
  /\ part # "adc" => adc = "v1" /\ select = dr /\ dr = input /\ \A c \in Inputs : input <= c
  /\ part # "uart" => driver = "rx" /\ ~detect

Init ==
  /\ part \in Parts
  /\ ExtiInit /\ CaptureInit /\ AdcInit /\ UartInit
  /\ Others

Next ==
  /\ part' = part
  /\ \/ /\ part = "exti" /\ ExtiNext
        /\ UNCHANGED <<captureVars, adcVars, uartVars>>
     \/ /\ part = "capture" /\ CaptureNext
        /\ UNCHANGED <<extiVars, adcVars, uartVars>>
     \/ /\ part = "adc" /\ AdcNext
        /\ UNCHANGED <<extiVars, captureVars, uartVars>>
     \/ /\ part = "uart" /\ UartNext
        /\ UNCHANGED <<extiVars, captureVars, adcVars>>

Spec ==
  /\ Init /\ [][Next]_vars
  /\ ExtiFairness /\ CaptureFairness /\ AdcFairness /\ UartFairness

-------------------------------------------------------------------------------
\* What ends a wait for an edge, a capture or a sample is an event of that wait:
\* EdgeIsAwaited, CaptureIsAwaited and SampleIsOwn.
WaitsAreTruthful == EdgeIsAwaited /\ CaptureIsAwaited /\ SampleIsOwn

\* The event that a wait for an edge, a capture or a sample is for ends it:
\* EdgeEndsWait, CaptureEndsWait and SampleEndsRead.
WaitsEnd == EdgeEndsWait /\ CaptureEndsWait /\ SampleEndsRead

================================================================================
