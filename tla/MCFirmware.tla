------------------------------- MODULE MCFirmware -------------------------------
(***************************************************************************)
(* Four pins, on which the roles of different drivers meet, and a user     *)
(* timer that shares its enable bit with the time driver's timer.          *)
(***************************************************************************)
EXTENDS Firmware

MCPin == {"p1", "p2", "p3", "p4"}

MCPinOf ==
  [r \in Roles |->
     CASE r \in {"tx", "hd", "hd_od", "scl"} -> "p1"
       [] r \in {"rx", "sda", "ch1"} -> "p2"
       [] r \in {"cts", "de", "ch2", "ch1n"} -> "p3"
       [] r \in {"rts", "mco"} -> "p4"]

MCPeripheral == {"USART", "I2C", "ADC", "TIM", "TIMDRV", "DBGMCU", "FLASH"}

MCEnableBit ==
  [p \in MCPeripheral |-> IF p \in {"TIM", "TIMDRV"} THEN "TIMxEN" ELSE p]

================================================================================
