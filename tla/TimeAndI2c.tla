------------------------------- MODULE TimeAndI2c ------------------------------
(***************************************************************************)
(* The time driver and the I2C master, whose timeouts are measured with    *)
(* it.  A timeout of the master comes at any time (I2c), so the two share  *)
(* nothing more: a behaviour exercises one of them, and the other stays as *)
(* it is after reset.                                                       *)
(***************************************************************************)
EXTENDS TimeDriver, I2c

VARIABLE service    \* the driver that is exercised

timeI2cVars == <<service, timeVars, vars>>

TimeI2cInit ==
  /\ service \in {"time", "i2c"}
  /\ TimeInit /\ Init

TimeI2cNext ==
  /\ service' = service
  /\ \/ service = "time" /\ TimeNext /\ UNCHANGED vars
     \/ service = "i2c" /\ Next /\ UNCHANGED timeVars

\* Of what fairness asks for, only the passing of time is possible while the
\* driver is not the one exercised.
TimeI2cFairness ==
  /\ WF_timeVars(service = "time" /\ Tick) /\ TimeServed
  /\ Fairness

TimeI2cSpec == TimeI2cInit /\ [][TimeI2cNext]_timeI2cVars /\ TimeI2cFairness

================================================================================
