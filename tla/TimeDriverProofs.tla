--------------------------- MODULE TimeDriverProofs ---------------------------
(***************************************************************************)
(* now() is exact for every period length, latency and set of tasks: the   *)
(* software's period count and the flags and snapshots that stand for the  *)
(* period starts it has not counted yet always add up to the counter.  So  *)
(* no task is woken early, and no alarm is slept through.                  *)
(***************************************************************************)
EXTENDS TimeDriver, WellFoundedInduction, TLAPS

-------------------------------------------------------------------------------
(* The inductive invariant. *)

\* The types that the clock's invariant needs.
ClockType ==
  /\ time \in Nat
  /\ period \in Nat
  /\ {uif, ccif0, ccif1, ccie1, soon} \subseteq BOOLEAN
  /\ sr \in [uif : BOOLEAN, ccif0 : BOOLEAN, ccif1 : BOOLEAN, ccie1 : BOOLEAN]
  /\ loaded \in [period : Nat, at : Nat] \cup {NotLoaded}

\* The next period has begun and the handler has not counted it.
Owed == time >= (period + 1) * Period

\* The count is at most one period behind, and by less than the latency.
Lag ==
  /\ period * Period <= time
  /\ time < (period + 1) * Period + Latency

\* An uncounted period start is known by exactly one flag, in the register or in
\* the handler's snapshot: the overflow's if the new period is even.
Accounted ==
  /\ uif \/ sr.uif <=> Owed /\ period % 2 = 1
  /\ ccif0 \/ sr.ccif0 <=> Owed /\ period % 2 = 0

\* The snapshot is in use only between reading the flags and counting them, and
\* a flag it holds has been cleared before it is counted.
Snapshot ==
  /\ cs \notin {"acknowledge", "next_period"} => ~sr.uif /\ ~sr.ccif0
  /\ cs = "next_period" => /\ sr.uif \/ sr.ccif0
                           /\ ~(sr.uif /\ uif)
                           /\ ~(sr.ccif0 /\ ccif0)

\* The thread in now() loaded a period that was right, less than the allowed
\* preemption ago.
LoadedInv ==
  loaded # NotLoaded =>
    /\ loaded.period * Period <= loaded.at
    /\ loaded.at < (loaded.period + 1) * Period + Latency
    /\ loaded.at <= time
    /\ time <= loaded.at + Preemption

ClockInv == ClockType /\ Lag /\ Accounted /\ Snapshot /\ LoadedInv

-------------------------------------------------------------------------------
(* Arithmetic. *)

LEMMA Constants ==
  /\ Period \in Nat /\ Period >= 2
  /\ Latency \in Nat /\ Latency >= 1 /\ Latency < Period
  /\ Preemption \in Nat /\ Latency + Preemption <= Period
  /\ Cycle = Period + Period
  BY TimingAssumption, SMT DEF Cycle

LEMMA Times ==
  ASSUME NEW p \in Nat
  PROVE  /\ p * Period \in Nat
         /\ (p + 1) * Period = p * Period + Period
         /\ (p + 2) * Period = p * Period + Period + Period
  BY Constants, SMT

\* A remainder is determined by any decomposition into whole cycles and a rest.
LEMMA Rest ==
  ASSUME NEW h \in Nat, NEW k \in Nat, k < Cycle
  PROVE  (h * Cycle + k) % Cycle = k
  <1> DEFINE a == h * Cycle + k
             q == a \div Cycle
             r == a % Cycle
  <1>1. Cycle \in Nat /\ Cycle > 0 /\ h * Cycle \in Nat /\ a \in Nat
    BY Constants
  <1>2. q \in Nat /\ r \in 0 .. Cycle - 1 /\ a = Cycle * q + r
    <2> HIDE DEF a
    <2>1. QED
      BY <1>1, SMT
  <1>3. Cycle * q = q * Cycle /\ q * Cycle \in Int
    BY <1>1, <1>2, SMT
  <1>4. (h - q) * Cycle = h * Cycle - q * Cycle
    BY <1>1, <1>2, SMT
  <1>5. ASSUME NEW d \in Int
        PROVE  /\ d >= 1 => d * Cycle >= Cycle
               /\ d <= -1 => d * Cycle <= -Cycle
               /\ d = 0 => d * Cycle = 0
               /\ d * Cycle \in Int
    BY <1>1, SMT
  <1>6. h - q \in Int
    BY <1>2
  <1>7. /\ h - q >= 1 => (h - q) * Cycle >= Cycle
        /\ h - q <= -1 => (h - q) * Cycle <= -Cycle
        /\ h - q = 0 => (h - q) * Cycle = 0
        /\ (h - q) * Cycle \in Int
    BY <1>5, <1>6, Zenon
  <1>8. a = h * Cycle + k
    OBVIOUS
  <1> HIDE DEF a, q
  <1>9. QED
    BY <1>1, <1>2, <1>3, <1>4, <1>6, <1>7, <1>8 DEF a

\* The counter k ticks after the start of period p, up to two periods later.
LEMMA CounterAt ==
  ASSUME NEW p \in Nat, NEW k \in Nat, k < Cycle
  PROVE  /\ p % 2 = 0 => (p * Period + k) % Cycle = k
         /\ p % 2 = 1 =>
              (p * Period + k) % Cycle = IF k < Period THEN k + Period
                                         ELSE k - Period
  <1> DEFINE h == p \div 2
  <1>1. h \in Nat /\ h + 1 \in Nat /\ (p % 2 = 0 \/ p % 2 = 1)
        /\ p = 2 * h + (p % 2)
    BY SMT
  <1>2. /\ (2 * h) * Period = h * Cycle
        /\ (2 * h + 1) * Period = h * Cycle + Period
        /\ h * Cycle \in Nat
        /\ (h + 1) * Cycle = h * Cycle + Cycle
    BY <1>1, Constants, SMT
  <1> HIDE DEF h
  <1>3. CASE p % 2 = 0
    <2>1. p * Period + k = h * Cycle + k
      BY <1>1, <1>2, <1>3
    <2>2. (h * Cycle + k) % Cycle = k
      BY <1>1, Rest
    <2>3. QED
      BY <1>3, <2>1, <2>2
  <1>4. CASE p % 2 = 1 /\ k < Period
    <2>1. p * Period + k = h * Cycle + (k + Period)
      BY <1>1, <1>2, <1>4, Constants
    <2>2. k + Period \in Nat /\ k + Period < Cycle
      BY <1>4, Constants
    <2>3. (h * Cycle + (k + Period)) % Cycle = k + Period
      BY <1>1, <2>2, Rest
    <2>4. QED
      BY <1>4, <2>1, <2>3
  <1>5. CASE p % 2 = 1 /\ ~(k < Period)
    <2>1. k - Period \in Nat /\ k - Period < Cycle
      BY <1>5, Constants
    <2>2. p * Period + k = (h + 1) * Cycle + (k - Period)
      BY <1>1, <1>2, <1>5, <2>1, Constants
    <2>3. ((h + 1) * Cycle + (k - Period)) % Cycle = k - Period
      BY <1>1, <2>1, Rest
    <2>4. QED
      BY <1>5, <2>2, <2>3
  <1>6. QED
    BY <1>1, <1>3, <1>4, <1>5

-------------------------------------------------------------------------------
(* The invariant is inductive. *)

LEMMA InitClock == TimeInit => ClockInv
  <1> SUFFICES ASSUME TimeInit PROVE ClockInv
    OBVIOUS
  <1>1. ClockType
    BY DEF TimeInit, ClockType
  <1>2. 0 * Period = 0 /\ 1 * Period = Period
    BY Constants
  <1>3. Lag /\ ~Owed
    BY <1>2, Constants DEF TimeInit, Lag, Owed
  <1>4. Accounted /\ Snapshot
    BY <1>3 DEF TimeInit, Accounted, Snapshot
  <1>5. LoadedInv
    BY DEF TimeInit, LoadedInv
  <1>6. QED
    BY <1>1, <1>3, <1>4, <1>5 DEF ClockInv

\* A step that leaves the clock alone and is not one of the handler's.
LEMMA Frame ==
  ASSUME ClockInv,
         UNCHANGED <<time, uif, ccif0, period, sr, loaded>>,
         {ccif1', ccie1', soon'} \subseteq BOOLEAN,
         cs' = cs \/ cs' \notin {"acknowledge", "next_period"},
         cs' = cs \/ cs \notin {"acknowledge", "next_period"}
  PROVE  ClockInv'
  <1>1. ClockType' /\ Lag' /\ LoadedInv' /\ Owed' = Owed
    BY DEF ClockInv, ClockType, Lag, LoadedInv, Owed
  <1>2. Accounted'
    BY <1>1 DEF ClockInv, Accounted
  <1>3. Snapshot'
    BY Zenon DEF ClockInv, Snapshot
  <1>4. QED
    BY <1>1, <1>2, <1>3 DEF ClockInv

\* The counter reaches a period start, and raises its flag, when and only when
\* the period after the counted one begins.
LEMMA TickFlags ==
  ASSUME ClockInv, Tick
  PROVE  /\ time' = (period + 1) * Period /\ period % 2 = 1 <=> Counter' = 0
         /\ time' = (period + 1) * Period /\ period % 2 = 0 <=> Counter' = Period
  <1> DEFINE k == time + 1 - period * Period
  <1>1. time \in Nat /\ period \in Nat /\ time' = time + 1
    BY DEF ClockInv, ClockType, Tick
  <1>2. /\ period * Period <= time
        /\ time + 1 < (period + 1) * Period + Latency
    BY DEF ClockInv, Lag, Tick, InTime
  <1>3. /\ period * Period \in Nat
        /\ (period + 1) * Period = period * Period + Period
    BY <1>1, Times
  <1>4. k \in Nat /\ k >= 1 /\ k < Cycle /\ time' = period * Period + k
    BY <1>1, <1>2, <1>3, Constants
  <1>5. time' = (period + 1) * Period <=> k = Period
    BY <1>1, <1>3, <1>4, Constants
  <1> HIDE DEF k
  <1>6. /\ period % 2 = 0 => Counter' = k
        /\ period % 2 = 1 => Counter' = IF k < Period THEN k + Period
                                        ELSE k - Period
    BY <1>1, <1>4, CounterAt DEF Counter, Cycle
  <1>7. period % 2 = 0 \/ period % 2 = 1
    BY <1>1
  <1>8. QED
    BY <1>4, <1>5, <1>6, <1>7, Constants

LEMMA TickClock ==
  ASSUME ClockInv, Tick
  PROVE  ClockInv'
  <1>1. /\ time \in Nat /\ period \in Nat /\ time' = time + 1
        /\ UNCHANGED <<period, sr, loaded, cs>>
        /\ uif' = (uif \/ Counter' = 0)
        /\ ccif0' = (ccif0 \/ Counter' = Period)
        /\ ccif1' = (ccif1 \/ Counter' = ccr1)
        /\ UNCHANGED <<ccie1, soon>>
        /\ {uif, ccif0, ccif1, ccie1, soon} \subseteq BOOLEAN
    BY DEF ClockInv, ClockType, Tick, alarmVars
  <1>2. ClockType'
    <2>1. time' \in Nat
      BY <1>1
    <2>2. {uif', ccif0', ccif1', ccie1', soon'} \subseteq BOOLEAN
      BY <1>1, Zenon
    <2>3. QED
      BY <1>1, <2>1, <2>2 DEF ClockInv, ClockType
  <1>3. /\ period * Period \in Nat
        /\ (period + 1) * Period = period * Period + Period
    BY <1>1, Times
  <1>4. Lag'
    BY <1>1, <1>3 DEF ClockInv, Lag, Tick, InTime
  <1>5. Owed' <=> Owed \/ time' = (period + 1) * Period
    BY <1>1, <1>3, Constants DEF Owed
  <1>6. Owed => time' # (period + 1) * Period
    BY <1>1, <1>3, Constants DEF Owed
  <1>7. Accounted'
    <2>1. uif' \/ sr.uif <=> Owed' /\ period % 2 = 1
      BY <1>1, <1>5, TickFlags, Zenon DEF ClockInv, Accounted
    <2>2. ccif0' \/ sr.ccif0 <=> Owed' /\ period % 2 = 0
      BY <1>1, <1>5, TickFlags, Zenon DEF ClockInv, Accounted
    <2>3. QED
      BY <1>1, <2>1, <2>2, Zenon DEF Accounted
  <1>8. Snapshot'
    <2>1. cs \notin {"acknowledge", "next_period"} => ~sr.uif /\ ~sr.ccif0
      BY Zenon DEF ClockInv, Snapshot
    <2>2. ASSUME cs = "next_period"
          PROVE  /\ sr.uif \/ sr.ccif0
                 /\ ~(sr.uif /\ uif') /\ ~(sr.ccif0 /\ ccif0')
      <3>1. /\ sr.uif \/ sr.ccif0
            /\ ~(sr.uif /\ uif) /\ ~(sr.ccif0 /\ ccif0)
        BY <2>2, Zenon DEF ClockInv, Snapshot
      <3>2. Owed
        BY <3>1, Zenon DEF ClockInv, Accounted
      <3>3. Counter' # 0 /\ Counter' # Period
        <4>1. period % 2 = 0 \/ period % 2 = 1
          BY <1>1
        <4>2. /\ period % 2 = 1 => Counter' # 0
              /\ period % 2 = 0 => Counter' # Period
              /\ Counter' = 0 => period % 2 = 1
              /\ Counter' = Period => period % 2 = 0
          BY <1>6, <3>2, TickFlags, Zenon
        <4>3. QED
          BY <4>1, <4>2, Zenon
      <3>4. QED
        BY <1>1, <3>1, <3>3, Zenon
    <2>3. QED
      BY <1>1, <2>1, <2>2, Zenon DEF Snapshot
  <1>9. LoadedInv'
    BY <1>1, <1>2 DEF ClockInv, ClockType, LoadedInv, Tick, InTime
  <1>10. QED
    BY <1>2, <1>4, <1>7, <1>8, <1>9 DEF ClockInv

LEMMA InterruptClock ==
  ASSUME ClockInv, on_timer_interrupt
  PROVE  ClockInv'
  <1>1. /\ UNCHANGED <<time, uif, ccif0, ccif1, ccie1, soon, period, loaded>>
        /\ cs = "idle" /\ cs' = "acknowledge"
        /\ sr' = [uif |-> uif, ccif0 |-> ccif0, ccif1 |-> ccif1, ccie1 |-> ccie1]
    BY DEF on_timer_interrupt, timerVars, alarmVars
  <1>2. ~sr.uif /\ ~sr.ccif0
    BY <1>1, Zenon DEF ClockInv, Snapshot
  <1>3. sr'.uif = uif /\ sr'.ccif0 = ccif0
    BY <1>1
  <1>4. ClockType'
    <2>1. sr' \in [uif : BOOLEAN, ccif0 : BOOLEAN, ccif1 : BOOLEAN, ccie1 : BOOLEAN]
      BY <1>1 DEF ClockInv, ClockType
    <2>2. QED
      BY <1>1, <2>1 DEF ClockInv, ClockType
  <1>5. Lag' /\ LoadedInv' /\ Owed' = Owed
    BY <1>1 DEF ClockInv, Lag, LoadedInv, Owed
  <1>6. Accounted'
    BY <1>1, <1>2, <1>3, <1>5, Zenon DEF ClockInv, Accounted
  <1>7. Snapshot'
    BY <1>1 DEF Snapshot
  <1>8. QED
    BY <1>4, <1>5, <1>6, <1>7 DEF ClockInv

LEMMA AcknowledgeClock ==
  ASSUME ClockInv, acknowledge
  PROVE  ClockInv'
  <1>1. /\ UNCHANGED <<time, period, sr, loaded>>
        /\ cs = "acknowledge"
        /\ uif' = (uif /\ ~sr.uif) /\ ccif0' = (ccif0 /\ ~sr.ccif0)
        /\ ccif1' = (ccif1 /\ ~sr.ccif1)
        /\ UNCHANGED <<ccie1, soon>>
        /\ {uif, ccif0, ccif1, ccie1, soon} \subseteq BOOLEAN
        /\ cs' = IF sr.uif \/ sr.ccif0 THEN "next_period"
                 ELSE IF sr.ccif1 /\ sr.ccie1 THEN "expire" ELSE "idle"
    BY DEF acknowledge, alarmVars, ClockInv, ClockType
  <1>2. ClockType'
    <2>1. {uif', ccif0', ccif1', ccie1', soon'} \subseteq BOOLEAN
      BY <1>1, Zenon
    <2>2. QED
      BY <1>1, <2>1 DEF ClockInv, ClockType
  <1>3. Lag' /\ LoadedInv' /\ Owed' = Owed
    BY <1>1 DEF ClockInv, Lag, LoadedInv, Owed
  <1>4. Accounted'
    BY <1>1, <1>3, Zenon DEF ClockInv, Accounted
  <1>5. Snapshot'
    <2>1. CASE sr.uif \/ sr.ccif0
      <3>1. cs' = "next_period"
        BY <1>1, <2>1, Zenon
      <3>2. QED
        BY <1>1, <2>1, <3>1, Zenon DEF Snapshot
    <2>2. CASE ~(sr.uif \/ sr.ccif0)
      <3>1. cs' # "next_period"
        BY <1>1, <2>2
      <3>2. QED
        BY <1>1, <2>2, <3>1, Zenon DEF Snapshot
    <2>3. QED
      BY <2>1, <2>2
  <1>6. QED
    BY <1>2, <1>3, <1>4, <1>5 DEF ClockInv

LEMMA NextPeriodClock ==
  ASSUME ClockInv, next_period
  PROVE  ClockInv'
  <1>1. /\ UNCHANGED <<time, uif, ccif0, ccif1, soon, loaded>>
        /\ period' = period + 1
        /\ ccie1' = (ccie1 \/ timestamp < period' * Period + Lookahead)
        /\ cs = "next_period"
        /\ sr' = IF sr.uif THEN [sr EXCEPT !.uif = FALSE]
                 ELSE [sr EXCEPT !.ccif0 = FALSE]
        /\ cs' = IF sr'.uif \/ sr'.ccif0 THEN "next_period"
                 ELSE IF sr.ccif1 /\ sr.ccie1 THEN "expire" ELSE "idle"
    BY DEF next_period, timerVars
  <1>2. /\ time \in Nat /\ period \in Nat
        /\ sr \in [uif : BOOLEAN, ccif0 : BOOLEAN, ccif1 : BOOLEAN, ccie1 : BOOLEAN]
    BY DEF ClockInv, ClockType
  <1>3. /\ sr.uif \/ sr.ccif0
        /\ ~(sr.uif /\ uif) /\ ~(sr.ccif0 /\ ccif0)
    BY <1>1, Zenon DEF ClockInv, Snapshot
  <1>4. /\ uif \/ sr.uif <=> Owed /\ period % 2 = 1
        /\ ccif0 \/ sr.ccif0 <=> Owed /\ period % 2 = 0
    BY DEF ClockInv, Accounted
  <1>5. Owed /\ ~(period % 2 = 0 /\ period % 2 = 1)
    <2>1. ~(period % 2 = 0 /\ period % 2 = 1)
      BY <1>2
    <2>2. QED
      BY <1>3, <1>4, <2>1, Zenon
  \* The one flag has been cleared, and it is the only one.
  <1>6. ~uif /\ ~ccif0
    BY <1>3, <1>4, <1>5, Zenon
  <1>7. ~(sr.uif /\ sr.ccif0)
    BY <1>4, <1>5, Zenon
  <1>8. ~sr'.uif /\ ~sr'.ccif0
    <2>1. CASE sr.uif
      <3>1. sr' = [sr EXCEPT !.uif = FALSE] /\ ~sr.ccif0
        BY <1>1, <1>7, <2>1, Zenon
      <3>2. sr'.uif = FALSE /\ sr'.ccif0 = sr.ccif0
        BY <1>2, <3>1, SMT
      <3>3. QED
        BY <3>1, <3>2, Zenon
    <2>2. CASE ~sr.uif
      <3>1. sr' = [sr EXCEPT !.ccif0 = FALSE]
        BY <1>1, <2>2, Zenon
      <3>2. sr'.uif = sr.uif /\ sr'.ccif0 = FALSE
        BY <1>2, <3>1, SMT
      <3>3. QED
        BY <2>2, <3>2, Zenon
    <2>3. QED
      BY <2>1, <2>2
  <1>9. /\ period * Period \in Nat
        /\ (period + 1) * Period = period * Period + Period
        /\ (period + 2) * Period = period * Period + Period + Period
    BY <1>2, Times
  <1>10. ClockType'
    <2>1. sr' \in [uif : BOOLEAN, ccif0 : BOOLEAN, ccif1 : BOOLEAN, ccie1 : BOOLEAN]
      <3>1. CASE sr.uif
        BY <1>1, <1>2, <3>1
      <3>2. CASE ~sr.uif
        BY <1>1, <1>2, <3>2
      <3>3. QED
        BY <3>1, <3>2
    <2>2. {uif', ccif0', ccif1', ccie1', soon'} \subseteq BOOLEAN
      BY <1>1, Zenon DEF ClockInv, ClockType
    <2>3. QED
      BY <1>1, <1>2, <2>1, <2>2 DEF ClockInv, ClockType
  <1>11. period' + 1 = period + 2
    BY <1>1, <1>2
  <1>12. (period' + 1) * Period = (period + 2) * Period
    BY <1>11
  <1>13. /\ (period + 1) * Period <= time
         /\ time < (period + 1) * Period + Latency
    BY <1>5, Zenon DEF ClockInv, Lag, Owed
  <1>14. Lag' /\ ~Owed'
    <2>1. period' * Period = (period + 1) * Period
      BY <1>1
    <2>2. QED
      BY <1>1, <1>2, <1>9, <1>12, <1>13, <2>1, Constants DEF Lag, Owed
  <1>15. Accounted'
    BY <1>1, <1>6, <1>8, <1>14, Zenon DEF Accounted
  <1>16. Snapshot'
    <2>1. cs' # "next_period"
      BY <1>1, <1>8
    <2>2. QED
      BY <1>8, <2>1, Zenon DEF Snapshot
  <1>17. LoadedInv'
    BY <1>1 DEF ClockInv, LoadedInv
  <1>18. QED
    BY <1>10, <1>14, <1>15, <1>16, <1>17 DEF ClockInv

LEMMA LoadsClock ==
  ASSUME ClockInv, now_loads
  PROVE  ClockInv'
  <1>1. /\ UNCHANGED <<timerVars, alarmVars, period, cs, sr>>
        /\ loaded' = [period |-> period, at |-> time]
    BY DEF now_loads
  <1>2. UNCHANGED <<time, uif, ccif0, ccif1, ccie1, soon>>
    BY <1>1 DEF timerVars, alarmVars
  <1>3. loaded' \in [period : Nat, at : Nat]
        /\ loaded'.period = period /\ loaded'.at = time
    BY <1>1 DEF ClockInv, ClockType
  <1>4. ClockType' /\ Lag' /\ Owed' = Owed
    BY <1>1, <1>2, <1>3 DEF ClockInv, ClockType, Lag, Owed
  <1>5. Accounted' /\ Snapshot'
    BY <1>1, <1>2, <1>4, Zenon DEF ClockInv, Accounted, Snapshot
  <1>6. time <= time + Preemption
    BY Constants DEF ClockInv, ClockType
  <1>7. LoadedInv'
    BY <1>2, <1>3, <1>6 DEF ClockInv, ClockType, Lag, LoadedInv
  <1>8. QED
    BY <1>4, <1>5, <1>7 DEF ClockInv

LEMMA ReturnsClock ==
  ASSUME ClockInv, now_returns
  PROVE  ClockInv'
  <1>1. /\ UNCHANGED <<timerVars, alarmVars, period, cs, sr>>
        /\ loaded' = NotLoaded
    BY DEF now_returns
  <1>2. UNCHANGED <<time, uif, ccif0, ccif1, ccie1, soon>>
    BY <1>1 DEF timerVars, alarmVars
  <1>3. ClockType' /\ Lag' /\ Owed' = Owed
    BY <1>1, <1>2 DEF ClockInv, ClockType, Lag, Owed
  <1>4. Accounted' /\ Snapshot'
    BY <1>1, <1>2, <1>3, Zenon DEF ClockInv, Accounted, Snapshot
  <1>5. QED
    BY <1>1, <1>3, <1>4 DEF ClockInv, LoadedInv

LEMMA StepClock == ClockInv /\ [TimeNext]_timeVars => ClockInv'
  <1> SUFFICES ASSUME ClockInv, [TimeNext]_timeVars PROVE ClockInv'
    OBVIOUS
  <1>0. {ccif1, ccie1, soon} \subseteq BOOLEAN
    BY DEF ClockInv, ClockType
  <1>1. CASE Tick
    BY <1>1, TickClock
  <1>2. CASE on_timer_interrupt
    BY <1>2, InterruptClock
  <1>3. CASE acknowledge
    BY <1>3, AcknowledgeClock
  <1>4. CASE next_period
    BY <1>4, NextPeriodClock
  <1>5. CASE now_loads
    BY <1>5, LoadsClock
  <1>6. CASE now_returns
    BY <1>6, ReturnsClock
  <1>7. ASSUME NEW task \in Tasks, NEW at \in AlarmTimes, schedule_wake(task, at)
        PROVE  ClockInv'
    BY <1>0, <1>7, Frame DEF schedule_wake, timerVars, alarmVars
  <1>8. CASE expire
    BY <1>0, <1>8, Frame DEF expire, timerVars
  <1>9. CASE set_alarm_checks
    <2>1. /\ UNCHANGED <<time, uif, ccif0, ccif1, period, sr, loaded>>
          /\ cs = "set" /\ cs' \in {"expire", "set_ccr"}
          /\ ccie1' = FALSE \/ ccie1' = ccie1
          /\ soon' = (timestamp - now < Lookahead) \/ soon' = soon
      BY <1>9 DEF set_alarm_checks, Disarm, timerVars
    <2>2. (timestamp - now < Lookahead) \in BOOLEAN
      OBVIOUS
    <2>3. {ccif1', ccie1', soon'} \subseteq BOOLEAN
      BY <1>0, <2>1, <2>2, Zenon
    <2>4. QED
      BY <2>1, <2>3, Frame
  <1>10. CASE set_alarm_writes
    BY <1>0, <1>10, Frame DEF set_alarm_writes, timerVars
  <1>11. CASE set_alarm_enables
    BY <1>0, <1>11, Frame DEF set_alarm_enables, timerVars
  <1>12. CASE set_alarm_rechecks
    BY <1>0, <1>12, Frame DEF set_alarm_rechecks, Disarm, timerVars
  <1>13. CASE UNCHANGED timeVars
    BY <1>0, <1>13, Frame DEF timeVars, timerVars, alarmVars
  <1>14. QED
    BY <1>1, <1>2, <1>3, <1>4, <1>5, <1>6, <1>7, <1>8, <1>9, <1>10, <1>11, <1>12,
       <1>13 DEF TimeNext, CriticalSection, Thread

LEMMA ClockInductive == TimeSpec => []ClockInv
  BY InitClock, StepClock, PTL DEF TimeSpec

-------------------------------------------------------------------------------
(* The theorem. *)

\* calc_now is right for a period that began no more than two periods ago.
LEMMA CalcNow ==
  ASSUME NEW p \in Nat, NEW k \in Nat, k < Cycle, time = p * Period + k
  PROVE  calc_now(p, Counter) = time
  <1>1. p % 2 = 0 \/ p % 2 = 1
    OBVIOUS
  <1>2. p * Period \in Nat
    BY Times
  <1>3. CASE p % 2 = 0
    <2>1. Counter = k
      BY <1>3, CounterAt DEF Counter
    <2>2. (p % 2) * Period = 0
      BY <1>3, Constants
    <2>3. (k + 0) % Cycle = k
      BY Constants
    <2>4. QED
      BY <2>1, <2>2, <2>3 DEF calc_now
  <1>4. CASE p % 2 = 1
    <2>1. (p % 2) * Period = Period
      BY <1>4, Constants
    <2>2. CASE k < Period
      <3>1. Counter = k + Period
        BY <1>4, <2>2, CounterAt DEF Counter
      <3>2. (k + Period) + Period = 1 * Cycle + k
        BY Constants
      <3>3. (1 * Cycle + k) % Cycle = k
        BY Rest
      <3>4. QED
        BY <2>1, <3>1, <3>2, <3>3 DEF calc_now
    <2>3. CASE ~(k < Period)
      <3>1. Counter = k - Period
        BY <1>4, <2>3, CounterAt DEF Counter
      <3>2. (k - Period) + Period = 0 * Cycle + k
        BY Constants
      <3>3. (0 * Cycle + k) % Cycle = k
        BY Rest
      <3>4. QED
        BY <2>1, <3>1, <3>2, <3>3 DEF calc_now
    <2>4. QED
      BY <2>2, <2>3
  <1>5. QED
    BY <1>1, <1>3, <1>4

LEMMA ClockExact == ClockInv => NowIsExact
  <1> SUFFICES ASSUME ClockInv PROVE NowIsExact
    OBVIOUS
  <1>1. time \in Nat /\ period \in Nat
    BY DEF ClockInv, ClockType
  <1>2. now = time
    <2> DEFINE k == time - period * Period
    <2>1. /\ period * Period \in Nat
          /\ (period + 1) * Period = period * Period + Period
      BY <1>1, Times
    <2>2. k \in Nat /\ k < Cycle /\ time = period * Period + k
      BY <1>1, <2>1, Constants DEF ClockInv, Lag
    <2> HIDE DEF k
    <2>3. QED
      BY <1>1, <2>2, CalcNow DEF now
  <1>3. ASSUME loaded # NotLoaded
        PROVE  calc_now(loaded.period, Counter) = time
    <2> DEFINE p == loaded.period
               k == time - p * Period
    <2>1. p \in Nat /\ loaded.at \in Nat
      BY <1>3 DEF ClockInv, ClockType
    <2>2. /\ p * Period <= loaded.at
          /\ loaded.at < (p + 1) * Period + Latency
          /\ loaded.at <= time
          /\ time <= loaded.at + Preemption
      BY <1>3 DEF ClockInv, LoadedInv
    <2> HIDE DEF p
    <2>3. /\ p * Period \in Nat
          /\ (p + 1) * Period = p * Period + Period
      BY <2>1, Times
    <2>4. k \in Nat /\ k < Cycle /\ time = p * Period + k
      BY <1>1, <2>1, <2>2, <2>3, Constants
    <2> HIDE DEF k
    <2>5. calc_now(p, Counter) = time
      BY <2>1, <2>4, CalcNow
    <2>6. QED
      BY <2>5 DEF p
  <1>4. QED
    BY <1>2, <1>3 DEF NowIsExact

\* RtcDriver::now returns the time at which it reads the counter, whatever the
\* period, if a period interrupt is served within Latency ticks and a preempted
\* now() goes on within Preemption: it never runs ahead, falls back or jumps by
\* a period when it races an overflow.
THEOREM NowExact == TimeSpec => []NowIsExact
  BY ClockInductive, ClockExact, PTL

-------------------------------------------------------------------------------
(* No task is woken early. *)

Queue == expires \in [Tasks -> Nat]

\* No alarm time is taken for "never".
LEMMA Never ==
  /\ MAX \in Nat
  /\ AlarmTimes \subseteq Nat
  /\ \A at \in AlarmTimes : at < MAX
  <1>1. MaxTime \in Nat /\ AlarmTimes \subseteq 0 .. MaxTime
    BY TimingAssumption
  <1>2. /\ Period * (MaxTime + 2) >= MaxTime + 2
        /\ Period * (MaxTime + 2) \in Nat
    BY <1>1, Constants
  <1>3. Cycle * (MaxTime + 2) = Period * (MaxTime + 2) + Period * (MaxTime + 2)
    BY <1>1, Constants
  <1>4. QED
    BY <1>1, <1>2, <1>3 DEF MAX

LEMMA QueueInductive == TimeSpec => []Queue
  <1>1. TimeInit => Queue
    BY Never DEF TimeInit, Queue
  <1>2. Queue /\ [TimeNext]_timeVars => Queue'
    <2> SUFFICES ASSUME Queue, [TimeNext]_timeVars PROVE Queue'
      OBVIOUS
    <2>1. ASSUME NEW task \in Tasks, NEW at \in AlarmTimes, schedule_wake(task, at)
          PROVE  Queue'
      BY <2>1, Never DEF Queue, schedule_wake
    <2>2. CASE expire
      BY <2>2, Never DEF Queue, expire
    <2>3. CASE UNCHANGED expires
      BY <2>3 DEF Queue
    <2>4. QED
      BY <2>1, <2>2, <2>3 DEF TimeNext, CriticalSection, Thread, Tick, on_timer_interrupt,
         set_alarm_checks, set_alarm_writes, set_alarm_enables, set_alarm_rechecks,
         acknowledge, next_period, now_loads, now_returns, timeVars
  <1>3. QED
    BY <1>1, <1>2, PTL DEF TimeSpec

\* A task leaves the queue only when its time has come: Queue::next_expiration
\* drops the tasks that have expired by now(), and now() is exact.
THEOREM NeverWokenEarly == TimeSpec => NeverEarly
  <1> DEFINE Early(task) ==
        expires[task] # MAX /\ expires'[task] = MAX => expires[task] <= time
  <1>1. Queue /\ NowIsExact /\ [TimeNext]_timeVars => [\A task \in Tasks : Early(task)]_timeVars
    <2> SUFFICES ASSUME Queue, NowIsExact, [TimeNext]_timeVars, NEW task \in Tasks
                 PROVE  Early(task)
      OBVIOUS
    <2>1. ASSUME NEW other \in Tasks, NEW at \in AlarmTimes, schedule_wake(other, at)
          PROVE  Early(task)
      BY <2>1, Never DEF Queue, schedule_wake
    <2>2. CASE expire
      BY <2>2 DEF Queue, NowIsExact, expire, Expired
    <2>3. CASE UNCHANGED expires
      BY <2>3
    <2> HIDE DEF Early
    <2>4. QED
      BY <2>1, <2>2, <2>3 DEF TimeNext, CriticalSection, Thread, Tick, on_timer_interrupt,
         set_alarm_checks, set_alarm_writes, set_alarm_enables, set_alarm_rechecks,
         acknowledge, next_period, now_loads, now_returns, timeVars
  <1>2. QED
    BY <1>1, QueueInductive, NowExact, PTL DEF TimeSpec, NeverEarly

-------------------------------------------------------------------------------
(***************************************************************************)
(* No alarm is slept through: the inductive invariant.                     *)
(***************************************************************************)

\* The places where set_alarm's loop is over.
AtRest == cs \in {"idle", "acknowledge", "next_period"}

\* So far that this period, and the time its end may still be counted late, are
\* over before the alarm.
Far == timestamp >= period * Period + Lookahead

\* The alarm is the earliest time in the queue; once it is written, the compare
\* value matches it; as long as its interrupt is disabled, it is far.
AlarmSet ==
  /\ cs # "expire" => \A task \in Tasks : timestamp <= expires[task]
  /\ cs = "set_ccie" \/ cs = "recheck" \/ AtRest =>
       timestamp = MAX \/ ccr1 = timestamp % Cycle
  /\ cs \in {"set_ccr", "set_ccie"} => soon \/ Far
  /\ cs = "recheck" \/ AtRest => ccie1 \/ Far

\* An alarm that is due is flagged and enabled, or the handler has read that it is.
AlarmDue ==
  AtRest /\ timestamp <= time =>
    \/ ccif1 /\ ccie1
    \/ cs = "next_period" /\ sr.ccif1 /\ sr.ccie1

\* The handler clears what it has read before anything can change the enable.
SnapshotFresh == cs = "acknowledge" => sr.ccie1 = ccie1

AlarmInv == TimeTypeOK /\ AlarmSet /\ AlarmDue /\ SnapshotFresh

-------------------------------------------------------------------------------
(* Arithmetic. *)

\* Min is the least element of a set of naturals, by well-foundedness of <.
LEMMA MinIsLeast ==
  ASSUME NEW S \in SUBSET Nat, S # {}
  PROVE  Min(S) \in S /\ \A y \in S : Min(S) <= y
<1>1. PICK x \in S : \A y \in S : ~ (<<y, x>> \in OpToRel(<, Nat))
  BY NatLessThanWellFounded, WFMin
<1>2. ASSUME NEW y \in S PROVE x <= y
  <2>1. y < x => <<y, x>> \in OpToRel(<, Nat)
    BY DEF OpToRel
  <2>2. ~ (y < x)
    BY <1>1, <2>1
  <2>3. x \in Nat /\ y \in Nat
    OBVIOUS
  <2> QED
    BY <2>2, <2>3
<1> QED
  BY <1>1, <1>2 DEF Min

\* A far alarm is not due: the end of the period is counted before it.
LEMMA FarIsLater == ClockInv /\ TimeTypeOK /\ Far => time < timestamp
<1> SUFFICES ASSUME ClockInv, TimeTypeOK, Far PROVE time < timestamp
  OBVIOUS
<1>1. /\ period \in Nat /\ time \in Nat /\ timestamp \in Nat
      /\ period * Period \in Nat
      /\ (period + 1) * Period = period * Period + Period
  BY Times DEF TimeTypeOK, ClockInv, ClockType
<1>2. Lookahead = Period + Period \div 2 /\ Latency <= Period \div 2 /\ Period \div 2 \in Nat
  BY TimingAssumption, SMT DEF Lookahead
<1>3. time < (period + 1) * Period + Latency
  BY DEF ClockInv, Lag
<1> QED
  BY <1>1, <1>2, <1>3, Constants DEF Far

LEMMA MaxIsLater == TimeTypeOK => time < MAX
<1>1. MaxTime \in Nat /\ MaxTime < MAX
  <2>1. MaxTime \in Nat
    BY TimingAssumption
  <2>2. Period * (MaxTime + 2) >= MaxTime + 2 /\ Period * (MaxTime + 2) \in Nat
    BY <2>1, Constants
  <2>3. Cycle * (MaxTime + 2) = Period * (MaxTime + 2) + Period * (MaxTime + 2)
    BY <2>1, Constants
  <2> QED
    BY <2>1, <2>2, <2>3 DEF MAX
<1> QED
  BY <1>1, Never DEF TimeTypeOK

LEMMA ExpirationIsLeast ==
  ASSUME expires \in [Tasks -> Nat], NEW t \in Nat
  PROVE  /\ next_expiration(t) \in Nat
         /\ next_expiration(t) <= MAX
         /\ \A task \in Tasks : ~(expires[task] <= t) => next_expiration(t) <= expires[task]
<1> DEFINE times == {MAX} \cup {expires[task] : task \in Tasks \ Expired(t)}
<1>1. times \in SUBSET Nat /\ times # {}
  BY Never
<1>2. Min(times) \in times /\ \A y \in times : Min(times) <= y
  BY <1>1, MinIsLeast
<1> QED
  BY <1>1, <1>2 DEF next_expiration, Expired

LEMMA LookaheadIsNat == Lookahead \in Nat
  BY TimingAssumption, SMT DEF Lookahead

LEMMA CycleRange == ASSUME NEW t \in Nat PROVE t % Cycle \in 0 .. Cycle - 1
  BY Constants, SMT

-------------------------------------------------------------------------------
(* Types. *)

LEMMA TypeInit == TimeInit => TimeTypeOK
<1> SUFFICES ASSUME TimeInit PROVE TimeTypeOK
  OBVIOUS
<1>1. time \in 0 .. MaxTime /\ ccr1 \in 0 .. Cycle - 1
  BY Constants, TimingAssumption DEF TimeInit
<1>2. timestamp \in Nat /\ expires \in [Tasks -> Nat]
  BY Never DEF TimeInit
<1>3. ClockType
  BY InitClock DEF ClockInv
<1> QED
  BY <1>1, <1>2, <1>3 DEF TimeInit, TimeTypeOK, ClockType

LEMMA TypeStep == ClockInv /\ ClockInv' /\ TimeTypeOK /\ [TimeNext]_timeVars => TimeTypeOK'
<1> SUFFICES ASSUME ClockInv, ClockInv', TimeTypeOK, [TimeNext]_timeVars PROVE TimeTypeOK'
  OBVIOUS
<1>1. /\ period' \in Nat
      /\ {uif', ccif0', ccif1', ccie1', soon'} \subseteq BOOLEAN
      /\ sr' \in [uif : BOOLEAN, ccif0 : BOOLEAN, ccif1 : BOOLEAN, ccie1 : BOOLEAN]
      /\ loaded' \in [period : Nat, at : Nat] \cup {NotLoaded}
  BY DEF ClockInv, ClockType
<1>2. time' \in 0 .. MaxTime
  <2>1. CASE Tick
    BY <2>1, TimingAssumption DEF Tick, TimeTypeOK
  <2>2. CASE UNCHANGED time
    BY <2>2 DEF TimeTypeOK
  <2> QED
    BY <2>1, <2>2 DEF TimeNext, CriticalSection, Thread, on_timer_interrupt, expire,
       set_alarm_checks, set_alarm_writes, set_alarm_enables, set_alarm_rechecks,
       acknowledge, next_period, now_loads, now_returns, schedule_wake, timeVars, timerVars
<1>3. ccr1' \in 0 .. Cycle - 1
  <2>1. CASE set_alarm_writes
    BY <2>1, CycleRange DEF set_alarm_writes, TimeTypeOK
  <2>2. CASE UNCHANGED ccr1
    BY <2>2 DEF TimeTypeOK
  <2> QED
    BY <2>1, <2>2 DEF TimeNext, CriticalSection, Thread, Tick, on_timer_interrupt, expire,
       set_alarm_checks, set_alarm_enables, set_alarm_rechecks,
       acknowledge, next_period, now_loads, now_returns, schedule_wake, timeVars, alarmVars
<1>4. timestamp' \in Nat /\ expires' \in [Tasks -> Nat]
  <2>1. CASE expire
    <3>1. now \in Nat
      BY ClockExact DEF NowIsExact, ClockInv, ClockType
    <3>2. expires \in [Tasks -> Nat]
      BY DEF TimeTypeOK
    <3> QED
      BY <2>1, <3>1, <3>2, ExpirationIsLeast, Never DEF expire
  <2>2. ASSUME NEW task \in Tasks, NEW at \in AlarmTimes, schedule_wake(task, at)
        PROVE  timestamp' \in Nat /\ expires' \in [Tasks -> Nat]
    BY <2>2, Never DEF schedule_wake, TimeTypeOK, alarmVars
  <2>3. CASE UNCHANGED expires /\ (timestamp' = timestamp \/ timestamp' = MAX)
    BY <2>3, Never DEF TimeTypeOK
  <2> QED
    BY <2>1, <2>2, <2>3 DEF TimeNext, CriticalSection, Thread, Tick, on_timer_interrupt,
       set_alarm_checks, set_alarm_writes, set_alarm_enables, set_alarm_rechecks, Disarm,
       acknowledge, next_period, now_loads, now_returns, timeVars, alarmVars
<1>5. cs' \in {"idle", "expire", "set", "set_ccr", "set_ccie", "recheck",
               "acknowledge", "next_period"}
  BY DEF TimeTypeOK, TimeNext, CriticalSection, Thread, Tick, on_timer_interrupt, expire, schedule_wake,
     set_alarm_checks, set_alarm_writes, set_alarm_enables, set_alarm_rechecks, Disarm,
     acknowledge, next_period, now_loads, now_returns, timeVars
<1> QED
  BY <1>1, <1>2, <1>3, <1>4, <1>5 DEF TimeTypeOK

-------------------------------------------------------------------------------
(* The hardware and the handler. *)

\* What a step that leaves the alarm's own state alone keeps.
LEMMA AlarmFrame ==
  ASSUME AlarmSet, UNCHANGED <<alarmVars, period, expires>>,
         cs' = cs \/ (AtRest /\ AtRest')
  PROVE  AlarmSet'
  BY DEF AlarmSet, AtRest, Far, alarmVars

LEMMA AlarmInit == TimeInit => AlarmInv
<1> SUFFICES ASSUME TimeInit PROVE AlarmInv
  OBVIOUS
<1>1. TimeTypeOK
  BY TypeInit
<1>2. Far
  <2>1. 0 * Period = 0 /\ Lookahead \in Nat /\ Lookahead <= Cycle
    BY TimingAssumption, Constants, SMT DEF Lookahead
  <2>2. MaxTime \in Nat
    BY TimingAssumption
  <2>3. Cycle * (MaxTime + 2) >= 2 * Cycle /\ Cycle * (MaxTime + 2) \in Nat
    BY <2>2, Constants, SMT
  <2> QED
    BY <2>1, <2>3, Constants DEF TimeInit, Far, MAX
<1> QED
  BY <1>1, <1>2, MaxIsLater, Never DEF TimeInit, AlarmInv, AlarmSet, AlarmDue, SnapshotFresh, AtRest

LEMMA AlarmTick ==
  ASSUME ClockInv, ClockInv', AlarmInv, TimeTypeOK', Tick
  PROVE  AlarmSet' /\ AlarmDue' /\ SnapshotFresh'
<1>1. AlarmSet' /\ SnapshotFresh'
  BY AlarmFrame DEF AlarmInv, Tick, SnapshotFresh, alarmVars
<1>2. ASSUME AtRest, timestamp <= time', ~(ccif1' /\ ccie1')
      PROVE  cs = "next_period" /\ sr.ccif1 /\ sr.ccie1
  <2>1. time \in Nat /\ timestamp \in Nat /\ time' = time + 1
    BY DEF AlarmInv, TimeTypeOK, Tick
  <2>2. CASE timestamp <= time
    BY <1>2, <2>2 DEF AlarmInv, AlarmDue, Tick, alarmVars
  <2>3. CASE timestamp = time'
    <3>1. ~Far' /\ timestamp' # MAX
      <4>1. (ClockInv /\ TimeTypeOK /\ Far => time < timestamp)' /\ (TimeTypeOK => time < MAX)'
        BY FarIsLater, MaxIsLater, PTL
      <4>2. timestamp' = timestamp /\ time' \in Nat
        BY <2>1 DEF Tick, alarmVars
      <4> QED
        BY <2>3, <4>1, <4>2
    <3>2. ccie1
      BY <1>2, <3>1 DEF AlarmInv, AlarmSet, Far, Tick, alarmVars
    <3>3. timestamp # MAX
      BY <3>1 DEF Tick, alarmVars
    <3>4. Counter' = ccr1
      BY <1>2, <2>3, <3>3 DEF AlarmInv, AlarmSet, Counter
    <3> QED
      BY <1>2, <3>2, <3>4 DEF Tick, alarmVars
  <2> QED
    BY <1>2, <2>1, <2>2, <2>3
<1> QED
  BY <1>1, <1>2 DEF AlarmDue, AtRest, Tick, alarmVars

LEMMA AlarmInterrupt ==
  ASSUME AlarmInv, on_timer_interrupt
  PROVE  AlarmSet' /\ AlarmDue' /\ SnapshotFresh'
<1>1. AlarmSet'
  BY AlarmFrame DEF AlarmInv, on_timer_interrupt, AtRest
<1> QED
  BY <1>1 DEF AlarmInv, AlarmDue, SnapshotFresh, on_timer_interrupt, AtRest, timerVars, alarmVars

LEMMA AlarmAcknowledge ==
  ASSUME ClockInv, AlarmInv, acknowledge
  PROVE  AlarmSet' /\ AlarmDue' /\ SnapshotFresh'
<1>1. /\ cs = "acknowledge" /\ cs' \in {"next_period", "expire", "idle"}
      /\ UNCHANGED <<time, alarmVars, period, expires, sr>>
      /\ sr.ccif1 /\ sr.ccie1 => cs' \in {"next_period", "expire"}
      /\ ccif1' = (ccif1 /\ ~sr.ccif1)
  BY DEF acknowledge
<1>2. AlarmSet'
  BY <1>1 DEF AlarmInv, AlarmSet, AtRest, Far, alarmVars
<1>3. ASSUME timestamp <= time, sr.ccif1 PROVE sr.ccie1
  <2>1. ~Far
    BY <1>3, FarIsLater DEF AlarmInv, TimeTypeOK
  <2> QED
    BY <1>1, <2>1 DEF AlarmInv, AlarmSet, SnapshotFresh, AtRest
<1>4. AlarmDue'
  BY <1>1, <1>3 DEF AlarmInv, AlarmDue, AtRest, alarmVars
<1> QED
  BY <1>1, <1>2, <1>4 DEF SnapshotFresh

LEMMA AlarmNextPeriod ==
  ASSUME ClockInv, ClockInv', AlarmInv, TimeTypeOK', next_period
  PROVE  AlarmSet' /\ AlarmDue' /\ SnapshotFresh'
<1>1. /\ cs = "next_period" /\ cs' \in {"next_period", "expire", "idle"}
      /\ UNCHANGED <<timerVars, ccr1, timestamp, soon, expires>>
      /\ ccie1' = (ccie1 \/ timestamp < period' * Period + Lookahead)
      /\ sr.ccif1 /\ sr.ccie1 => cs' \in {"next_period", "expire"}
      /\ sr' = IF sr.uif THEN [sr EXCEPT !.uif = FALSE] ELSE [sr EXCEPT !.ccif0 = FALSE]
  BY DEF next_period
<1>2. sr'.ccif1 = sr.ccif1 /\ sr'.ccie1 = sr.ccie1
  BY <1>1 DEF AlarmInv, TimeTypeOK
<1>3. ccie1' \/ Far'
  <2>1. timestamp \in Nat /\ timestamp' = timestamp /\ period' \in Nat
    BY <1>1 DEF AlarmInv, TimeTypeOK
  <2>2. period' * Period \in Nat
    BY <2>1, Times
  <2>3. timestamp < period' * Period + Lookahead \/ timestamp >= period' * Period + Lookahead
    BY <2>1, <2>2, LookaheadIsNat
  <2>4. timestamp' >= period' * Period + Lookahead => Far'
    BY DEF Far
  <2> QED
    BY <1>1, <2>1, <2>3, <2>4, Zenon
<1>4. AlarmSet'
  BY <1>1, <1>3 DEF AlarmInv, AlarmSet, AtRest
<1>5. AlarmDue'
  BY <1>1, <1>2 DEF AlarmInv, AlarmDue, AtRest, timerVars
<1> QED
  BY <1>1, <1>4, <1>5 DEF SnapshotFresh

-------------------------------------------------------------------------------
(* The queue and set_alarm. *)

LEMMA AlarmExpire ==
  ASSUME ClockInv, AlarmInv, expire
  PROVE  AlarmSet' /\ AlarmDue' /\ SnapshotFresh'
<1>1. expires \in [Tasks -> Nat] /\ now \in Nat /\ now = time
  BY ClockExact DEF AlarmInv, TimeTypeOK, NowIsExact, ClockInv, ClockType
<1>2. ASSUME NEW task \in Tasks PROVE timestamp' <= expires'[task]
  BY <1>1, ExpirationIsLeast DEF expire, Expired
<1> QED
  BY <1>2 DEF expire, AlarmSet, AlarmDue, SnapshotFresh, AtRest

LEMMA AlarmChecks ==
  ASSUME ClockInv, AlarmInv, set_alarm_checks
  PROVE  AlarmSet' /\ AlarmDue' /\ SnapshotFresh'
<1>1. CASE Disarm
  BY <1>1 DEF Disarm, AlarmSet, AlarmDue, SnapshotFresh, AtRest
<1>2. CASE ~Disarm
  <2>1. /\ cs = "set" /\ cs' = "set_ccr" /\ soon' = (timestamp - now < Lookahead)
        /\ UNCHANGED <<timestamp, period, expires>>
    BY <1>2 DEF set_alarm_checks
  <2>2. soon' \/ Far'
    <3>1. /\ now = time /\ time \in Nat /\ timestamp \in Nat /\ period * Period \in Nat
          /\ period * Period <= time
      BY ClockExact, Times DEF NowIsExact, ClockInv, ClockType, Lag, AlarmInv, TimeTypeOK
    <3>2. CASE timestamp - time < Lookahead
      BY <2>1, <3>1, <3>2
    <3>3. CASE ~(timestamp - time < Lookahead)
      <4>1. timestamp >= period * Period + Lookahead
        BY <3>1, <3>3, LookaheadIsNat
      <4> QED
        BY <2>1, <4>1 DEF Far
    <3> QED
      BY <3>2, <3>3
  <2> QED
    BY <2>1, <2>2 DEF AlarmInv, AlarmSet, AlarmDue, SnapshotFresh, AtRest
<1> QED
  BY <1>1, <1>2

LEMMA AlarmWrites ==
  ASSUME AlarmInv, set_alarm_writes \/ set_alarm_enables
  PROVE  AlarmSet' /\ AlarmDue' /\ SnapshotFresh'
  BY DEF AlarmInv, AlarmSet, AlarmDue, SnapshotFresh, AtRest, Far, set_alarm_writes,
     set_alarm_enables

LEMMA AlarmRechecks ==
  ASSUME ClockInv, AlarmInv, set_alarm_rechecks
  PROVE  AlarmSet' /\ AlarmDue' /\ SnapshotFresh'
<1>1. CASE Disarm
  BY <1>1 DEF Disarm, AlarmSet, AlarmDue, SnapshotFresh, AtRest
<1>2. CASE ~Disarm
  <2>1. now = time /\ time \in Nat /\ timestamp \in Nat
    BY ClockExact DEF NowIsExact, ClockInv, ClockType, AlarmInv, TimeTypeOK
  <2>2. timestamp > time /\ cs = "recheck" /\ cs' = "idle"
        /\ UNCHANGED <<timerVars, ccr1, soon, ccie1, timestamp, period, expires>>
    BY <1>2, <2>1 DEF set_alarm_rechecks
  <2> QED
    BY <2>1, <2>2 DEF AlarmInv, AlarmSet, AlarmDue, SnapshotFresh, AtRest, Far, timerVars
<1> QED
  BY <1>1, <1>2

LEMMA AlarmThread ==
  ASSUME AlarmInv,
         \/ now_loads \/ now_returns \/ UNCHANGED timeVars
         \/ \E task \in Tasks, at \in AlarmTimes : schedule_wake(task, at)
  PROVE  AlarmSet' /\ AlarmDue' /\ SnapshotFresh'
<1>1. CASE now_loads \/ now_returns \/ UNCHANGED timeVars
  BY <1>1 DEF AlarmInv, AlarmSet, AlarmDue, SnapshotFresh, AtRest, Far, now_loads, now_returns,
     timeVars, timerVars, alarmVars
<1>2. ASSUME NEW task \in Tasks, NEW at \in AlarmTimes, schedule_wake(task, at)
      PROVE  AlarmSet' /\ AlarmDue' /\ SnapshotFresh'
  <2>1. CASE cs' = "expire"
    BY <2>1 DEF AlarmSet, AlarmDue, SnapshotFresh, AtRest
  <2>2. CASE cs' # "expire"
    BY <1>2, <2>2 DEF AlarmInv, AlarmSet, AlarmDue, SnapshotFresh, AtRest, Far, schedule_wake,
       timerVars, alarmVars
  <2> QED
    BY <2>1, <2>2
<1> QED
  BY <1>1, <1>2

LEMMA AlarmStep == ClockInv /\ ClockInv' /\ AlarmInv /\ [TimeNext]_timeVars => AlarmInv'
<1> SUFFICES ASSUME ClockInv, ClockInv', AlarmInv, [TimeNext]_timeVars PROVE AlarmInv'
  OBVIOUS
<1>1. TimeTypeOK'
  BY TypeStep DEF AlarmInv
<1>2. AlarmSet' /\ AlarmDue' /\ SnapshotFresh'
  BY <1>1, AlarmTick, AlarmInterrupt, AlarmAcknowledge, AlarmNextPeriod, AlarmExpire,
     AlarmChecks, AlarmWrites, AlarmRechecks, AlarmThread DEF TimeNext, CriticalSection, Thread
<1> QED
  BY <1>1, <1>2 DEF AlarmInv

LEMMA AlarmInductive == TimeSpec => [](ClockInv /\ AlarmInv)
  BY InitClock, StepClock, AlarmInit, AlarmStep, PTL DEF TimeSpec

-------------------------------------------------------------------------------
(* The theorems. *)

\* The driver's registers, count, queue and snapshot keep their types.
THEOREM DriverTypes == TimeSpec => []TimeTypeOK
  BY AlarmInductive, PTL DEF AlarmInv

\* RtcDriver's loop around set_alarm leaves the alarm at the earliest time waited
\* for, however many tasks wait and whatever expires while it is set.
THEOREM AlarmEarliest == TimeSpec => []AlarmIsEarliest
<1>1. AlarmInv => AlarmIsEarliest
  BY DEF AlarmInv, AlarmSet, AlarmIsEarliest
<1> QED
  BY <1>1, AlarmInductive, PTL

\* set_alarm and next_period: when the driver is at rest, a task whose time has come
\* has an enabled alarm interrupt pending, whatever the period's length and however
\* the counter runs between the steps of set_alarm and of the handler.
THEOREM AlarmNeverMissed == TimeSpec => []NoMissedAlarm
<1>1. AlarmInv => NoMissedAlarm
  <2> SUFFICES ASSUME AlarmInv, cs = "idle", NEW task \in Tasks, expires[task] <= time
               PROVE  ccif1 /\ ccie1
    BY DEF NoMissedAlarm
  <2>1. timestamp \in Nat /\ time \in Nat /\ expires[task] \in Nat
    BY DEF AlarmInv, TimeTypeOK
  <2>2. timestamp <= expires[task]
    BY DEF AlarmInv, AlarmSet
  <2> QED
    BY <2>1, <2>2 DEF AlarmInv, AlarmDue, AtRest
<1> QED
  BY <1>1, AlarmInductive, PTL

================================================================================
