------------------------------ MODULE TimeDriver ------------------------------
(***************************************************************************)
(* The timer-based embassy time driver: a free-running counter of two      *)
(* periods, a software count of the periods, one compare channel for the   *)
(* next alarm, and the queue of the tasks that wait for a time.            *)
(*                                                                         *)
(* Everything but now() runs in a critical section, so at most one of the  *)
(* interrupt handler and schedule_wake is in progress (cs); the counter    *)
(* goes on counting between any two of its steps.  now() runs in a thread  *)
(* that the handler may preempt between its two loads.                     *)
(***************************************************************************)
EXTENDS Integers, FiniteSets, FiniteSetsExt

CONSTANTS
  Tasks,       \* tasks that call schedule_wake
  Period,      \* ticks of one period: 0x8000 in the code
  Latency,     \* a period interrupt is served in less than this many ticks
  Preemption,  \* ticks that may pass between the two loads of a thread's now()
  AlarmTimes,  \* bound: the times schedule_wake is called with
  MaxTime      \* bound: ticks

\* Half a period is the slack between a period's start and the first alarm that
\* next_period enables; 0xc000 is one period and a half.
ASSUME TimingAssumption ==
  /\ Period \in Nat \ {0} /\ Period % 2 = 0
  /\ Latency \in 1 .. Period \div 2
  /\ Preemption \in 0 .. Period - Latency
  /\ MaxTime \in Nat
  /\ AlarmTimes \subseteq 0 .. MaxTime

VARIABLES
  time,       \* ticks since the start; the counter register is time % (2 * Period)
  uif,        \* overflow flag
  ccif0,      \* compare flag of the midway point
  ccif1,      \* compare flag of the alarm
  ccie1,      \* the alarm's interrupt enable
  ccr1,       \* the alarm's compare value
  period,     \* RtcDriver.period
  timestamp,  \* RtcDriver.alarm.timestamp
  expires,    \* RtcDriver.queue: when each task is to be woken, or MAX
  cs,         \* where the critical section in progress is
  sr,         \* the flags the interrupt handler has read
  soon,       \* set_alarm: the alarm is less than Lookahead away
  loaded      \* now() in a thread: the period and the time it was loaded at

timerVars == <<time, uif, ccif0, ccif1>>
alarmVars == <<ccie1, ccr1, timestamp, soon>>
timeVars == <<timerVars, alarmVars, period, expires, cs, sr, loaded>>

Lookahead == Period + Period \div 2

Cycle == 2 * Period

\* u64::MAX: later than anything, and all ones in the counter's width.
MAX == Cycle * (MaxTime + 2) - 1

NotLoaded == [period |-> -1, at |-> -1]

Counter == time % Cycle

-------------------------------------------------------------------------------
(* The hardware: the counter and the flags it raises. *)

\* How long interrupts are held off, and how long a thread's now() takes.
InTime(t) ==
  /\ t < (period + 1) * Period + Latency
  /\ loaded # NotLoaded => t <= loaded.at + Preemption

Tick ==
  /\ time < MaxTime
  /\ InTime(time + 1)
  /\ time' = time + 1
  /\ uif' = (uif \/ Counter' = 0)
  /\ ccif0' = (ccif0 \/ Counter' = Period)
  /\ ccif1' = (ccif1 \/ Counter' = ccr1)
  /\ UNCHANGED <<alarmVars, period, expires, cs, sr, loaded>>

-------------------------------------------------------------------------------
(* now(). *)

\* Mutant: the counter is taken as it is, whatever the parity of the period.
calc_now_plain(p, counter) == (p * Period) + (counter % Period)

\* Mutant: the counter's half is counted a second time in odd periods.
calc_now_twice(p, counter) == p * Period + counter

\* counter ^ ((p & 1) << 15) turns the counter's half around in odd periods.
calc_now(p, counter) ==
  (p * Period) + ((counter + (p % 2) * Period) % Cycle)

\* In a critical section the period cannot change between the two loads.
now == calc_now(period, Counter)

now_loads ==
  /\ cs = "idle"
  /\ loaded = NotLoaded
  /\ loaded' = [period |-> period, at |-> time]
  /\ UNCHANGED <<timerVars, alarmVars, period, expires, cs, sr>>

now_returns ==
  /\ cs = "idle"
  /\ loaded # NotLoaded
  /\ loaded' = NotLoaded
  /\ UNCHANGED <<timerVars, alarmVars, period, expires, cs, sr>>

-------------------------------------------------------------------------------
(* Queue::schedule_wake and Queue::next_expiration, called by the driver's     *)
(* schedule_wake and by its loop around set_alarm.                             *)

schedule_wake(task, at) ==
  /\ cs = "idle"
  /\ cs' = IF at <= expires[task] THEN "expire" ELSE "idle"
  /\ expires' = IF at <= expires[task] THEN [expires EXCEPT ![task] = at]
                ELSE expires
  /\ UNCHANGED <<timerVars, alarmVars, period, sr, loaded>>

Expired(t) == {task \in Tasks : expires[task] <= t}

next_expiration(t) == Min({MAX} \cup {expires[task] : task \in Tasks \ Expired(t)})

\* The expired tasks are woken, and set_alarm stores the time of the next one.
expire ==
  /\ cs = "expire"
  /\ expires' = [task \in Tasks |->
                   IF task \in Expired(now) THEN MAX ELSE expires[task]]
  /\ timestamp' = next_expiration(now)
  /\ cs' = "set"
  /\ UNCHANGED <<timerVars, ccie1, ccr1, soon, period, sr, loaded>>

-------------------------------------------------------------------------------
(* The rest of set_alarm. *)

\* Mutant: the caller does not look for the next expiration.
DisarmOnly ==
  /\ ccie1' = FALSE
  /\ timestamp' = MAX
  /\ cs' = "idle"

Disarm ==
  /\ ccie1' = FALSE
  /\ timestamp' = MAX
  /\ cs' = "expire"

set_alarm_checks ==
  /\ cs = "set"
  /\ \/ timestamp <= now /\ Disarm /\ UNCHANGED soon
     \/ /\ timestamp > now
        /\ soon' = (timestamp - now < Lookahead)
        /\ cs' = "set_ccr"
        /\ UNCHANGED <<ccie1, timestamp>>
  /\ UNCHANGED <<timerVars, ccr1, period, expires, sr, loaded>>

\* Mutant: the compare value is not cut to the counter's width.
set_alarm_writes_wide ==
  /\ cs = "set_ccr"
  /\ ccr1' = timestamp
  /\ cs' = "set_ccie"
  /\ UNCHANGED <<timerVars, ccie1, timestamp, soon, period, expires, sr, loaded>>

set_alarm_writes ==
  /\ cs = "set_ccr"
  /\ ccr1' = timestamp % Cycle
  /\ cs' = "set_ccie"
  /\ UNCHANGED <<timerVars, ccie1, timestamp, soon, period, expires, sr, loaded>>

set_alarm_enables ==
  /\ cs = "set_ccie"
  /\ ccie1' = soon
  /\ cs' = "recheck"
  /\ UNCHANGED <<timerVars, ccr1, timestamp, soon, period, expires, sr, loaded>>

set_alarm_rechecks ==
  /\ cs = "recheck"
  /\ \/ timestamp <= now /\ Disarm
     \/ timestamp > now /\ cs' = "idle" /\ UNCHANGED <<ccie1, timestamp>>
  /\ UNCHANGED <<timerVars, ccr1, soon, period, expires, sr, loaded>>

-------------------------------------------------------------------------------
(* on_timer_interrupt. *)

TimerPending == uif \/ ccif0 \/ (ccif1 /\ ccie1)

on_timer_interrupt ==
  /\ cs = "idle"
  /\ TimerPending
  /\ sr' = [uif |-> uif, ccif0 |-> ccif0, ccif1 |-> ccif1, ccie1 |-> ccie1]
  /\ cs' = "acknowledge"
  /\ UNCHANGED <<timerVars, alarmVars, period, expires, loaded>>

\* Mutant: all the flags are cleared, not only those that were read.
acknowledge_all ==
  /\ cs = "acknowledge"
  /\ uif' = FALSE
  /\ ccif0' = FALSE
  /\ ccif1' = FALSE
  /\ cs' = IF sr.uif \/ sr.ccif0 THEN "next_period"
           ELSE IF sr.ccif1 /\ sr.ccie1 THEN "expire" ELSE "idle"
  /\ UNCHANGED <<time, alarmVars, period, expires, sr, loaded>>

\* Only the flags that were read are cleared.
acknowledge ==
  /\ cs = "acknowledge"
  /\ uif' = (uif /\ ~sr.uif)
  /\ ccif0' = (ccif0 /\ ~sr.ccif0)
  /\ ccif1' = (ccif1 /\ ~sr.ccif1)
  /\ cs' = IF sr.uif \/ sr.ccif0 THEN "next_period"
           ELSE IF sr.ccif1 /\ sr.ccie1 THEN "expire" ELSE "idle"
  /\ UNCHANGED <<time, alarmVars, period, expires, sr, loaded>>

\* Mutant: a distant alarm is not enabled when its period comes.
next_period_only ==
  /\ cs = "next_period"
  /\ period' = period + 1
  /\ sr' = IF sr.uif THEN [sr EXCEPT !.uif = FALSE] ELSE [sr EXCEPT !.ccif0 = FALSE]
  /\ cs' = IF sr'.uif \/ sr'.ccif0 THEN "next_period"
           ELSE IF sr.ccif1 /\ sr.ccie1 THEN "expire" ELSE "idle"
  /\ UNCHANGED <<timerVars, alarmVars, expires, loaded>>

\* Once for an overflow and once for the midway point.
next_period ==
  /\ cs = "next_period"
  /\ period' = period + 1
  /\ ccie1' = (ccie1 \/ timestamp < period' * Period + Lookahead)
  /\ sr' = IF sr.uif THEN [sr EXCEPT !.uif = FALSE] ELSE [sr EXCEPT !.ccif0 = FALSE]
  /\ cs' = IF sr'.uif \/ sr'.ccif0 THEN "next_period"
           ELSE IF sr.ccif1 /\ sr.ccie1 THEN "expire" ELSE "idle"
  /\ UNCHANGED <<timerVars, ccr1, timestamp, soon, expires, loaded>>

-------------------------------------------------------------------------------
\* init: both period interrupts enabled, no alarm, an empty queue.
TimeInit ==
  /\ time = 0
  /\ uif = FALSE /\ ccif0 = FALSE /\ ccif1 = FALSE
  /\ ccie1 = FALSE
  /\ ccr1 = 0
  /\ period = 0
  /\ timestamp = MAX
  /\ expires = [task \in Tasks |-> MAX]
  /\ cs = "idle"
  /\ sr = [uif |-> FALSE, ccif0 |-> FALSE, ccif1 |-> FALSE, ccie1 |-> FALSE]
  /\ soon = FALSE
  /\ loaded = NotLoaded

CriticalSection ==
  \/ expire \/ set_alarm_checks \/ set_alarm_writes \/ set_alarm_enables
  \/ set_alarm_rechecks \/ acknowledge \/ next_period

Thread ==
  \/ now_loads \/ now_returns
  \/ \E task \in Tasks, at \in AlarmTimes : schedule_wake(task, at)

TimeNext == Tick \/ on_timer_interrupt \/ CriticalSection \/ Thread

\* A pending interrupt is served, a critical section ends, and so does now().
TimeServed ==
  /\ SF_timeVars(on_timer_interrupt)
  /\ WF_timeVars(CriticalSection)
  /\ SF_timeVars(now_returns)

TimeFairness == WF_timeVars(Tick) /\ TimeServed

TimeSpec == TimeInit /\ [][TimeNext]_timeVars

TimeFairSpec == TimeSpec /\ TimeFairness

-------------------------------------------------------------------------------
(* Properties. *)

\* Types; a timestamp is a time some task waits for, or MAX.
TimeTypeOK ==
  /\ time \in 0 .. MaxTime
  /\ {uif, ccif0, ccif1, ccie1, soon} \subseteq BOOLEAN
  /\ ccr1 \in 0 .. Cycle - 1
  /\ period \in Nat
  /\ timestamp \in Nat
  /\ expires \in [Tasks -> Nat]
  /\ cs \in {"idle", "expire", "set", "set_ccr", "set_ccie", "recheck",
             "acknowledge", "next_period"}
  /\ sr \in [uif : BOOLEAN, ccif0 : BOOLEAN, ccif1 : BOOLEAN, ccie1 : BOOLEAN]
  /\ loaded \in [period : Nat, at : Nat] \cup {NotLoaded}

\* now() is the time at which it reads the counter, although the period count
\* lags behind the counter until the interrupt is served: "This allows for now()
\* to return the correct value even if it races an overflow".
NowIsExact ==
  /\ now = time
  /\ loaded # NotLoaded => calc_now(loaded.period, Counter) = time

\* When the driver is at rest, a task whose time has come has an enabled alarm
\* interrupt pending: no alarm is slept through for a whole turn of the counter.
NoMissedAlarm ==
  cs = "idle" =>
    \A task \in Tasks : expires[task] <= time => ccif1 /\ ccie1

\* set_alarm's loop leaves the alarm at the earliest time waited for.
AlarmIsEarliest ==
  cs \in {"idle", "acknowledge", "next_period"} =>
    \A task \in Tasks : timestamp <= expires[task]

\* A task leaves the queue only when its time has come.
NeverEarly ==
  [][\A task \in Tasks :
       expires[task] # MAX /\ expires'[task] = MAX => expires[task] <= time
    ]_timeVars

\* Every task that waits for a time is woken.
EveryTaskWoken ==
  \A task \in Tasks : expires[task] # MAX ~> expires[task] = MAX

===============================================================================
