--------------------------------- MODULE SysTick -------------------------------
(***************************************************************************)
(* The SysTick time driver: an exception per tick counts it and, when the  *)
(* alarm is due, wakes the tasks whose time has come.  Everything runs in  *)
(* critical sections, and a tick is served before the next one comes.      *)
(***************************************************************************)
EXTENDS Integers, FiniteSets, FiniteSetsExt

CONSTANTS
  Sleepers,    \* tasks that call schedule_wake
  LastTick     \* bound: ticks, and the times asked for

ASSUME SysTickAssumption == LastTick \in Nat

VARIABLES
  ticks,    \* SysTickDriver.ticks
  alarm,    \* AlarmState.timestamp
  wakes,    \* Queue: when each task is to be woken, or Never
  late      \* ghost: the ticks by which the tasks woken last were late

tickVars == <<ticks, alarm, wakes, late>>

Never == LastTick + 2    \* u64::MAX

-------------------------------------------------------------------------------
(* Queue: next_expiration wakes what has expired and returns the next time. *)

Expired(queue, now) == {t \in Sleepers : queue[t] <= now}
Left(queue, now) == [t \in Sleepers |-> IF queue[t] <= now THEN Never ELSE queue[t]]
NextExpiration(queue) == Min({queue[t] : t \in Sleepers} \cup {Never})

\* The loop around set_alarm: a time that is not in the future is refused, and
\* what has expired by then is woken too.
SetAlarm(queue, at, now) ==
  LET first == Left(queue, at)
      rest == IF NextExpiration(first) <= now THEN Left(first, now) ELSE first
  IN /\ wakes' = rest
     /\ alarm' = NextExpiration(rest)
     /\ late' = {now - queue[t] : t \in {s \in Sleepers : queue[s] # rest[s]}}

-------------------------------------------------------------------------------
\* Mutant: the alarm is compared with the time strictly.
on_systick_strict ==
  /\ ticks < LastTick
  /\ ticks' = ticks + 1
  /\ IF alarm # Never /\ ticks > alarm
     THEN SetAlarm(wakes, ticks, ticks + 1)
     ELSE late' = {} /\ UNCHANGED <<alarm, wakes>>

\* check_and_trigger_alarm gets the count before the increment.
on_systick ==
  /\ ticks < LastTick
  /\ ticks' = ticks + 1
  /\ IF alarm # Never /\ ticks >= alarm
     THEN SetAlarm(wakes, ticks, ticks + 1)
     ELSE late' = {} /\ UNCHANGED <<alarm, wakes>>

\* An earlier time replaces a task's later one; the queue is otherwise unchanged
\* and the alarm stays.
schedule_wake(task, at) ==
  /\ UNCHANGED ticks
  /\ IF at <= wakes[task]
     THEN SetAlarm([wakes EXCEPT ![task] = at], ticks, ticks)
     ELSE late' = {} /\ UNCHANGED <<alarm, wakes>>

-------------------------------------------------------------------------------
TickInit ==
  /\ ticks = 0 /\ alarm = Never
  /\ wakes = [t \in Sleepers |-> Never]
  /\ late = {}

TickNext ==
  \/ on_systick
  \/ \E t \in Sleepers, at \in 0 .. LastTick : schedule_wake(t, at)

TickSpec == TickInit /\ [][TickNext]_tickVars

-------------------------------------------------------------------------------
\* A task that sleeps in the driver's queue is woken at the first tick after its
\* time, never before it and never later: the alarm is the earliest time in the
\* queue, whatever is scheduled in between.  (A time already over is woken at once.)
WokenInTime ==
  /\ \A t \in Sleepers : wakes[t] >= ticks
  /\ \A n \in late : n >= 0
  /\ alarm = NextExpiration(wakes)

================================================================================
