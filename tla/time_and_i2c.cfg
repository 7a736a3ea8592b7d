CONSTANTS
  Tasks = {t1, t2}
  Period = 4
  Latency = 2
  Preemption = 2
  AlarmTimes = {3, 8, 9, 14}
  MaxTime = 18
  MaxOps = 3
  MaxLen = 2
  Prompt = TRUE
SPECIFICATION TimeI2cSpec
INVARIANTS TimeTypeOK NowIsExact NoMissedAlarm AlarmIsEarliest TypeOK WireContract ErrorIsReal QuietWhenIdle NoLostWakeup
PROPERTIES NeverEarly EveryTaskWoken Completes
CHECK_DEADLOCK FALSE
