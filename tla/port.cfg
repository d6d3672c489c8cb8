CONSTANTS
 t1 = t1
 t2 = t2
 Threads = {t1,t2}
 Readers = {t1}
 Junk = Junk
 PerMicro = 2
 PeriodMicros = 2
 Period = 4
 PerSecond = 2
 MaxPeriods = 2
SPECIFICATION Spec
INVARIANTS TypeOK ResumesWhereSaved
PROPERTIES ReadingExact
CHECK_DEADLOCK FALSE
