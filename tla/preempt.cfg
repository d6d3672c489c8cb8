SPECIFICATION Spec
CONSTANTS
  idle = idle  t1 = t1  t2 = t2  t3 = t3
  NoThread = NoThread
  Idle = idle
  Threads <- TwoThreads
  MaxPrio = 3
  MaxThread = 3
  TimeQuantum = 2
  NumWait = 0
  UMax = 7
  TickPoints <- Everywhere
  Calls <- AllCalls
  UserPrios = {0, 1, 2}
  MaxDelay = 2
  CallTids = {0, 1, 2, 3}
SYMMETRY Symmetry
INVARIANTS TypeOK ReadyFlagged StaleFlagBlocked CountersPositive
PROPERTIES DispatchHighest NoRefillUnderInversion
