SPECIFICATION FairSpec
CONSTANTS
  idle = idle  t1 = t1  t2 = t2  t3 = t3
  NoThread = NoThread
  Idle = idle
  Threads <- TwoThreads
  MaxPrio = 3
  MaxThread = 3
  TimeQuantum = 2
  NumWait = 0
  UMax = 7
  TickPoints <- NotInWindows
  Calls <- SoundCalls
  UserPrios = {0, 1}
  MaxDelay = 1
  CallTids = {1, 2}
INVARIANTS NoCrash ListsMatchStates TableExact InterruptsOn
PROPERTIES PrioritySpec ReadyRuns DelayEnds TerminatedReaped
