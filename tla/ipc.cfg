SPECIFICATION IpcSpec
CONSTANTS
  idle = idle  t1 = t1  t2 = t2  t3 = t3  s1 = s1  s2 = s2
  NoThread = NoThread
  NoStruct = NoStruct
  Idle = idle
  Threads <- ThreeThreads
  MsgStructs <- Structs
  MaxPrio = 3
  MaxThread = 4
  TimeQuantum = 1
  NumWait = 1
  UMax = 7
  TickPoints <- NotInLeave
  Calls = {"yield"}
  UserPrios = {0, 1}
  MaxDelay = 0
  CallTids = {}
  SemMax = 2
  MaxSends = 2
SYMMETRY Symmetry
INVARIANTS IpcTypeOK InterruptsFollowThread WaitersMeanEmpty MessageInOnePlace
PROPERTIES SemaphoreSpec ChannelSpec
