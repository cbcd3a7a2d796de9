\* main and two more processes, one of them real-time and one that blocks.
SPECIFICATION ClassFairSpec
CONSTANTS
  NPROC = 3
  Prio <- MCPrio
  RealTime = {3}
  Blockers = {2}
  QUANTUM = 2
INVARIANTS
  ClassTypeOK
  ListIsReady
PROPERTIES
  EpochWhenSpent
  NoStarvation
CHECK_DEADLOCK FALSE
