\* The delta list, its cached head, wakeups and time slicing: three user processes of one priority.
SPECIFICATION LiveSpec
CONSTANTS
  NPROC = 4
  QUANTUM = 1
  STACKS = 3
  INITPRIO = 2
  Prios = {2}
  NewPrios = {}
  NSEM = 0
  SemCounts = {}
  SignalCounts = {}
  MaxSemCnt = 1
  SleepTicks = {1, 2}
  MaxDefer = 0
  Msgs = {}
  RecvTicks = {}
  Noks = {}
  MaxUndercount = 0
INVARIANTS
  ClockCacheCoherent
  SleepersQueued
PROPERTIES
  TimersExact
  SleepersWake
  EqualsTakeTurns
