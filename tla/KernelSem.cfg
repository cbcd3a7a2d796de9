\* Semaphores with creation, suspension, killing and preemption: three user processes.
SPECIFICATION Spec
CONSTANTS
  NPROC = 4
  QUANTUM = 1
  STACKS = 4
  INITPRIO = 1
  Prios = {2}
  NewPrios = {}
  NSEM = 1
  SemCounts = {0}
  SignalCounts = {2}
  MaxSemCnt = 1
  SleepTicks = {}
  MaxDefer = 0
  Msgs = {}
  RecvTicks = {}
  Noks = {}
  MaxUndercount = 0
INVARIANTS
  TypeOK
  ReadyListConsistent
  SemCountIsQueue
  WaitersQueued
  NumprocExact
  StacksOwned
