\* Messages, timed receives, chprio, and kills whose death notice preempts the killer.
SPECIFICATION Spec
CONSTANTS
  NPROC = 3
  QUANTUM = 1
  STACKS = 2
  INITPRIO = 2
  Prios = {1}
  NewPrios = {3}
  NSEM = 0
  SemCounts = {}
  SignalCounts = {}
  MaxSemCnt = 1
  SleepTicks = {}
  MaxDefer = 1
  Msgs = {1}
  RecvTicks = {2}
  Noks = {2}
  MaxUndercount = 1
INVARIANTS
  NoLostMessage
  LastDeathReported
PROPERTIES
  TimersExact
