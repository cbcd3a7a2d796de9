\* Two pools, each with or without a semaphore.
SPECIFICATION PoolSpec
CONSTANTS
  p1 = p1
  p2 = p2
  p3 = p3
  Procs <- ThreeProcs
  NBPOOLS = 2
  PoolSizes = {1, 2}
  MaxBufs = 3
  MaxKills = 1
SYMMETRY Interchangeable
INVARIANTS
  PoolTypeOK
  BuffersCounted
  BufferInOnePlace
PROPERTIES
  PoolsSurvive
CHECK_DEADLOCK FALSE
