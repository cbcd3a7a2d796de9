\* Two processes and the null process, a ring of three, two characters typed ahead.
SPECIFICATION TtySpec
CONSTANTS
  p1 = p1
  p2 = p2
  Procs <- TwoProcs
  NULLPROC = null
  NOBODY = nobody
  COMBUFSZ = 3
  IBLEN = 2
  Keys = {"cr", "nl", "word", "space", "erase", "werase"}
  ReadLens = {1}
  MaxKeys = 3
  MaxPuts = 1
SYMMETRY Interchangeable
INVARIANTS
  TtyTypeOK
  SpaceCounted
PROPERTIES
  LineKept
CHECK_DEADLOCK FALSE
