\* Less is typed and more is written; fairness, and no symmetry.
SPECIFICATION TtyFairSpec
CONSTANTS
  p1 = p1
  p2 = p2
  Procs <- TwoProcs
  NULLPROC = null
  NOBODY = nobody
  COMBUFSZ = 3
  IBLEN = 2
  Keys = {"cr", "eof", "reprint"}
  ReadLens = {2}
  MaxKeys = 1
  MaxPuts = 3
PROPERTIES
  WritersGoOn
CHECK_DEADLOCK FALSE
