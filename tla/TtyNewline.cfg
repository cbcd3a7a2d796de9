SPECIFICATION TtySpec
CONSTANTS
  p1 = p1
  p2 = p2
  Procs <- TwoProcs
  NULLPROC = null
  NOBODY = nobody
  COMBUFSZ = 3
  IBLEN = 2
  Keys = {"cr", "nl", "word", "space", "eof", "erase", "werase", "reprint"}
  ReadLens = {1, 2}
  MaxKeys = 2
  MaxPuts = 3
SYMMETRY Interchangeable
INVARIANT OutputKept
CHECK_DEADLOCK FALSE
