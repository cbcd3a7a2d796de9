\* A file of three blocks, two boots, one repeated request and one resent acknowledgement.
SPECIFICATION BootFairSpec
CONSTANTS
  NBLOCKS = 3
  MON_MAX_TRY = 1
  MAXRETX = 1
  MaxBoots = 2
  MaxStray = 1
INVARIANTS
  BootTypeOK
  AckedIsStored
PROPERTIES
  LoadsTheFile
  BootEnds
CHECK_DEADLOCK FALSE
