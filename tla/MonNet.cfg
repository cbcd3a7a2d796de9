\* Four buffers, two ARP entries, three hosts, a card that holds one frame, two boots.
SPECIFICATION MonFairSpec
CONSTANTS
  NBUFS = 4
  QMAX = 4
  TSIZE = 2
  RING = 1
  Hosts = {h1, h2, h3}
  ClassD = {h3}
  None = None
  MaxBoots = 2
INVARIANTS
  MonTypeOK
  InOnePlace
PROPERTIES
  OnlyTheTableLoses
  QueueDrains
CHECK_DEADLOCK FALSE
