SPECIFICATION FairSpec
CONSTANTS
  None = None
  p1 = p1
  p2 = p2
  Peer = {p1, p2}
  InputDelay = 8
  Redundancy = 8
  Window = 64
  History = 16
  DigestPeriod = 30
  MaxTick = 9
  MayDiffer = {}
  MayFork = {}
  MayLeave = {}
PROPERTY EveryTickConfirms
