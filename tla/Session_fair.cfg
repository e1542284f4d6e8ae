SPECIFICATION FairSpec
CONSTANTS
  None = None
  p1 = p1
  p2 = p2
  Peer = {p1, p2}
  InputDelay = 0
  Redundancy = 2
  Window = 2
  History = 2
  DigestPeriod = 2
  MaxTick = 3
  MayDiffer = {}
  MayFork = {p1}
  MayLeave = {p2}
INVARIANT LockstepSkew
INVARIANT RunCoversNeed
PROPERTY EveryTickConfirms
PROPERTY EndsTogether
PROPERTY ForkIsFound
