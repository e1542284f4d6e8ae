SPECIFICATION Spec
CONSTANTS
  None = None
  p1 = p1
  p2 = p2
  Peer = {p1, p2}
  InputDelay = 1
  Redundancy = 2
  Window = 2
  History = 2
  DigestPeriod = 1
  MaxTick = 3
  MayDiffer = {p2}
  MayFork = {p1}
  MayLeave = {p1}
INVARIANT ConfirmedAgree
INVARIANT DesyncIsReal
PROPERTY ImplementsLockstep
PROPERTY NeverForgets
