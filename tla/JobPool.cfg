SPECIFICATION FairSpec
CONSTANTS
  N = 2
  MaxChunks = 3
  MaxDispatches = 3
  EpochMod = 2
INVARIANT NoDanglingFrame
INVARIANT NoLostWakeup
PROPERTY ImplementsParallelFor
PROPERTY CallsReturn
PROPERTY DropJoins
