SPECIFICATION Spec
CONSTANTS
  Dt = 3
  Budget = 2
  Escape = Escape
  Left = Left
  OtherKeys = {Space}
  Bound = {Space, Left}
  Resume = Resume
  Restart = Restart
  OtherNodes = {}
  QueueLimit = 2
  EntitySlots <- MCEntitySlots
  SnapshotSlots <- MCSnapshotSlots
  PipeInterval = 2
  PipeSpawnX = 2
  PipeWidth = 0
  TicksWanted = 5
  FlapMax = 2
  Gaps <- MCGaps
  MaxEvents = 2
INVARIANT StoresAgree
INVARIANT BlendsOneTick
INVARIANT TapIsKept
INVARIANT NoStuckKey
PROPERTY PictureMovesOn
CHECK_DEADLOCK FALSE
