SPECIFICATION Spec
CONSTANTS
  None = None
  Foreign = Foreign
  Capacity = 3
  MaxVoices = 2
  Buffer = 2
  Length = {0, 2, 3}
  MaxPushes = 5
INVARIANT InOrderOnce
INVARIANT OldestGivesWay
INVARIANT HeardWhole
PROPERTY AllDrained
