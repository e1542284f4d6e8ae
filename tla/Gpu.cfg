SPECIFICATION FairSpec
CONSTANTS
  k = k
  s = s
  Data = Data
  Image = {k, s}
  Kept = {k}
  Slots = 2
  Frames <- MCFrames
  MaxImages = 4
  Transient = {k, Data}
  MayFail = {"timeout", "wait", "reset", "acquire", "record", "submit", "present", "idle", "lost"}
  MaxFaults = 2
INVARIANT WorkIsIntact
INVARIANT SlotIsQuiet
INVARIANT NoImageHazard
INVARIANT KeptIsTrue
PROPERTY RenderReturns
PROPERTY Thaws

