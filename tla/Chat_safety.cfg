SPECIFICATION Spec
CONSTANTS
  None = None
  Peers = 3
  Talkers = {0}
  Outbox = 2
  Inbox = 2
  Repeats = 2
  SeenWindow = 2
  MaxMessages = 3
INVARIANT RefusesOnlyRepeats
INVARIANT TwiceOnlyAcrossJump
INVARIANT InboxIsRecent
PROPERTY RepeatsSpent
