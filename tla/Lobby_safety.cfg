SPECIFICATION Spec
CONSTANTS
  None = None
  Host = Host
  j1 = j1
  j2 = j2
  j3 = j3
  j4 = j4
  Joiner = {j1, j2, j3, j4}
  Odd = {j4}
  MayRestart = {j1}
  MaxPeers = 3
  RosterCredit = 1
  StartRepeats = 2
  MaxSessions = 2
INVARIANT MeshAgrees
INVARIANT RostersAreAnswers
