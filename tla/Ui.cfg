SPECIFICATION Spec
CONSTANTS
  None = None
  Nodes = 4
  MaxBytes = 2
  Document <- MCDocument
  DocumentPool <- MCPool
  FieldNodes <- MCFieldNodes
  Styles <- MCStyles
  TableOf <- MCTableOf
  Plain = "Plain"
  Tables <- MCTables
  Pools <- MCPools
  MayReshape = FALSE
  Points = {0, 1}
  Views = {3}
  Widths = {2}
  MaxFields = 2
  Plans <- MCPlans
INVARIANT TreeSound
INVARIANT DressFollows
INVARIANT RectsCurrent
INVARIANT FieldsHold
PROPERTY ClickIsOneNode
