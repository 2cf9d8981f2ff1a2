SPECIFICATION Spec
CONSTANTS
  SmallNodes = {s1, s2}
  LargeNodes = {l1}
  Nodes <- MCNodes
  NodeSize <- MCNodeSize
  NULL = NULL
  HandleBytes = HandleBytes
  WORD = 8
  DOUBLE_FREE = TRUE
INVARIANTS
  TypeOK
  ListIsQueue
  WalksStayOnList
  HandedOutOnce
PROPERTIES
  QueueRefinement
  CallsReturn
