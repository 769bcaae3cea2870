SPECIFICATION Spec
CONSTANTS
  n1 = n1
  n2 = n2
  NoNode = NoNode
  Nodes = {n1, n2}
  Trusted = {n1, n2}
  Rows <- AgreeingNodes
  MaxGlobalSeq = 3
  PageLimit = 1
  ReqCap = 2
  RespCap = 2
  Pushes = TRUE
  MaxFaults = 1
INVARIANT AckedRowsSaved
