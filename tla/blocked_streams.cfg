SPECIFICATION FairSpec
CONSTANTS
  n1 = n1
  n2 = n2
  NoNode = NoNode
  Nodes = {n1}
  Trusted = {n1}
  Rows <- OneNode
  MaxGlobalSeq = 3
  PageLimit = 1
  ReqCap = 2
  RespCap = 2
  Pushes = FALSE
  MaxFaults = 0
PROPERTY CycleEnds
CHECK_DEADLOCK FALSE
