SPECIFICATION Spec
CONSTANTS
  n1 = n1
  n2 = n2
  NoNode = NoNode
  Nodes = {n1}
  Trusted = {n1}
  Rows <- OneNode
  MaxGlobalSeq = 3
  PageLimit = 2
  ReqCap = 2
  RespCap = 2
  Pushes = TRUE
  MaxFaults = 0
INVARIANT CompletedMeansCaughtUp
CHECK_DEADLOCK FALSE
