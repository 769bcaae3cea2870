SPECIFICATION FairSpec
CONSTANTS
  n1 = n1
  n2 = n2
  NoNode = NoNode
  Nodes = {n1, n2}
  Trusted = {n1}
  Rows <- TwoNodes
  MaxGlobalSeq = 3
  PageLimit = 1
  ReqCap = 8
  RespCap = 8
  Pushes = FALSE
  MaxFaults = 2
INVARIANTS TypeOK CompletedMeansCaughtUp LastSyncedSaved
PROPERTIES PromiseKept EventuallyCopied CycleEnds
