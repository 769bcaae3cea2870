SPECIFICATION FairSpec
CONSTANTS
  p1 = p1
  p2 = p2
  j1 = j1
  j2 = j2
  j3 = j3
  v1 = v1
  v2 = v2
  b1 = b1
  b2 = b2
  NoPeer = NoPeer
  NoBody = NoBody
  Peers = {p1, p2}
  Bodies = {b1}
  MaxMarks = 0
  Jobs = {j1, j2}
  ChatVMs = {v1, v2}
  Channels <- TwoChats
  TopicOf <- TwoChatsTopics
  Buffer = 1
  PageSize = 2
  TicksPerSecond = 2
  FineClock = TRUE
  MaxFaults = 1
CHECK_DEADLOCK FALSE
INVARIANTS TypeOK ListIsCurrent ChatIsCurrent EventsAreSaved
PROPERTY EventuallyCurrent
