SPECIFICATION FairSpec
CONSTANTS
  d1 = d1
  d2 = d2
  m1 = m1
  m2 = m2
  Devices = {d1, d2}
  Msgs = {m1, m2}
  From <- Senders
  To <- Addressees
  Size = 2
  MaxFaults = 3
INVARIANTS TypeOK WholeOnly FailedIsNotReceived
PROPERTIES PromiseKept Arrives
CHECK_DEADLOCK FALSE
