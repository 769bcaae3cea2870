SPECIFICATION Spec
CONSTANTS
  d1 = d1
  d2 = d2
  s1 = s1
  s2 = s2
  s3 = s3
  NoStream = NoStream
  m1 = m1
  m2 = m2
  Devices = {d1, d2}
  Streams = {s1, s2, s3}
  DeviceOf <- ThreeStreams
  Calls = {m1, m2}
  Cap = 1
  Overlaps = TRUE
INVARIANTS TypeOK SessionsAreServed PushReachesSessions
PROPERTY PromiseKept
CHECK_DEADLOCK FALSE
