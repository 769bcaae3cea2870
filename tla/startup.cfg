SPECIFICATION FairSpec
CONSTANTS
  p1 = p1
  p2 = p2
  k1 = k1
  k2 = k2
  k3 = k3
  m1 = m1
  Procs = {p1, p2}
  Keys = {k1, k2, k3}
  Absent = Absent
  Torn = Torn
  Messages = {m1}
INVARIANTS TypeOK CleanIsMigrated RunningIsMigrated IdentityKept PartsAgree FailsOnlyAfterMishap
PROPERTY EventuallyRuns
CHECK_DEADLOCK FALSE
