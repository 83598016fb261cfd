\* One handler, no fault but failing jobs: the capture session rolls over and nothing is stranded.
CONSTANTS
  a1 = a1
  a2 = a2
  s1 = s1
  s2 = s2
  s3 = s3
  s4 = s4
  t1 = t1
  t2 = t2
  t3 = t3
  t4 = t4
  c1 = c1
  c2 = c2
  None = None
  Agents = {a1}
  Sessions = {s1, s2, s3}
  Turns = {t1, t2, t3}
  Clients = {c1}
  Author <- OneAuthor
  Faults = {}
  Signatures = {"good", "bad"}
  PushBound = 3
  MaxDistillAttempts = 2
  DeadLetterMaxLen = 3
  MaxTurns = 2
SPECIFICATION FairSpec
CHECK_DEADLOCK FALSE
INVARIANTS SingleRollingSession NoTurnStranded
PROPERTIES JobsSettle
