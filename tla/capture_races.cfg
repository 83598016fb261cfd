\* Two handlers and every fault: what holds whatever happens.
CONSTANTS
  a1 = a1
  a2 = a2
  s1 = s1
  s2 = s2
  s3 = s3
  s4 = s4
  t1 = t1
  t2 = t2
  t3 = t3
  t4 = t4
  c1 = c1
  c2 = c2
  None = None
  Agents = {a1, a2}
  Sessions = {s1, s2, s3}
  Turns = {t1, t2, t3}
  Clients = {c1, c2}
  Author <- TwoAuthors
  Faults = {"expiry", "client crash", "worker crash", "redis error"}
  Signatures = {"good", "bad"}
  PushBound = 2
  MaxDistillAttempts = 2
  DeadLetterMaxLen = 1
  MaxTurns = 2
SPECIFICATION Spec
SYMMETRY SessionSymmetry
CHECK_DEADLOCK FALSE
INVARIANTS JobsConserved
PROPERTY ContractSpec
