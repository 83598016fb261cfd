\* Two distill workers and two curators under fair scheduling, a failing LLM, jobs that do not
\* verify, and every fault.
CONSTANTS
  x = x
  y = y
  b1 = b1
  b2 = b2
  b3 = b3
  b4 = b4
  b5 = b5
  b6 = b6
  None = None
  Distillers = {d1, d2}
  Curators = {k1, k2}
  Subjects = {x, y}
  Batches = {b1, b2, b3, b5}
  Subject <- TwoSubjects
  Threshold = 2
  MaxCurateAttempts = 2
  Signatures = {"good", "bad"}
  Faults = {"llm", "expiry", "redis error", "crash"}
SPECIFICATION FairSpec
CHECK_DEADLOCK FALSE
INVARIANTS PendingHasJob FactsAccounted
PROPERTIES CurationSettles
