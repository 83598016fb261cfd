\* Two writes with one key and an upload, and no mishap at all.
CONSTANTS
  None = None
  k1 = k1
  g1 = g1
  Writes = {w1, w2}
  Uploads = {u1}
  Keys = {k1}
  Grants = {g1}
  Uses <- OneEach
  Limit = 2
  Mishaps = 0
SPECIFICATION Spec
CHECK_DEADLOCK FALSE
INVARIANT FailuresFreeKeys
