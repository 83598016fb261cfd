\* Any three of four requests at once, each of which may be cut off or fail in the bucket.
CONSTANTS
  None = None
  Requests = {r1, r2, r3, r4}
  Operations = {"update", "publish", "unpublish", "archive", "delete"}
  InFlight = 3
  Faults = {"abort", "bucket"}
SPECIFICATION SerialSpec
SYMMETRY RequestSymmetry
CHECK_DEADLOCK FALSE
INVARIANTS VersionsNumbered SerialMirrorFollows
