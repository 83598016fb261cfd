\* A connector with pages and a rotating one that is yet to be made, the worker, one call and
\* one failure, under fair scheduling. What is posted last on the one with pages is a hard
\* secret, the document of the other one has an address.
CONSTANTS
  None = None
  k1 = k1
  k2 = k2
  Connectors = {k1, k2}
  Adapter <- ChannelThenSlack
  Text <- SecretLast
  Worker = Worker
  WorkerMay = TRUE
  Calls = {c1}
  PageSize = 2
  MaxDocs = 3
  Had <- TwoAndOne
  Ever <- ThreeAndOne
  Existing = {k1}
  MaxRotations = 1
  Mishaps = 1
SPECIFICATION FairSpec
CHECK_DEADLOCK FALSE
INVARIANTS  TokenKept StopsAfterDelete
PROPERTY EverythingImported
