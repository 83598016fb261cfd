\* Two processes, every operation, a sweep and a restart.
CONSTANTS
  None = None
  p1 = p1
  p2 = p2
  c3 = c3
  i1 = i1
  i2 = i2
  Processes = {p1, p2}
  Items = {i1, i2}
  Contents = {"mail", "mask"}
  Secrets = {}
  Redacted <- MaskMail
  Calls = {c1, c2, c3}
  Home <- ThirdElsewhere
  Operations = {"ingest", "edit", "delete", "search"}
  MaxVersion = 3
  Stored = {i1}
  Mishaps = 1
  NoOne = NoOne
  Readers <- TwoReaders
  Others <- TwoOthers
  Turns <- TwoTurns
  Edges <- OneEdge
  OpenFiles = {"app"}
  HitOf <- TwoRows
  Whole = 238266
  Scopes <- DefaultOrSome
  Failures <- OneFails
  Limits = {1, 2, 8}
  Budgets = {0, 3, 7}
SPECIFICATION FairSpec
CHECK_DEADLOCK FALSE
INVARIANTS IndexFollows HistoryKept DeletedStaysGone AnswerIsBest
PROPERTY SearchReturns
