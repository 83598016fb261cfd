\* Two session calls at a time, of two agents, on their own or of two requests; one mishap.
CONSTANTS
  a1 = a1
  a2 = a2
  c0 = c0
  c1 = c1
  c2 = c2
  c3 = c3
  c4 = c4
  c5 = c5
  c6 = c6
  c7 = c7
  c8 = c8
  c9 = c9
  r1 = r1
  r2 = r2
  None = None
  Agents = {a1, a2}
  Sessions = {s1, s2}
  Turns = {c0, c1, c2, c3, c4, c5, c6, c7, c8, c9}
  Calls = {c0, c1, c2, c3, c4, c5, c6, c7, c8, c9}
  Caller <- TwoCallers
  Named <- OneNames
  Requests = {r1, r2}
  Part <- TwoRequests
  Scenes <- AllScenes
  Heading = 1
  Trailing = 1
  Between = 2
  Limit = 5
  Nesting = 1
  Ops = {"open", "append", "answer", "ensure", "rotate", "commit", "commit close", "close", "discard", "ask", "chat"}
  InFlight = 2
  MishapBound = 1
  Faults = {"expiry", "client crash"}
  Signatures = {"good"}
  PushBound = 2
  MaxDistillAttempts = 1
  DeadLetterMaxLen = 1
SPECIFICATION GatewaySpec
SYMMETRY Symmetry
CHECK_DEADLOCK FALSE
INVARIANTS TurnsLand HandedOver LeadsBack TurnsMeet
