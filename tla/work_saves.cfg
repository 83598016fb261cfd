\* Console saves and tool calls on three items and two projects, two at a time, failing and cut off.
CONSTANTS
  Unset = Unset
  i1 = i1
  i2 = i2
  i3 = i3
  WorkItems = {i1, i2, i3}
  Title <- Titles
  Existing = {i1, i2}
  Projects = {p1, p2}
  Requests = {r1, r2, r3}
  InFlight = 2
  Scenarios = {{"save", "create", "update", "add", "remove", "archive"},
               {"save", "add", "move", "section"}, {"project"}}
  Faults = {"abort", "error"}
SPECIFICATION BoardSpec
SYMMETRY Symmetry
CHECK_DEADLOCK FALSE
INVARIANTS HangsFromTop ClosedIsTold SlugsApart
PROPERTIES OneProject
