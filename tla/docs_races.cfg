\* Four saves, forgets and expanded reads of a playbook, a skill, a statement and a wiki page in
\* two organisations, or goals of one, or writers of a soul of three texts, any of them cut off.
CONSTANTS
  Nil = Nil
  play = play
  lint = lint
  mission = mission
  page = page
  Orgs = {o1, o2}
  Names = {play, lint, mission, page}
  Table <- FourTables
  Recipes <- SomeRecipes
  Requests = {r1, r2, r3, r4}
  Scenarios = {{"playbooks"}, {"pages"}, {"goals"}, {"soul"}}
  SoulMax = 3
  DocFaults = {"abort"}
SPECIFICATION DocsSpec
SYMMETRY Symmetry
CHECK_DEADLOCK FALSE
INVARIANTS SavesNumbered ComposedAsPinned TreeHangsTogether NotesKept
PROPERTIES NeverGoesBack
