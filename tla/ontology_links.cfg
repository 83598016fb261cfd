\* Three calls, two at a time: the registry is set up and changed while links are written.
CONSTANTS
  Absent = Absent
  Person = Person
  Organization = Organization
  alice = alice
  acme = acme
  worksAt = worksAt
  mentions = mentions
  note = note
  Kinds = {Person, Organization}
  Names = {alice, acme}
  Predicates = {worksAt, mentions}
  Starter <- SeedTypes
  Types <- CustomTypes
  Links <- BothWays
  Memories = {note}
  Refs <- NoteRefs
  Calls = {c1, c2, c3}
  AtOnce = 2
  Mishaps = 1
SPECIFICATION OntologySpec
SYMMETRY CallSymmetry
CHECK_DEADLOCK FALSE
INVARIANTS LinkedIffConforms LogTellsEffects
