\* Three writes with one key, two uploads with one grant, and two
\* mishaps; and the owner of the default organisation and a guest, three requests. Requests
\* of Members are called as writes, new organisations as uploads: one symmetry is of both.
CONSTANTS
  None = None
  k1 = k1
  g1 = g1
  Writes = {w1, w2, w3}
  Uploads = {u1, u2}
  Keys = {k1}
  Grants = {g1}
  Uses <- OneEach
  Limit = 2
  Mishaps = 2
  Nobody = Nobody
  home = home
  o1 = u1
  o2 = u2
  c1 = w1
  c2 = w2
  c3 = w3
  owner = owner
  guest = guest
  Calls = {w1, w2, w3}
  Emails = {owner, guest}
  Orgs = {home, u1, u2}
  Home = home
  Founder = owner
  Agent = Agent
  Given = {"org_admin", "viewer"}
  InviteUses = 2
  CutBound = 1
SPECIFICATION EdgeSpec
SYMMETRY EdgeSymmetry
CHECK_DEADLOCK FALSE
INVARIANTS CounterExpires ProcessedOnce MembershipMatches OneOwnOrg AdmittedCanAct
