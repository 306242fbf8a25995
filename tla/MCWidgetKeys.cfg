CONSTANTS
  owner = owner
  kim = kim
  Admin = {owner, kim}
  Email = {"owner", "Kim", "kim"}
  EmailOf <- MCEmailOf
  Normal <- MCNormal
  Key = {k1}
  AppId = {p1, p2}
  Pattern <- MCPattern
  Host <- MCHost
  Request = {r1, r2}
  MaxInvitations = 2
  MaxSessions = 1
  None = None
SPECIFICATION Spec
INVARIANTS TypeOK ChangesKept InvitationsReach
PROPERTIES WithdrawnDrains
SYMMETRY Symmetry
CHECK_DEADLOCK FALSE
