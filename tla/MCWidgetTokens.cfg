\* One owner with one key, one app and two requests.
CONSTANTS
  owner = owner
  kim = kim
  Admin = {owner}
  Email = {"owner"}
  EmailOf <- MCEmailOf
  Normal <- MCNormal
  Key = {k1}
  AppId = {p1}
  Pattern = {}
  Host = {}
  Request = {r1, r2}
  MaxInvitations = 0
  MaxSessions = 1
  None = None
SPECIFICATION Spec
PROPERTIES EmptyTokenTemporary
CHECK_DEADLOCK FALSE
