CONSTANTS
  c1 = c1
  c2 = c2
  u1 = u1
  u2 = u2
  root = root
  r1 = r1
  adm = adm
  Users = {u1, u2, root}
  Roles = {r1, adm}
  AdminRole = adm
  SuperAdmin = root
  Nobody = Nobody
  Dirs <- Tree
  Setups <- Starts
  Calls = {c1, c2}
  Requests <- Asked
  Archive <- Exported
  MaxCalls = 3
  NoDir = NoDir
  NoReq = NoReq
SPECIFICATION Spec
CHECK_DEADLOCK FALSE
INVARIANTS TypeOK GrantedByRule GrantsHonoured
PROPERTY ImportKeeps
