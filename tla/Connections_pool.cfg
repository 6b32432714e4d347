CONSTANTS
  Calls = {p, q}
  Conns = {a, b, c}
  PoolMax = 2
  f1 = f1
  f2 = f2
  Paths = {f1, f2}
  Ids = {i, j, k}
  Requests <- AllRequests
  Faults = {"error"}
  Absent = Absent
  Same = Same
  NoConn = NoConn
  NoReq = NoReq
  NoId = NoId
SPECIFICATION Spec
SYMMETRY Alike
INVARIANTS PoolConsistent AckedWritesStay HangsExplained
CHECK_DEADLOCK FALSE
