CONSTANTS
  p1 = p1
  p2 = p2
  Procs = {p1, p2}
  Names = {"a", "b", "c", "d"}
  Dirs <- Tree
  Existing <- ThreeExist
  Requests <- OneChanges
  Faults = {"error"}
  NoDir = NoDir
  Gone = Gone
  Same = Same
  NoReq = NoReq
  Paths = {f1, f2}
  Hashes = {h1, h2}
  FileIds = {i1, i2, i3, i4}
  f1 = f1
  f2 = f2
  h1 = h1
  NoHash = NoHash
  NoId = NoId
  NoProc = NoProc
SPECIFICATION MCFairSpec
INVARIANTS TypeOK AclInScope ExistingInherit
PROPERTIES CallsEnd StoreCallsEnd
