CONSTANTS
  p1 = p1
  p2 = p2
  Procs = {p1}
  Names = {"a", "b", "c", "d"}
  Dirs <- Tree
  Existing <- ThreeExist
  Requests <- OneDoesBoth
  Faults = {}
  NoDir = NoDir
  Gone = Gone
  Same = Same
  NoReq = NoReq
SPECIFICATION Spec
INVARIANT AllInherit
