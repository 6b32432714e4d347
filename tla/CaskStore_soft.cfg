CONSTANTS
  Procs = {p1, p2}
  Paths = {f1, f2}
  Hashes = {h1, h2}
  f1 = f1
  f2 = f2
  h1 = h1
  h2 = h2
  FileIds = {i1, i2, i3, i4}
  RdfPaths = {f1}
  Requests <- SoftRequests
  Faults = {"error"}
  NoHash = NoHash
  NoId = NoId
  NoReq = NoReq
  NoProc = NoProc
SPECIFICATION Spec
SYMMETRY Sessions
INVARIANTS ContentReadable RdfHasQuads
