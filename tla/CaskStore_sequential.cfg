CONSTANTS
  Procs = {p1}
  Paths = {f1, f2}
  Hashes = {h1, h2}
  f1 = f1
  f2 = f2
  h1 = h1
  h2 = h2
  FileIds = {i1, i2, i3, i4}
  RdfPaths = {}
  Requests <- HardOnlyRequests
  Faults = {}
  NoHash = NoHash
  NoId = NoId
  NoReq = NoReq
  NoProc = NoProc
  a = a
  b = b
  c = c
  dot = dot
  d1 = d1
  d2 = d2
  Targets = {a, b, c}
  Dirs = {d1, d2}
  RowOf <- Rows
  Offers <- Dropped
  Hidden = {dot}
  Starts <- Contents
  MaxUploads = 2
  Retries = 1
  EntryLimit = 2
  MaxEvents = 1
  NoCall = NoCall
SPECIFICATION MCSpec
INVARIANTS ReadableWhenQuiet RowsMatchBlobs UploadsTruthful OwnChangesSeen Announced
CHECK_DEADLOCK FALSE
