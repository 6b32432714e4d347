CONSTANTS
  i1 = i1
  i2 = i2
  i3 = i3
  i4 = i4
  i5 = i5
  Workers = {w1, w2, w3}
  WorkerCount = 2
  Items = {i1, i2, i3, i4, i5}
  Batches <- TwoBatches
  Faults = {"exit"}
  f1 = f1
  f2 = f2
  f3 = f3
  h1 = h1
  h2 = h2
  Paths = {f1, f2, f3}
  Hashes = {h1, h2}
  Jobs <- Job
  Locals <- TwoAlike
  BatchSize = 2
  MaxMishaps = 2
  Absent = Absent
SPECIFICATION TransferSpec
INVARIANTS TransferTypeOK OneAtATime NoIdleWhileQueued NothingLost ExportFaithful ImportComplete UploadedOnce
PROPERTY BatchesSettle
CHECK_DEADLOCK FALSE
