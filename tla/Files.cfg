CONSTANTS
  Trees <- SmallTrees
  Jobs <- AllWalks
  Written <- SomeFiles
  PageLimit = 2
  DefaultLimit = 3
  BigLimit = 5
  MaxEdits = 2
  f1 = f1
  f2 = f2
  h1 = h1
  h2 = h2
  Absent = Absent
  Paths = {f1, f2}
  Contents = {h1, h2}
  Above <- InPath
  Size <- Bytes
  Starts <- Starting
  Methods <- Called
  Clients = {a, b}
  PoolMax = 2
  MaxCalls = 3
SPECIFICATION FilesSpec
INVARIANTS FilesTypeOK NothingSkipped AnswersTruthful
PROPERTIES DeleteIsComplete WalkEnds RequestsAnswered
