CONSTANTS
  Paths <- Files
  RdfPaths <- LinkedFiles
  DirOf <- Dir
  Node <- NodeOf
  Self <- SelfOf
  Quads <- Parsed
  Unparsable = {"bin"}
  LiteralPredicates = {"name"}
  Questions <- Asked
  Uploads <- NewFiles
  Starts <- FirstFiles
  Changing = {"b"}
  Writers = {w1, w2}
  Readers = {r1}
  MaxWrites = 4
  NoFile = NoFile
  None = None
  f1 = f1
  f2 = f2
  k1 = k1
  k2 = k2
  d1 = d1
  d2 = d2
  Servers = {s1, s2}
  Tools = {t1}
  Defs = {d1, d2}
  KeyOf <- Extracts
  KeyPaths = {f1, f2}
  Keys = {k1, k2}
  Regex = {d2}
  Manual <- Given
  MaxRules = 2
  MaxCalls = 3
  NoRule = NoRule
  NoKey = NoKey
  Unread = Unread
  Broken = Broken
SPECIFICATION MCSpec
SYMMETRY Alike
INVARIANTS IndexTypeOK IndexMatches  RuleReaches
CHECK_DEADLOCK FALSE
