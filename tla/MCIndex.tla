------------------------------ MODULE MCIndex ------------------------------
(***************************************************************************)
(* Instances of LinkedData and of PartitionKeys for TLC, side by side:     *)
(* each behaviour is one of one of them, and the other stands still.       *)
(***************************************************************************)
EXTENDS Index, TLC

CONSTANTS f1, f2, k1, k2, d1, d2

keyVars ==
  <<rule, version, owner, there, keys, cache, known, pc, call, todo, made, added, removed,
    snap, left, lost, last, calls>>

\* An image, the file of metadata about it, and a file that refers to the image.
Image == "/a/img"
About == "/a/img.jsonld.json"
Other == "/b/x.ttl"
Files == {Image, About, Other}
LinkedFiles == {About, Other}
Dir == [p \in Files |-> IF p = Other THEN "b" ELSE "a"]
NodeOf == [p \in Files |-> "cask:/" \o p]
SelfOf == [p \in Files |-> IF p = Other THEN "cask://b/x.ttl" ELSE "cask://a/img"]

Quad(s, p, o, lit) == [s |-> s, p |-> p, o |-> o, lit |-> lit]
Parsed ==
  "k1" :> <<Quad("self", "type", "T", FALSE), Quad("self", "name", "n", TRUE), Quad("self", "knows", "u", FALSE)>>
  @@ "k2" :> <<Quad("u", "shows", "cask://a/img", FALSE)>>
  @@ "bin" :> << >>
FirstFiles == {<<<<Image, "bin">>>>, <<<<Image, "bin">>, <<Other, "k2">>>>}
NewFiles == {<<Image, "bin">>, <<About, "k1">>, <<About, "k2">>, <<Other, "k2">>, <<Other, "bin">>}

\* One file of linked data, written over and over.
Rewritten == {<<About, "k1">>, <<About, "k2">>}

Asked ==
  {[op |-> "rel", path |-> About, pred |-> None], [op |-> "rel", path |-> Image, pred |-> "shows"],
   [op |-> "find", filters |-> {<<"subject", "cask://a/img">>}],
   [op |-> "find", filters |-> {<<"type", "T">>, <<"object", "u">>}],
   [op |-> "literal", subject |-> "cask://a/img", path |-> None],
   [op |-> "literal", subject |-> None, path |-> About],
   [op |-> "read", path |-> Other]}

\* The second rule has a regular expression, which one path does not match.
Extracts ==
  d1 :> [p \in {f1, f2} |-> k1] @@ d2 :> [p \in {f1, f2} |-> IF p = f1 THEN k2 ELSE NoKey]

Given == {{}, {k2}}

Alike == Permutations(Writers) \cup Permutations(Servers)

IndexOver ==
  /\ file = [p \in Paths |-> NoFile] /\ index = {} /\ rows = {} /\ nq = [c \in Contents |-> None]
  /\ writes = MaxWrites /\ open = {} /\ acl = FALSE
  /\ wpc = [w \in Writers |-> "idle"] /\ job = [w \in Writers |-> None] /\ held = [w \in Writers |-> {}]
  /\ rpc = [r \in Readers |-> "over"] /\ ask = [r \in Readers |-> None] /\ id = [r \in Readers |-> 0]
  /\ answer = [r \in Readers |-> {}] /\ ever = [r \in Readers |-> {}] /\ always = [r \in Readers |-> {}]
KeysOver ==
  /\ rule = NoRule /\ version = 0 /\ owner = [k \in Keys |-> "absent"]
  /\ there = {} /\ keys = [p \in KeyPaths |-> {}]
  /\ cache = [a \in Servers \cup Tools |-> Unread] /\ known = [a \in Servers \cup Tools |-> 0]
  /\ pc = [a \in Servers \cup Tools |-> "idle"] /\ call = [a \in Servers \cup Tools |-> NoRule]
  /\ todo = [s \in Servers |-> << >>] /\ made = [s \in Servers |-> {}]
  /\ added = [s \in Servers |-> {}] /\ removed = [s \in Servers |-> {}]
  /\ snap = [t \in Tools |-> {}] /\ left = [t \in Tools |-> {}] /\ lost = [t \in Tools |-> {}]
  /\ last = [p \in KeyPaths |-> "nobody"] /\ calls = MaxCalls

OfIndex(A) == A /\ UNCHANGED keyVars
OfKeys(A) == A /\ UNCHANGED vars

MCInit == (Init /\ KeysOver) \/ (IndexOver /\ K!Init)
MCNext ==
  \/ OfIndex(Next)
  \/ \E s \in Servers :
       \/ OfKeys(K!Show(s)) \/ OfKeys(K!BeginWrite(s)) \/ OfKeys(K!Rules(s)) \/ OfKeys(K!Unchanged(s))
       \/ OfKeys(K!ClearKeys(s)) \/ OfKeys(K!AddKey(s)) \/ OfKeys(K!Wait(s)) \/ OfKeys(K!Commit(s))
  \/ \E p \in KeyPaths : OfKeys(K!DeleteFile(p))
  \/ \E t \in Tools :
       \/ OfKeys(K!BeginSet(t)) \/ OfKeys(K!Look(t)) \/ OfKeys(K!Upsert(t)) \/ OfKeys(K!Refresh(t))
       \/ OfKeys(K!OpenCursor(t)) \/ OfKeys(K!SweepFile(t)) \/ OfKeys(K!SweepBlocked(t))
       \/ OfKeys(K!SweepWait(t)) \/ OfKeys(K!Swept(t)) \/ OfKeys(K!Crash(t)) \/ OfKeys(K!Remove(t))
MCSpec == MCInit /\ [][MCNext]_<<vars, keyVars>>
=============================================================================
