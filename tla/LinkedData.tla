----------------------------- MODULE LinkedData -----------------------------
(***************************************************************************)
(* Layer 3: the index of the linked data of the files, and what is asked   *)
(* of it.                                                                  *)
(*                                                                         *)
(* write() parses a new file and adds its rows in the transaction of the   *)
(* write; the rows of URIs, filters, links and literals are shared by all  *)
(* files and never removed.  A call that asks makes one query after the    *)
(* other, outside any transaction.                                         *)
(*                                                                         *)
(* Abstracted: graphs, the store of contents (CaskStore), what makes a     *)
(* directory readable (Permissions), pages and formats.                    *)
(***************************************************************************)
EXTENDS Naturals, Sequences, FiniteSets, SequencesExt

CONSTANTS
  Paths, RdfPaths, \* files, and those whose extension says linked data
  DirOf,           \* [Paths -> a directory]
  Node, Self,      \* [Paths -> URI]: cask:/path, and that without .jsonld.json
  Quads,           \* [contents -> what the parser makes of it], a sequence
  Unparsable,      \* contents the parser refuses
  LiteralPredicates,
  Uploads,         \* pairs of a path and a content clients write
  Starts,          \* what is there at first: sequences of paths and contents
  Changing,        \* the directories whose ACL may change
  Questions,       \* what may be asked
  Writers, Readers,
  MaxWrites,       \* bound on the writes and deletes, the files of the start included
  NoFile, None

Contents == DOMAIN Quads

ASSUME ConstantsAssumption ==
  /\ MaxWrites \in Nat /\ Uploads \subseteq Paths \X Contents
  /\ Starts \subseteq Seq(Paths \X Contents)
  /\ \A start \in Starts :
       /\ Len(start) <= MaxWrites
       /\ \A i, j \in DOMAIN start : start[i][1] = start[j][1] => i = j
  /\ DOMAIN DirOf = Paths /\ Changing \subseteq Range(DirOf)
  /\ NoFile \notin [id : Nat, content : Contents, nquads : Contents]
  /\ \A c \in Contents :
       /\ Quads[c] \in Seq(Range(Quads[c]))
       /\ \A q \in Range(Quads[c]) : q = [s |-> q.s, p |-> q.p, o |-> q.o, lit |-> q.lit]

\* Links of a file, files by what they are about, literals of a file or of all, and
\* the quads of a file.
ASSUME QuestionsAssumption ==
  None \notin Questions /\
  \A q \in Questions :
    \/ q.op = "rel" /\ q.path \in Paths
    \/ q.op = "find" /\ \A f \in q.filters :
          f = <<f[1], f[2]>> /\ f[1] \in {"type", "subject", "predicate", "object"}
    \/ q.op = "literal" /\ q.path \in Paths \cup {None}
    \/ q.op = "read" /\ q.path \in Paths

TypePredicate == "type"

VARIABLES
  file,    \* caskfs.file: id, content, and the content nquads tells of
  index,   \* file_ld_filter, file_ld_link and file_ld_literal: pairs of an id and a row
  rows,    \* the committed rows of uri, ld_filter, ld_link and ld_literal
  nq,      \* the .nq file of a content, or None
  writes,  \* how many writes there have been: the last id
  wpc, job, held,  \* of a writer: its step, what it does, and the rows it has made
  open,    \* the directories the requestor may read
  acl,     \* whether permissions are checked
  rpc, ask,        \* of a reader: its step, and what it asks
  id, answer,      \* the file_id it has, and its answer so far
  ever, always     \* what was true at some time of the call, and all the time

store == <<file, index, rows, nq, writes>>
writers == <<wpc, job, held>>
rights == <<open, acl>>
vars == <<store, writers, rights, rpc, ask, id, answer, ever, always>>

-----------------------------------------------------------------------------
(* What parseLinkedData() makes of a file.                                 *)

\* _resolveIdPath(): an empty id is the file, or the file it is the metadata of.
Resolve(x, p) == IF x = "self" THEN Self[p] ELSE x

CaskQuads(p) == <<[s |-> Node[p], p |-> "contentUrl", o |-> "file:" \o p, lit |-> FALSE]>>
FileQuads(p, c) == IF p \in RdfPaths THEN Quads[c] ELSE <<>>

\* The rows of one quad: filters, link and literal, if it has any.
Nothing == << >>
Typed(q) == q.p = TypePredicate
Type(q, p) == IF Typed(q) THEN <<"type", q.o>> ELSE Nothing
Subject(q, p) == IF Typed(q) THEN Nothing ELSE <<"subject", Resolve(q.s, p)>>
Predicate(q, p) == IF Typed(q) THEN Nothing ELSE <<"predicate", q.p>>
Object(q, p) == IF Typed(q) \/ q.lit THEN Nothing ELSE <<"object", Resolve(q.o, p)>>
Link(q, p) == IF Typed(q) \/ q.lit THEN Nothing ELSE <<"link", q.p, Resolve(q.o, p)>>
Literal(q, p) ==
  IF ~Typed(q) /\ q.lit /\ q.p \in LiteralPredicates
  THEN <<"literal", Resolve(q.s, p), q.p, q.o>> ELSE Nothing

Rows(Row(_, _), qs, p) == [i \in DOMAIN qs |-> Row(qs[i], p)]

\* The statements: those of the filters, of the types (which come from the file
\* only), of the links and of the literals.
Statements(p, c) ==
  LET all == CaskQuads(p) \o FileQuads(p, c)
  IN <<Rows(Subject, all, p) \o Rows(Predicate, all, p) \o Rows(Object, all, p),
       Rows(Type, FileQuads(p, c), p), Rows(Link, all, p), Rows(Literal, all, p)>>

\* insert_file_ld_filter() and the others: the URIs first, then the row of them.
UrisOf(r) ==
  CASE r[1] = "link" -> <<<<"uri", r[2]>>, <<"uri", r[3]>>>>
    [] r[1] = "literal" -> <<<<"uri", r[2]>>, <<"uri", r[3]>>>>
    [] OTHER -> <<<<"uri", r[2]>>, Nothing>>
WithUris(r) ==
  IF r = Nothing THEN <<Nothing, Nothing, Nothing>> ELSE <<UrisOf(r)[1], UrisOf(r)[2], r>>
Inserts(rs) == [k \in 1 .. 3 * Len(rs) |-> WithUris(rs[((k - 1) \div 3) + 1])[((k - 1) % 3) + 1]]
Needed == [p \in Paths |-> [c \in Contents |-> [i \in 1 .. 4 |-> Inserts(Statements(p, c)[i])]]]
NeededRows ==
  [p \in Paths |-> [c \in Contents |-> [i \in 1 .. 4 |-> Range(Needed[p][c][i]) \ {Nothing}]]]
FileRows ==
  [p \in Paths |-> [c \in Contents |->
     (UNION {Range(Statements(p, c)[i]) : i \in 1 .. 4}) \ {Nothing}]]

\* The .nq companion of a content, with the subjects of the file it is made for.
Quadfile(p, c) ==
  IF FileQuads(p, c) = <<>> THEN None
  ELSE {[q EXCEPT !.s = Resolve(q.s, p)] : q \in Range(FileQuads(p, c))}

Init ==
  /\ \E start \in Starts :
       LET at(p) == {i \in DOMAIN start : start[i][1] = p}
           entry(i) == [id |-> i, content |-> start[i][2], nquads |-> start[i][2]] IN
       /\ writes = Len(start)
       /\ file = [p \in Paths |-> IF at(p) = {} THEN NoFile ELSE entry(Min(at(p)))]
       /\ index = UNION {{i} \X FileRows[start[i][1]][start[i][2]] : i \in DOMAIN start}
       /\ rows = UNION {UNION Range(NeededRows[start[i][1]][start[i][2]]) : i \in DOMAIN start}
       /\ nq = [c \in Contents |->
                  LET with == {i \in DOMAIN start : start[i][2] = c} IN
                  IF with = {} THEN None ELSE Quadfile(start[Min(with)][1], c)]
  /\ wpc = [w \in Writers |-> "idle"] /\ job = [w \in Writers |-> None]
  /\ held = [w \in Writers |-> {}]
  /\ open = {DirOf[p] : p \in Paths} /\ acl \in BOOLEAN
  /\ rpc = [r \in Readers |-> "idle"] /\ ask = [r \in Readers |-> None]
  /\ id = [r \in Readers |-> 0] /\ answer = [r \in Readers |-> {}]
  /\ ever = [r \in Readers |-> {}] /\ always = [r \in Readers |-> {}]

-----------------------------------------------------------------------------
(* write() and deleteFile(), under the lock of the path.                   *)

Locked(p) == \E w \in Writers : wpc[w] \in {"insert", "replace", "delete"} /\ job[w].path = p
InUse(c) == \E p \in Paths : file[p] # NoFile /\ file[p].content = c

EndJob(w, done) ==
  /\ wpc' = [wpc EXCEPT ![w] = "idle"] /\ job' = [job EXCEPT ![w] = None]
  /\ held' = [held EXCEPT ![w] = {}]
  /\ rows' = IF done THEN rows \cup held[w] ELSE rows

\* rdf.insert() reads the temporary file, which a write by hash does not have.
CanParse(p, c, byHash) == p \in RdfPaths => ~byHash /\ c \notin Unparsable

Start(w, p, c, step) ==
  /\ wpc[w] = "idle" /\ ~Locked(p) /\ writes < MaxWrites /\ writes' = writes + 1
  /\ job' = [job EXCEPT ![w] = [path |-> p, content |-> c, id |-> writes']]
  /\ wpc' = [wpc EXCEPT ![w] = step]
  /\ UNCHANGED <<file, index, rows, nq, held, rights>>

\* What fails before it has changed anything is left out.
BeginWrite(w) ==
  \E u \in Uploads, byHash \in BOOLEAN :
    /\ byHash => InUse(u[2])
    /\ IF file[u[1]] = NoFile THEN CanParse(u[1], u[2], byHash) ELSE file[u[1]].content # u[2]
    /\ Start(w, u[1], u[2], IF file[u[1]] = NoFile THEN "insert" ELSE "replace")
BeginDelete(w) == \E p \in Paths : file[p] # NoFile /\ Start(w, p, file[p].content, "delete")

\* mutant: nobody waits for the row of another transaction, and it is left out
OrComing(w) == rows \cup UNION {held[v] : v \in Writers}
There(w) == rows \cup held[w]

\* The statement it has come to, and the rows of that that are not there; it waits
\* for another transaction that has made one of them.
Left(w) == {i \in 1 .. 4 : ~(NeededRows[job[w].path][job[w].content][i] \subseteq There(w))}
Statement(w) == Needed[job[w].path][job[w].content][Min(Left(w))]
Missing(w) ==
  LET s == Statement(w)
      done == There(w) \cup {Nothing} IN {k \in DOMAIN s : s[k] \notin done}
OthersHold(w) == UNION {held[v] : v \in Writers \ {w}}
Blocked(w) ==
  LET s == Statement(w)
      others == OthersHold(w) IN {k \in Missing(w) : s[k] \in others}
Waits(w) == wpc[w] = "insert" /\ Left(w) # {} /\ Min(Missing(w)) \in Blocked(w)

InsertRows(w) ==
  /\ wpc[w] = "insert" /\ Left(w) # {} /\ ~Waits(w)
  /\ LET s == Statement(w)
         blocked == Blocked(w)
         now == {k \in Missing(w) : \A b \in blocked : k < b} IN
     held' = [held EXCEPT ![w] = @ \cup {s[k] : k \in now}]
  /\ UNCHANGED <<store, wpc, job, rights>>

\* lock_timeout, or the deadlock detection.
Fail(w) == Waits(w) /\ EndJob(w, FALSE) /\ UNCHANGED <<file, index, nq, writes, rights>>

\* finalizeWrite(): linked data has a .nq companion, made for the first file.
Finalize(p, c) ==
  IF nq[c] # None THEN nq ELSE [nq EXCEPT ![c] = Quadfile(p, c)]

Commit(w) ==
  LET j == job[w] IN
  /\ wpc[w] = "insert" /\ Left(w) = {}
  /\ file' = [file EXCEPT ![j.path] = [id |-> j.id, content |-> j.content, nquads |-> j.content]]
  /\ index' = index \cup ({j.id} \X (FileRows[j.path][j.content] \cap (rows \cup held[w])))
  /\ nq' = Finalize(j.path, j.content)
  /\ EndJob(w, TRUE) /\ UNCHANGED <<writes, rights>>

\* A content that no file has any more goes, and its companion with it.
Reclaim(c, p) ==
  IF \E q \in Paths \ {p} : file[q] # NoFile /\ file[q].content = c
  THEN nq ELSE [nq EXCEPT ![c] = None]

\* The linked data of a file is that of the content it was created with.
Replace(w) ==
  LET j == job[w] IN
  /\ wpc[w] = "replace"
  /\ file' = [file EXCEPT ![j.path].content = j.content]
  /\ EndJob(w, TRUE) /\ UNCHANGED <<index, nq, writes, rights>>

Keeps(i) == index    \* mutant: no ON DELETE CASCADE
Without(i) == {e \in index : e[1] # i}
Delete(w) ==
  LET p == job[w].path IN
  /\ wpc[w] = "delete"
  /\ index' = Without(file[p].id) /\ file' = [file EXCEPT ![p] = NoFile]
  /\ nq' = Reclaim(file[p].content, p)
  /\ EndJob(w, TRUE) /\ UNCHANGED <<writes, rights>>

Chmod ==
  /\ acl
  /\ \E d \in Changing : open' = IF d \in open THEN open \ {d} ELSE open \cup {d}
  /\ UNCHANGED <<store, writers, acl>>

-----------------------------------------------------------------------------
(* What is asked: rdf.find(), rdf.literal(), rdf.read(), relationships().  *)

MayRead(p) == ~acl \/ DirOf[p] \in open
PathOf(i) == CHOOSE p \in Paths : file[p] # NoFile /\ file[p].id = i
RowsOf(i) == {e[2] : e \in {x \in index : x[1] = i}}

\* generateAclWithFilter()
Visible(entries) == {e \in entries : MayRead(PathOf(e[1]))}

\* getInboundLinks(): files whose links have a subject of this one as their object.
Inbound(i, pred) ==
  LET subjects == {r[2] : r \in {x \in RowsOf(i) : x[1] = "subject"}}
      match == {r \in rows : r[1] = "link" /\ r[3] \in subjects /\ pred \in {None, r[2]}}
      links == {e \in index : e[1] # i /\ e[2] \in match}
  IN {<<"in", e[2][2], PathOf(e[1])>> : e \in Visible(links)}

\* getOutboundLinks(): files with a subject that is an object of a link here.  The
\* predicate is gone from the options: getInboundLinks() has deleted it.
AnyUri(o, e) == TRUE    \* mutant: no ON l.uri_id = tos.object_uri
SameUri(o, e) == e[2][2] = o[3]
Outbound(i) ==
  LET objects == {r \in RowsOf(i) : r[1] = "link"}
      match == {r \in rows : r[1] = "subject" /\ r[2] \in {o[3] : o \in objects}}
      links == {e \in index : e[1] # i /\ e[2] \in match}
  IN UNION {{<<"out", o[2], PathOf(e[1])>> : e \in {x \in Visible(links) : SameUri(o, x)}} : o \in objects}

\* findFiles(): every filter has to match.
Find(filters) == {PathOf(e[1]) : e \in Visible({x \in index : filters \subseteq RowsOf(x[1])})}

\* getLiteralValues(): without a file and without permissions to check, the
\* literals of files that are gone as well.
Literals(q) ==
  LET asked == {r \in rows : r[1] = "literal" /\ q.subject \in {None, r[2]}}
      ofFile == IF q.path = None THEN asked
                ELSE {r \in asked : file[q.path] # NoFile /\ <<file[q.path].id, r>> \in index}
  IN IF acl THEN ofFile \cap {e[2] : e \in Visible(index)} ELSE ofFile

Ask(r) ==
  /\ rpc[r] = "idle"
  /\ \E q \in Questions :
       /\ ask' = [ask EXCEPT ![r] = q]
       /\ rpc' = [rpc EXCEPT ![r] = CASE q.op = "rel" -> "check" [] q.op = "read" -> "row" [] OTHER -> "query"]
  /\ answer' = [answer EXCEPT ![r] = {}]
  /\ UNCHANGED <<store, writers, rights, id>>

Goto(r, step) == rpc' = [rpc EXCEPT ![r] = step]

\* canReadFile(), once in relationships() and once in metadata().
Check(r) ==
  /\ rpc[r] \in {"check", "again"}
  /\ Goto(r, IF file[ask[r].path] = NoFile \/ ~MayRead(ask[r].path) THEN "failed"
             ELSE IF rpc[r] = "check" THEN "again" ELSE "row")
  /\ UNCHANGED <<store, writers, rights, ask, id, answer>>

\* metadata(), or the row rdf.read() begins with.
Row(r) ==
  /\ rpc[r] = "row"
  /\ LET f == file[ask[r].path] IN
     IF f = NoFile THEN Goto(r, "failed") /\ UNCHANGED id
     ELSE /\ id' = [id EXCEPT ![r] = IF ask[r].op = "rel" THEN f.id ELSE f.content]
          /\ Goto(r, IF ask[r].op = "rel" THEN "links" ELSE "quads")
  /\ UNCHANGED <<store, writers, rights, ask, answer>>

\* Promise.all(): two queries, in either order.
Links(r) ==
  /\ \/ /\ rpc[r] \in {"links", "in"} /\ Goto(r, IF rpc[r] = "in" THEN "done" ELSE "out")
        /\ answer' = [answer EXCEPT ![r] = @ \cup Inbound(id[r], ask[r].pred)]
     \/ /\ rpc[r] \in {"links", "out"} /\ Goto(r, IF rpc[r] = "out" THEN "done" ELSE "in")
        /\ answer' = [answer EXCEPT ![r] = @ \cup Outbound(id[r])]
  /\ UNCHANGED <<store, writers, rights, ask, id>>

Query(r) ==
  /\ rpc[r] = "query" /\ Goto(r, "done")
  /\ answer' = [answer EXCEPT ![r] = IF ask[r].op = "find" THEN Find(ask[r].filters) ELSE Literals(ask[r])]
  /\ UNCHANGED <<store, writers, rights, ask, id>>

\* rdf.read(): the .nq of the content.  The files that find() has then are passed
\* over: its rows have no filename and no directory.
ReadQuads(r) ==
  /\ rpc[r] = "quads"
  /\ IF nq[id[r]] = None THEN Goto(r, "failed") /\ UNCHANGED answer
     ELSE Goto(r, "done") /\ answer' = [answer EXCEPT ![r] = {<<q.s, q.p, q.o>> : q \in nq[id[r]]}]
  /\ UNCHANGED <<store, writers, rights, ask, id>>

Done(r) ==
  /\ rpc[r] \in {"done", "failed"} /\ Goto(r, "idle")
  /\ ask' = [ask EXCEPT ![r] = None] /\ id' = [id EXCEPT ![r] = 0]
  /\ answer' = [answer EXCEPT ![r] = {}]
  /\ UNCHANGED <<store, writers, rights>>

-----------------------------------------------------------------------------
(* What the files say, and what is true of them: docs/ld.md.               *)

\* A literal and a type are what is written.
Target(t, p) == IF t.lit \/ Typed(t) THEN t.o ELSE Resolve(t.o, p)
Triples(p, c) ==
  {[t EXCEPT !.s = Resolve(t.s, p), !.o = Target(t, p)] : t \in Range(CaskQuads(p) \o FileQuads(p, c))}

\* "All triples (or quads) in the JSON-LD or n3 file are included in Layer 3 queries"
\* (docs/ld.md:17): those of the content the file has.
Says == [p \in Paths |-> IF file[p] = NoFile THEN {} ELSE Triples(p, file[p].content)]

\* But write() skips a file that is there (index.js:318), and its index stays that of
\* the content it was created with.  So nothing is promised of linked data that was
\* replaced by another content, and an answer may have of it what it said at first.
Replaced(p) == p \in RdfPaths /\ file[p] # NoFile /\ file[p].content # file[p].nquads
Promised == [p \in Paths |-> IF Replaced(p) THEN {} ELSE Says[p]]
Possible == [p \in Paths |-> IF Replaced(p) THEN Says[p] \cup Triples(p, file[p].nquads) ELSE Says[p]]

Untyped(ts) == {t \in ts : t.p # TypePredicate}
Refers(says, p, t, g) ==
  p # g /\ ~t.lit /\ t \in Untyped(says[p]) /\ \E u \in Untyped(says[g]) : u.s = t.o
LiteralsOf(says, g, q) ==
  {<<"literal", t.s, t.p, t.o>> :
     t \in {x \in Untyped(says[g]) : x.lit /\ x.p \in LiteralPredicates /\ q.subject \in {None, x.s}}}

\* Whichever file it is: the .nq has the first file of the content for a subject
\* (ld.js:486, cas.js:202), so which one is not compared.
AnyFile(x) == IF x \in {"self"} \cup {Self[p] : p \in Paths} THEN "a file" ELSE x

\* A literal is no file's own: of those a file has, any that a file one may read has.
Truth(q, says) ==
  CASE q.op = "rel" ->
         UNION {{<<"in", t.p, g>> : t \in {x \in says[g] : Refers(says, g, x, q.path) /\ q.pred \in {None, x.p}}}
                \cup {<<"out", t.p, g>> : t \in {x \in says[q.path] : Refers(says, q.path, x, g)}}
                : g \in {x \in Paths : MayRead(x)}}
    [] q.op = "find" ->
         {g \in Paths :
            /\ file[g] # NoFile /\ MayRead(g)
            /\ \A f \in q.filters :
                 \E t \in says[g] :
                   CASE f[1] = "type" -> t.p = TypePredicate /\ t.o = f[2]
                     [] f[1] = "subject" -> t.p # TypePredicate /\ t.s = f[2]
                     [] f[1] = "predicate" -> t.p # TypePredicate /\ t.p = f[2]
                     [] f[1] = "object" -> t.p # TypePredicate /\ ~t.lit /\ t.o = f[2]}
    [] q.op = "literal" ->
         {l \in UNION {LiteralsOf(says, g, q) : g \in {x \in Paths : MayRead(x)}} :
            q.path = None \/ l \in LiteralsOf(says, q.path, q)}
    [] q.op = "read" ->
         IF file[q.path] = NoFile THEN {}
         ELSE {<<AnyFile(t.s), t.p, t.o>> : t \in Range(Quads[file[q.path].content])}

Must(q) == IF q = None THEN {} ELSE Truth(q, Promised)
May(q) == IF q = None THEN {} ELSE Truth(q, Possible)
Track ==
  /\ ever' = [r \in Readers |->
               IF ask'[r] = None THEN {} ELSE May(ask[r])' \cup (IF ask[r] = None THEN {} ELSE ever[r])]
  /\ always' = [r \in Readers |-> IF ask[r] = None THEN Must(ask[r])' ELSE always[r] \cap Must(ask[r])']

Write(w) == BeginWrite(w) \/ BeginDelete(w) \/ InsertRows(w) \/ Fail(w) \/ Commit(w) \/ Replace(w) \/ Delete(w)
Read(r) == Ask(r) \/ Check(r) \/ Row(r) \/ Links(r) \/ Query(r) \/ ReadQuads(r) \/ Done(r)

Next ==
  /\ \/ ((\E w \in Writers : Write(w)) \/ Chmod) /\ UNCHANGED <<rpc, ask, id, answer>>
     \/ \E r \in Readers : Read(r)
  /\ Track

Spec == Init /\ [][Next]_vars

-----------------------------------------------------------------------------

\* The types; no row of the index without its file, nor without its URIs.
TypeOK ==
  /\ file \in [Paths -> [id : 1 .. MaxWrites, content : Contents, nquads : Contents] \cup {NoFile}]
  /\ \A e \in index : e[2] \in rows /\ \E p \in Paths : file[p] # NoFile /\ file[p].id = e[1]
  /\ \A r \in rows : r[1] # "uri" => \A u \in Range(UrisOf(r)) \ {Nothing} : u \in rows
  /\ open \subseteq Range(DirOf) /\ writes \in 0 .. MaxWrites

\* The index of a file has all that the file says, and nothing else.
IndexIs(p) ==
  LET has(k) == {r \in RowsOf(file[p].id) : r[1] = k}
      says == Untyped(Says[p])
      links == {t \in says : ~t.lit} IN
  /\ has("link") = {<<"link", t.p, t.o>> : t \in links}
  /\ has("subject") = {<<"subject", t.s>> : t \in says}
  /\ has("object") = {<<"object", t.o>> : t \in links}

\* rdf.insert(): the index has of each file what its content says, although writers
\* share the rows and some of them fail half-way; but for linked data that was replaced
\* by another content, whose triples write() leaves as they were (index.js:318).
IndexMatches == \A p \in Paths : file[p] # NoFile /\ ~Replaced(p) => IndexIs(p)

\* What the documentation says, with no such exception: "all triples (or quads) in the
\* JSON-LD or n3 file are included in Layer 3 queries" (docs/ld.md:17), and write()
\* itself: "if replacing an existing file, delete old triples first" (index.js:319).
IndexCurrent == \A p \in Paths : file[p] # NoFile => IndexIs(p)

\* An answer as it is compared: the quads that are read without which file they are of.
Compared(r) ==
  IF ask[r].op = "read" THEN {<<AnyFile(x[1]), x[2], x[3]>> : x \in answer[r]} ELSE answer[r]

\* Whatever is asked while others write: an answer has nothing that the files the
\* requestor could read did not say at some moment of the call, and has all they said
\* throughout.  Two exceptions.  Linked data that was replaced by another content: an
\* answer may have what it said when it was created, and lack what it says (Possible,
\* Promised, IndexCurrent).  And the literals of files that are gone, asked for of no
\* file and without permissions to check.
AnswersFaithful ==
  \A r \in Readers :
    rpc[r] = "done" /\ ~(ask[r].op = "literal" /\ ask[r].path = None /\ ~acl) =>
      Compared(r) \subseteq ever[r] /\ always[r] \subseteq Compared(r)
=============================================================================
