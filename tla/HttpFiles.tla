----------------------------- MODULE HttpFiles -----------------------------
(***************************************************************************)
(* Files over HTTP: the requests of HttpCaskFsClient, and the handlers of  *)
(* /fs and /dir.                                                           *)
(*                                                                         *)
(* A handler is several queries, each of its own: what a GET says of a     *)
(* file comes from one, the bytes it sends from a later one.  A write has  *)
(* the advisory lock of its path, and a connection of the pool, for as     *)
(* long as the body of its request takes to arrive; if the client goes     *)
(* away the body neither ends nor fails, and both are kept.                *)
(*                                                                         *)
(* Abstracted: metadata but the size; the statements of a transaction, and *)
(* which connection each has (CaskStore, Connections); copies of           *)
(* directories, DELETE of one and /sync (DirectoryTree, Transfer).         *)
(***************************************************************************)
EXTENDS Integers, FiniteSets

CONSTANTS
  Paths, Contents,
  Above,           \* [Paths -> the paths that are directories once it is a file]
  Size,            \* [Contents -> bytes]
  Starts,          \* files there are at the start
  Methods,         \* the calls of methods clients make: the name and the arguments
  Clients,         \* requests being served at the same time
  PoolMax,         \* connections of the pool
  MaxCalls,        \* bound on the number of requests
  None

VARIABLES
  files, dirs,     \* caskfs.file_view: the content of a path, or None; caskfs.directory
  stored,          \* contents there is a hash file of
  lock,            \* who has the advisory lock of a path, or None
  pc, req,         \* of a request: what its handler does next, and what it is
  seen,            \* the content its handler has read, or None
  reply,           \* the answer, or None
  ever,            \* the contents its path had since the handler began
  did,             \* what it has done: "wrote", "deleted"; and whether it was "late" to delete
  calls            \* how many requests there have been

store == <<files, dirs, stored>>
locals == <<req, seen, reply, did>>
vars == <<store, lock, pc, locals, ever, calls>>

Init ==
  /\ files \in Starts /\ dirs = UNION {Above[p] : p \in {q \in Paths : files[q] # None}}
  /\ stored = {files[p] : p \in Paths} \ {None}
  /\ lock = [p \in Paths |-> None] /\ pc = [c \in Clients |-> "idle"]
  /\ req = [c \in Clients |-> None] /\ seen = [c \in Clients |-> None]
  /\ reply = [c \in Clients |-> None] /\ ever = [c \in Clients |-> {}]
  /\ did = [c \in Clients |-> {}] /\ calls = 0

-----------------------------------------------------------------------------
(* HttpCaskFsClient: the request of each method, and what becomes of the   *)
(* answer.                                                                 *)

NoRange == [from |-> None, to |-> None]
Ask(verb, p) ==
  [verb |-> verb, path |-> p, valid |-> TRUE, range |-> NoRange, tag |-> None, meta |-> FALSE,
   content |-> None, hash |-> FALSE, replace |-> FALSE, soft |-> FALSE, dest |-> p, move |-> FALSE]

Write(p, content, replace) ==
  [Ask("WRITE", p) EXCEPT !.content = content, !.replace = replace]
Read(p, from, to) == [Ask("GET", p) EXCEPT !.range = [from |-> from, to |-> to]]
Metadata(p) == [Ask("GET", p) EXCEPT !.meta = TRUE]
Delete(p, soft) == [Ask("DELETE", p) EXCEPT !.soft = soft]
Copy(p, dest, replace, move) ==
  [Ask("COPY", p) EXCEPT !.dest = dest, !.replace = replace, !.move = move]
Ls(p) == Ask("LIST", p)

\* What other clients may send: a tag to compare, a hash for a body, a flag
\* that is neither true nor false.
IfNoneMatch(p, content) == [Ask("GET", p) EXCEPT !.tag = content]
WriteHash(p, content) == [Write(p, content, TRUE) EXCEPT !.hash = TRUE]
Malformed(r) == [r EXCEPT !.valid = FALSE]

Request(m) ==
  CASE m[1] = "write" -> Write(m[2], m[3], m[4])
    [] m[1] = "read" -> Read(m[2], m[3], m[4])
    [] m[1] = "metadata" -> Metadata(m[2])
    [] m[1] = "delete" -> Delete(m[2], m[3])
    [] m[1] = "copy" -> Copy(m[2], m[3], m[4], m[5])
    [] m[1] = "ls" -> Ls(m[2])
    [] m[1] = "ifNoneMatch" -> IfNoneMatch(m[2], m[3])
    [] m[1] = "writeHash" -> WriteHash(m[2], m[3])
    [] m[1] = "malformed" -> Malformed(Delete(m[2], FALSE))

Ok(answer) == answer.status \in 200..299
\* _fetch() throws; exists(), a request for metadata, takes a 404 for an answer.
Exists(answer) ==
  IF Ok(answer) THEN "true" ELSE IF answer.status = 404 THEN "false" ELSE "throws"

-----------------------------------------------------------------------------
(* parseRangeHeader()                                                      *)

LessBound(a, b) == a - b    \* mutant: the suffix is longer than the file
Suffix(a, b) == IF b > a THEN 0 ELSE a - b
Smaller(a, b) == IF a < b THEN a ELSE b

Unsupported == [from |-> 0, to |-> -1]
Parsed(r, size) ==
  CASE r.from = None /\ r.to = 0 -> Unsupported
    [] r.from = None /\ r.to # 0 -> [from |-> Suffix(size, r.to), to |-> size - 1]
    [] r.from # None /\ r.to = None -> [from |-> r.from, to |-> size - 1]
    [] OTHER -> r

\* 416, and 206 with its Content-Range.
Unsatisfiable(r, size) == r.from > r.to \/ r.from >= size
Cut(r, size) == [from |-> r.from, to |-> Smaller(r.to, size - 1)]

-----------------------------------------------------------------------------
(* What all handlers have in common.                                       *)

Holding == {"lock", "upload", "stuck", "store", "dlock"}
Free == Cardinality({c \in Clients : pc[c] \in Holding}) < PoolMax
LockFree(c, p) == lock[p] \in {c, None}
Target(c) == IF req[c].verb = "COPY" THEN req[c].dest ELSE req[c].path

Goto(c, step) == pc' = [pc EXCEPT ![c] = step]

Answer(status) == [status |-> status, tag |-> None, range |-> NoRange, body |-> None, bytes |-> {}]
StillLocked(c) == lock    \* mutant: no release()
Unlocked(c) == [p \in Paths |-> IF lock[p] = c THEN None ELSE lock[p]]
Finish(c, answer) ==
  Goto(c, "idle") /\ reply' = [reply EXCEPT ![c] = answer] /\ lock' = Unlocked(c)

Change(p, content) ==
  /\ files' = [files EXCEPT ![p] = content]
  /\ dirs' = IF content = None THEN dirs ELSE dirs \cup Above[p]
  /\ ever' = [c \in Clients |-> IF req[c] # None /\ Target(c) = p /\ pc[c] # "idle"
                                THEN ever[c] \cup {content} ELSE ever[c]]

Arrive(c) ==
  /\ pc[c] = "idle" /\ calls < MaxCalls /\ calls' = calls + 1
  /\ \E r \in {Request(m) : m \in Methods} :
       /\ req' = [req EXCEPT ![c] = r]
       /\ ever' = [ever EXCEPT ![c] = {files[IF r.verb = "COPY" THEN r.dest ELSE r.path]}]
       /\ Goto(c, IF ~r.valid THEN "invalid"
                  ELSE CASE r.verb = "GET" -> "get" [] r.verb = "WRITE" -> "client"
                         [] r.verb = "DELETE" -> "dlook" [] r.verb = "COPY" -> "copy"
                         [] OTHER -> "list")
  /\ seen' = [seen EXCEPT ![c] = None] /\ reply' = [reply EXCEPT ![c] = None]
  /\ did' = [did EXCEPT ![c] = {}] /\ UNCHANGED <<store, lock>>

\* The Validator, and JSON.parse().
Invalid(c) ==
  /\ pc[c] = "invalid" /\ Finish(c, Answer(400))
  /\ UNCHANGED <<store, req, seen, did, ever, calls>>

-----------------------------------------------------------------------------
(* GET /fs                                                                 *)

\* The metadata, and all that is answered from them.
Get(c) ==
  LET r == req[c]
      content == files[r.path]
      range == Parsed(r.range, Size[content]) IN
  /\ pc[c] = "get" /\ Free
  /\ seen' = [seen EXCEPT ![c] = content]
  /\ CASE content = None -> Goto(c, "exists") /\ UNCHANGED <<lock, reply>>
       [] content # None /\ r.meta -> Finish(c, [Answer(200) EXCEPT !.tag = content])
       [] content # None /\ ~r.meta /\ r.tag = content -> Finish(c, [Answer(304) EXCEPT !.tag = content])
       [] content # None /\ ~r.meta /\ r.tag # content /\ r.range # NoRange
            /\ Unsatisfiable(range, Size[content]) ->
            Finish(c, [Answer(416) EXCEPT !.tag = content])
       [] OTHER -> Goto(c, "read") /\ UNCHANGED <<lock, reply>>
  /\ UNCHANGED <<store, req, did, ever, calls>>

\* caskFs.read(): the file that is there now, whatever the headers say.
SendBody(c) ==
  LET r == req[c]
      content == files[r.path]
      ranged == r.range # NoRange
      range == IF ranged THEN Cut(Parsed(r.range, Size[seen[c]]), Size[seen[c]])
               ELSE [from |-> 0, to |-> Size[seen[c]] - 1]
      last == IF ranged THEN Smaller(range.to, Size[content] - 1) ELSE Size[content] - 1 IN
  /\ pc[c] = "read" /\ Free
  /\ IF content = None THEN Goto(c, "exists") /\ UNCHANGED <<lock, reply>>
     ELSE IF content \notin stored THEN Finish(c, Answer(500))
     ELSE Finish(c, [status |-> IF ranged THEN 206 ELSE 200, tag |-> seen[c], range |-> range,
                     body |-> content, bytes |-> range.from..last])
  /\ UNCHANGED <<store, req, seen, did, ever, calls>>

\* After a MissingResourceError: any row of the path makes it a directory.
Missing(c) ==
  /\ pc[c] = "exists" /\ Free
  /\ Finish(c, Answer(IF files[req[c].path] # None \/ req[c].path \in dirs THEN 409 ELSE 404))
  /\ UNCHANGED <<store, req, seen, did, ever, calls>>

-----------------------------------------------------------------------------
(* POST and PUT /fs                                                        *)

Client(c) ==
  /\ pc[c] = "client" /\ Free /\ Goto(c, "lock")
  /\ UNCHANGED <<store, lock, locals, ever, calls>>

Failed(c) == IF req[c].verb = "COPY" THEN 500 ELSE 400

\* The lock, and DuplicateFileError.  A hash does not take the place of a body:
\* stageWrite() makes no temporary file for it, and fails to write the body to one.
Lock(c) ==
  LET p == Target(c) IN
  /\ pc[c] = "lock" /\ LockFree(c, p)
  /\ CASE files[p] # None /\ ~req[c].replace -> Finish(c, Answer(409))
       [] (files[p] = None \/ req[c].replace) /\ req[c].hash -> Finish(c, Answer(400))
       [] OTHER -> /\ lock' = [lock EXCEPT ![p] = c] /\ UNCHANGED reply
                   /\ Goto(c, IF req[c].verb = "COPY" THEN "store" ELSE "upload")
  /\ UNCHANGED <<store, req, seen, did, ever, calls>>

\* lock_timeout
LockTimeout(c) ==
  /\ pc[c] = "lock" /\ ~LockFree(c, Target(c)) /\ Finish(c, Answer(Failed(c)))
  /\ UNCHANGED <<store, req, seen, did, ever, calls>>

\* writeStream(): the stream ends, or it is only cut off.
Upload(c) ==
  /\ pc[c] = "upload" /\ Goto(c, "store") /\ seen' = [seen EXCEPT ![c] = req[c].content]
  /\ UNCHANGED <<store, lock, req, reply, did, ever, calls>>
Abandon(c) ==
  /\ pc[c] = "upload" /\ Goto(c, "stuck") /\ UNCHANGED <<store, lock, locals, ever, calls>>

Created(c) == Answer(IF req[c].replace \/ req[c].verb = "COPY" THEN 200 ELSE 201)

\* A content that a copy finds gone from the store is an error.  The content that
\* a write replaces stays: nothing sets context.data.replacedFile.
Store(c) ==
  LET p == Target(c) IN
  /\ pc[c] = "store"
  /\ IF req[c].verb = "COPY" /\ seen[c] \notin stored
     THEN Finish(c, Answer(500)) /\ UNCHANGED <<store, seen, did, ever>>
     ELSE /\ Change(p, seen[c]) /\ stored' = stored \cup {seen[c]}
          /\ did' = [did EXCEPT ![c] = @ \cup {"wrote"}]
          /\ IF req[c].move
             THEN Goto(c, "dlook") /\ UNCHANGED reply /\ lock' = [lock EXCEPT ![p] = None]
             ELSE Finish(c, Created(c))
          /\ UNCHANGED seen
  /\ UNCHANGED <<req, calls>>

-----------------------------------------------------------------------------
(* POST /fs/copy and DELETE /fs                                            *)

\* copy() takes what is no file for a directory, here an empty one; copyFile()
\* reads the metadata again.
CopyLook(c) ==
  /\ pc[c] = "copy" /\ Free
  /\ IF files[req[c].path] = None THEN Finish(c, Answer(200))
     ELSE Goto(c, "copyFile") /\ UNCHANGED <<lock, reply>>
  /\ UNCHANGED <<store, req, seen, did, ever, calls>>
CopyFile(c) ==
  /\ pc[c] = "copyFile" /\ Free /\ seen' = [seen EXCEPT ![c] = files[req[c].path]]
  /\ IF files[req[c].path] = None THEN Finish(c, Answer(404))
     ELSE Goto(c, "client") /\ UNCHANGED <<lock, reply>>
  /\ UNCHANGED <<store, req, did, ever, calls>>

DeleteLook(c) ==
  LET p == req[c].path IN
  /\ pc[c] = "dlook" /\ Free /\ seen' = [seen EXCEPT ![c] = files[p]]
  /\ IF files[p] = None THEN Finish(c, Answer(404))
     ELSE Goto(c, "dlock") /\ UNCHANGED <<lock, reply>>
  /\ UNCHANGED <<store, req, did, ever, calls>>

\* The row that was looked up, which a write keeps; if another call has deleted
\* it since, this one is too late, and deletes nothing.
Remove(c) ==
  LET p == req[c].path IN
  /\ pc[c] = "dlock" /\ LockFree(c, p)
  /\ IF "late" \in did[c] THEN UNCHANGED <<files, dirs, ever>> ELSE Change(p, None)
  /\ did' = [d \in Clients |->
               CASE d = c -> did[c] \cup {"deleted"}
                 [] d # c /\ "late" \notin did[c] /\ pc[d] = "dlock" /\ req[d].path = p ->
                      did[d] \cup {"late"}
                 [] OTHER -> did[d]]
  /\ stored' = IF req[c].soft \/ \E q \in Paths : files'[q] = seen[c] THEN stored ELSE stored \ {seen[c]}
  /\ Finish(c, Answer(200)) /\ UNCHANGED <<req, seen, calls>>

\* Only a connection that has served a write() has a lock_timeout.
RemoveTimeout(c) ==
  /\ pc[c] = "dlock" /\ ~LockFree(c, req[c].path) /\ Finish(c, Answer(500))
  /\ UNCHANGED <<store, req, seen, did, ever, calls>>

-----------------------------------------------------------------------------
(* GET /dir                                                                *)

List(c) ==
  /\ pc[c] = "list" /\ Free
  /\ IF req[c].path \in dirs THEN Finish(c, Answer(200))
     ELSE Goto(c, "isFile") /\ UNCHANGED <<lock, reply>>
  /\ UNCHANGED <<store, req, seen, did, ever, calls>>
IsFile(c) ==
  /\ pc[c] = "isFile" /\ Free
  /\ Finish(c, Answer(IF files[req[c].path] # None THEN 409 ELSE 404))
  /\ UNCHANGED <<store, req, seen, did, ever, calls>>

-----------------------------------------------------------------------------

Serve(c) ==
  \/ Invalid(c) \/ Get(c) \/ SendBody(c) \/ Missing(c) \/ Client(c) \/ Lock(c) \/ LockTimeout(c)
  \/ Upload(c) \/ Store(c) \/ CopyLook(c) \/ CopyFile(c)
  \/ DeleteLook(c) \/ Remove(c) \/ List(c) \/ IsFile(c)

Next == \E c \in Clients : Arrive(c) \/ Serve(c) \/ Abandon(c) \/ RemoveTimeout(c)

\* An upload ends or is cut off, and write()'s timeouts strike.
Spec == Init /\ [][Next]_vars /\ \A c \in Clients : SF_vars(Serve(c))

-----------------------------------------------------------------------------
TypeOK ==
  /\ files \in [Paths -> Contents \cup {None}] /\ dirs \subseteq Paths /\ stored \subseteq Contents
  /\ lock \in [Paths -> Clients \cup {None}]
  /\ seen \in [Clients -> Contents \cup {None}] /\ did \in [Clients -> SUBSET {"wrote", "deleted", "late"}]
  /\ ever \in [Clients -> SUBSET (Contents \cup {None})] /\ calls \in 0..MaxCalls

\* The bytes a range header asks for, by its definition in RFC 9110.
Wanted(r, size) ==
  {i \in 0..(size - 1) :
     IF r.from = None THEN i >= size - r.to ELSE i >= r.from /\ (r.to = None \/ i <= r.to)}

\* A GET tells of what its path has been since it began: the file of the tag, the
\* file of the body, a file that was not there, and both are one, with the bytes
\* that the range asks for, if the file was one and the same all the while.
GetTruthful(r, answer, was) ==
  /\ answer.tag # None => answer.tag \in was
  /\ answer.body # None => answer.body \in was
  /\ answer.status = 304 => answer.tag = r.tag
  /\ answer.status = 404 => None \in was
  /\ answer.status = 409 => r.path \in dirs \/ was # {None}
  /\ answer.status = 416 => Wanted(r.range, Size[answer.tag]) = {}
  /\ answer.status = 206 =>
       Wanted(r.range, Size[answer.tag]) = answer.range.from..answer.range.to
  /\ answer.status \in {200, 206} /\ ~r.meta /\ was = {answer.tag} =>
       answer.body = answer.tag /\ answer.bytes = answer.range.from..answer.range.to
  /\ r.meta /\ Exists(answer) = "true" => was # {None}

\* Of a write or a delete, success means that it was made.  A copy whose source is not
\* there answers 200 with nothing copied (index.js:998), so of copies only this: a source
\* is deleted after it has been copied, and a move that succeeds has done both or nothing.
\* An answer that blames the request means that nothing was done, but for the copy of a
\* move whose source has gone.
ChangeTruthful(r, answer, done, was) ==
  /\ r.verb = "WRITE" /\ Ok(answer) => done = {"wrote"} /\ r.content \in was
  /\ r.verb = "DELETE" /\ Ok(answer) => None \in was
  /\ r.verb = "COPY" /\ "deleted" \in done => "wrote" \in done
  /\ r.move /\ Ok(answer) => done \ {"late"} \in {{}, {"wrote", "deleted"}}
  /\ answer.status \in {400, 404, 409} => done = {} \/ (r.move /\ answer.status = 404)

\* Every answer of the server is true of the files (fs.js:61, fs.js:172, dir.js:11).
AnswersTruthful ==
  \A c \in {d \in Clients : pc[d] = "idle" /\ reply[d] # None} :
    /\ req[c].verb = "GET" => GetTruthful(req[c], reply[c], ever[c])
    /\ ChangeTruthful(req[c], reply[c], did[c], ever[c])

\* Every request is answered, unless its own upload was cut off, or one of the
\* path it waits to delete, or so many as to leave no connection (cas.js:239).
Waits(c) == pc[c] = "stuck" \/ (pc[c] = "dlock" /\ \E d \in Clients : pc[d] = "stuck" /\ lock[req[c].path] = d)
Blocked(c) == Waits(c) \/ Cardinality({d \in Clients : Waits(d)}) >= PoolMax
RequestsAnswered == \A c \in Clients : pc[c] # "idle" ~> pc[c] = "idle" \/ Blocked(c)
=============================================================================
