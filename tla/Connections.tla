---------------------------- MODULE Connections ----------------------------
(***************************************************************************)
(* Which connection a statement runs on, and so in whose transaction.      *)
(*                                                                         *)
(* The HTTP server keeps one pool of connections (pg-pool).  write() takes *)
(* a connection out of it and gives it back at the end; runInTransaction() *)
(* and deleteDirectory() open connections of their own; every other query, *)
(* each statement of deleteFile() among them, is handed to the pool, which *)
(* runs it on the connection returned last.  A transaction belongs to the  *)
(* connection and not to the call.                                         *)
(*                                                                         *)
(* Abstracted: what a file contains, directories, linked data and blobs    *)
(* (CaskStore has them): a file is the file_id of its row, or Absent.      *)
(***************************************************************************)
EXTENDS Naturals, Sequences, FiniteSets

CONSTANTS
  Calls,      \* requests being served at the same time
  Conns,      \* the connections PostgreSQL allows: max_connections
  PoolMax,    \* how many of them the pool may hold
  Paths, Ids, \* file paths, and file_id values
  Requests,   \* the requests clients may make
  Faults,     \* {"error"} when statements may fail
  Absent, Same, NoConn, NoReq, NoId

Request == [op : {"write", "copy", "delete", "rmdir"}, path : Paths, replace : BOOLEAN]

ASSUME ConstantsAssumption ==
  /\ PoolMax \in Nat \ {0} /\ IsFiniteSet(Conns)
  /\ Requests \subseteq Request /\ Faults \subseteq {"error"}
  /\ {Absent, Same, NoId} \cap Ids = {} /\ Absent # Same
  /\ NoConn \notin Conns /\ NoReq \notin Request

VARIABLES
  file,       \* committed caskfs.file: the file_id of each path, or Absent
  conn,       \* of each connection: "closed", "idle", "out", "own" or "left"
  idle,       \* the pool's idle connections, the one returned last at the end
  inTx,       \* the connections with an open transaction
  limited,    \* those on which a SET lock_timeout has been committed
  change,     \* of each connection, what its transaction has done to a file row
  lock,       \* the connection that holds the advisory lock of a path
  cached,     \* whether the auto-path rules have been read into memory
  pc, req,    \* where each call is, and what it serves
  on,         \* the connection it holds, or NoConn
  own,        \* the connection runInTransaction() has opened, or NoConn
  fid,        \* the file_id deleteFile() has read
  todo,       \* the files deleteDirectory() has still to delete
  alone,      \* whether no other call on its paths has overlapped a call
  acked       \* what the last answer said of each path: "none", "there", "gone"

database == <<file, inTx, limited, change, lock>>
pool == <<conn, idle>>
locals == <<req, on, own, fid, todo>>
answers == <<alone, acked>>
vars == <<database, pool, cached, pc, locals, answers>>

Untouched == [f \in Paths |-> Same]

Init ==
  /\ file = [f \in Paths |-> Absent]
  /\ conn = [c \in Conns |-> "closed"] /\ idle = << >>
  /\ inTx = {} /\ limited = {} /\ cached = FALSE
  /\ change = [c \in Conns |-> Untouched] /\ lock = [f \in Paths |-> NoConn]
  /\ pc = [p \in Calls |-> "idle"] /\ req = [p \in Calls |-> NoReq]
  /\ on = [p \in Calls |-> NoConn] /\ own = [p \in Calls |-> NoConn]
  /\ fid = [p \in Calls |-> NoId] /\ todo = [p \in Calls |-> {}]
  /\ alone = [p \in Calls |-> FALSE] /\ acked = [f \in Paths |-> "none"]

-----------------------------------------------------------------------------
(* A session of PostgreSQL.                                                *)

Seen(c, f) == IF change[c][f] = Same THEN file[f] ELSE change[c][f]

\* A row that another transaction has changed makes a statement wait.
RowFree(c, f) == \A d \in Conns \ {c} : change[d][f] = Same
LockFree(c, f) == lock[f] \in {c, NoConn}

\* Statements outside a transaction block are committed as they run.
Put(c, f, v) ==
  IF c \in inTx
  THEN change' = [change EXCEPT ![c][f] = v] /\ UNCHANGED file
  ELSE file' = [file EXCEPT ![f] = v] /\ UNCHANGED change

\* COMMIT and ROLLBACK end whatever block the connection is in, and no block
\* is only a warning; so is BEGIN inside one.
EndTx(c, commit) ==
  /\ file' = IF commit THEN [f \in Paths |-> Seen(c, f)] ELSE file
  /\ change' = [change EXCEPT ![c] = Untouched]
  /\ lock' = [f \in Paths |-> IF lock[f] = c THEN NoConn ELSE lock[f]]
  /\ inTx' = inTx \ {c}

BeginTx(c) == inTx' = inTx \cup {c} /\ UNCHANGED <<file, limited, change, lock>>

-----------------------------------------------------------------------------
(* The pool.                                                               *)

Goto(p, l) == pc' = [pc EXCEPT ![p] = l]

DeletePcs == {"dbegin", "dlook", "dlock", "dremove", "dcommit", "drollback"}

Pooled == {c \in Conns : conn[c] \in {"idle", "out"}}
Closed == {c \in Conns : conn[c] = "closed"}

\* The pool may open another connection and PostgreSQL has none for it.
NoneLeft == idle = << >> /\ Cardinality(Pooled) < PoolMax /\ Closed = {}

CanQuery == idle # << >> \/ (Cardinality(Pooled) < PoolMax /\ Closed # {})

\* connect(): the idle connection returned last, else a new one if there may
\* be more, else the call waits without limit.
Take(p) ==
  /\ on[p] = NoConn
  /\ \/ /\ idle # << >>
        /\ on' = [on EXCEPT ![p] = idle[Len(idle)]]
        /\ conn' = [conn EXCEPT ![idle[Len(idle)]] = "out"]
        /\ idle' = SubSeq(idle, 1, Len(idle) - 1)
     \/ /\ idle = << >> /\ Cardinality(Pooled) < PoolMax
        /\ \E c \in Closed : on' = [on EXCEPT ![p] = c] /\ conn' = [conn EXCEPT ![c] = "out"]
        /\ UNCHANGED idle

Forget(p) == UNCHANGED pool /\ on' = [on EXCEPT ![p] = NoConn]    \* mutant: no release()
\* release(): back on the stack.
GiveBack(p) ==
  /\ idle' = Append(idle, on[p]) /\ conn' = [conn EXCEPT ![on[p]] = "idle"]
  /\ on' = [on EXCEPT ![p] = NoConn]

\* A pooled query that fails: release(err) closes the connection, and with it
\* goes its transaction.
Discard(p) ==
  /\ EndTx(on[p], FALSE) /\ limited' = limited \ {on[p]}
  /\ conn' = [conn EXCEPT ![on[p]] = "closed"] /\ UNCHANGED idle
  /\ on' = [on EXCEPT ![p] = NoConn]

\* The pool's connection for a query of its own, or the client of the call.
Done(p) == IF conn[on[p]] = "out" THEN GiveBack(p) ELSE UNCHANGED <<pool, on>>

-----------------------------------------------------------------------------
(* Requests and answers.                                                   *)

\* What an answer says of a path is remembered if no other call that was at
\* work on the path overlapped this one.
Touches(r) == IF r.op = "rmdir" THEN Paths ELSE {r.path}
Overlaps(p, r) ==
  {q \in Calls \ {p} : req[q] # NoReq /\ Touches(req[q]) \cap Touches(r) # {}}
Remember(p, what) ==
  acked' = IF alone[p] THEN [acked EXCEPT ![req[p].path] = what] ELSE acked

Submit(p) ==
  /\ pc[p] = "idle"
  /\ \E r \in Requests :
       /\ req' = [req EXCEPT ![p] = r]
       /\ alone' = [q \in Calls |-> IF q = p THEN Overlaps(p, r) = {}
                                   ELSE alone[q] /\ q \notin Overlaps(p, r)]
       /\ acked' = [f \in Paths |-> IF f \in Touches(r) THEN "none" ELSE acked[f]]
       /\ Goto(p, CASE r.op = "write" -> "client" [] r.op = "delete" -> "dbegin"
                    [] OTHER -> "open")
  /\ UNCHANGED <<database, pool, cached, on, own, fid, todo>>

Answer(p) ==
  /\ Goto(p, "idle") /\ req' = [req EXCEPT ![p] = NoReq]
  /\ fid' = [fid EXCEPT ![p] = NoId] /\ todo' = [todo EXCEPT ![p] = {}]
  /\ alone' = [alone EXCEPT ![p] = FALSE]

\* openTransaction() of copyFile(), and the Database of deleteDirectory(),
\* which lists the files and opens no transaction.
Open(p) ==
  /\ pc[p] = "open"
  /\ \/ \E c \in Closed :
          /\ conn' = [conn EXCEPT ![c] = "own"]
          /\ \/ /\ req[p].op = "copy" /\ own' = [own EXCEPT ![p] = c]
                /\ BeginTx(c) /\ Goto(p, "client") /\ UNCHANGED <<on, todo>>
             \/ /\ req[p].op = "rmdir" /\ on' = [on EXCEPT ![p] = c]
                /\ todo' = [todo EXCEPT ![p] = {f \in Paths : file[f] # Absent}]
                /\ Goto(p, "each") /\ UNCHANGED <<database, own>>
          /\ UNCHANGED <<idle, req, fid, answers>>
     \/ /\ Closed = {} /\ Answer(p)
        /\ UNCHANGED <<database, pool, on, own, acked>>
  /\ UNCHANGED cached

-----------------------------------------------------------------------------
(* write()                                                                 *)

\* getPoolClient()
GetClient(p) ==
  /\ pc[p] = "client" /\ Take(p) /\ Goto(p, "begin")
  /\ UNCHANGED <<database, cached, req, own, fid, todo, answers>>

WriteBegin(p) ==
  /\ pc[p] = "begin" /\ BeginTx(on[p]) /\ Goto(p, "lock")
  /\ UNCHANGED <<pool, cached, locals, answers>>

Duplicate(p) == Seen(on[p], req[p].path) # Absent /\ ~req[p].replace

\* The advisory lock and fileExists().
WriteLock(p) ==
  /\ pc[p] = "lock" /\ LockFree(on[p], req[p].path)
  /\ lock' = [lock EXCEPT ![req[p].path] = on[p]]
  /\ Goto(p, IF Duplicate(p) THEN "rollback"
             ELSE IF Seen(on[p], req[p].path) = Absent THEN "rules" ELSE "record")
  /\ UNCHANGED <<file, inTx, limited, change, pool, cached, locals, answers>>

\* getAutoPathValues() for a new file: the rules come out of memory or, the
\* first time, over another connection of the pool.
AutoPathRules(p) ==
  /\ pc[p] = "rules" /\ (cached \/ CanQuery)
  /\ cached' = TRUE /\ Goto(p, "record")
  /\ UNCHANGED <<database, pool, locals, answers>>

\* insert_file(), or update_file() of the row that is there.
WriteRecord(p) ==
  LET f == req[p].path IN
  /\ pc[p] = "record" /\ RowFree(on[p], f)
  /\ \/ /\ Seen(on[p], f) = Absent
        /\ \E i \in Ids : /\ \A g \in Paths : file[g] # i /\ \A c \in Conns : change[c][g] # i
                          /\ \A q \in Calls : fid[q] # i
                          /\ Put(on[p], f, i)
        /\ Goto(p, "commit")
     \/ /\ Seen(on[p], f) # Absent /\ req[p].replace
        /\ Put(on[p], f, Seen(on[p], f)) /\ Goto(p, "commit")
     \/ /\ Duplicate(p) /\ Goto(p, "rollback") /\ UNCHANGED <<file, change>>
  /\ UNCHANGED <<inTx, limited, lock, pool, cached, locals, answers>>

\* mutant: COMMIT is given to the pool, as deleteFile() does it
CommitsOverPool(p) == IF idle # << >> THEN idle[Len(idle)] ELSE on[p]
CommitsOn(p) == on[p]
WriteCommit(p) ==
  /\ pc[p] = "commit" /\ EndTx(CommitsOn(p), TRUE)
  /\ limited' = limited \cup {on[p]} /\ Goto(p, "release")
  /\ UNCHANGED <<pool, cached, locals, answers>>

Release(p) ==
  /\ pc[p] = "release" /\ GiveBack(p)
  /\ IF own[p] = NoConn
     THEN Answer(p) /\ Remember(p, "there") /\ UNCHANGED own
     ELSE Goto(p, "close") /\ UNCHANGED <<req, fid, todo, answers, own>>
  /\ UNCHANGED <<database, cached>>

\* The catch clause: ROLLBACK and release.
WriteRollback(p) ==
  /\ pc[p] = "rollback" /\ EndTx(on[p], FALSE) /\ UNCHANGED limited
  /\ GiveBack(p)
  /\ IF own[p] = NoConn
     THEN Answer(p)
     ELSE Goto(p, "undo") /\ UNCHANGED <<req, fid, todo, alone>>
  /\ UNCHANGED <<cached, own, acked>>

\* What SET lock_timeout and statement_timeout limit; and a failed statement or
\* connection.
WaitsInPg(p) ==
  \/ pc[p] \in {"lock", "dlock"} /\ ~LockFree(on[p], req[p].path)
  \/ pc[p] \in {"record", "dremove"} /\ ~RowFree(on[p], req[p].path)
WriteFails(p) ==
  /\ \/ pc[p] \in {"lock", "record"} /\ (WaitsInPg(p) \/ "error" \in Faults)
     \/ pc[p] = "rules" /\ ~cached /\ NoneLeft
  /\ Goto(p, "rollback") /\ UNCHANGED <<database, pool, cached, locals, answers>>

\* After runInTransaction()'s function: COMMIT and end, or ROLLBACK, after
\* which nothing closes the connection.
CloseOwn(p) ==
  /\ pc[p] \in {"close", "undo"}
  /\ EndTx(own[p], pc[p] = "close") /\ limited' = limited
  /\ conn' = [conn EXCEPT ![own[p]] = IF pc[p] = "close" THEN "closed" ELSE "left"]
  /\ own' = [own EXCEPT ![p] = NoConn]
  /\ Answer(p)
  /\ IF pc[p] = "close" THEN Remember(p, "there") ELSE UNCHANGED acked
  /\ UNCHANGED <<idle, cached, on>>

\* PostgreSQL refuses another connection.
Refused(p) ==
  /\ pc[p] \in {"client"} \cup DeletePcs /\ on[p] = NoConn
  /\ NoneLeft
  /\ IF own[p] = NoConn
     THEN Answer(p)
     ELSE Goto(p, "undo") /\ UNCHANGED <<req, fid, todo, alone>>
  /\ UNCHANGED <<database, pool, cached, on, own, acked>>

-----------------------------------------------------------------------------
(* deleteFile(), by itself through the pool or within deleteDirectory().   *)

\* pool.query(): any connection will do.
Query(p) ==
  /\ pc[p] \in DeletePcs /\ Take(p)
  /\ UNCHANGED <<database, cached, pc, req, own, fid, todo, answers>>

DeleteBegin(p) ==
  /\ pc[p] = "dbegin" /\ on[p] # NoConn /\ BeginTx(on[p])
  /\ Done(p) /\ Goto(p, "dlook")
  /\ UNCHANGED <<cached, req, own, fid, todo, answers>>

DeleteLookup(p) ==
  /\ pc[p] = "dlook" /\ on[p] # NoConn
  /\ LET i == Seen(on[p], req[p].path) IN
     \/ i = Absent /\ Goto(p, "drollback") /\ UNCHANGED fid
     \/ i # Absent /\ Goto(p, "dlock") /\ fid' = [fid EXCEPT ![p] = i]
  /\ Done(p) /\ UNCHANGED <<database, cached, req, own, todo, answers>>

DeleteLock(p) ==
  /\ pc[p] = "dlock" /\ on[p] # NoConn /\ LockFree(on[p], req[p].path)
  /\ lock' = IF on[p] \in inTx THEN [lock EXCEPT ![req[p].path] = on[p]] ELSE lock
  /\ Done(p) /\ Goto(p, "dremove")
  /\ UNCHANGED <<file, inTx, limited, change, cached, req, own, fid, todo, answers>>

DeleteRow(p) ==
  LET f == req[p].path IN
  /\ pc[p] = "dremove" /\ on[p] # NoConn /\ RowFree(on[p], f)
  /\ IF Seen(on[p], f) = fid[p] THEN Put(on[p], f, Absent) ELSE UNCHANGED <<file, change>>
  /\ Done(p) /\ Goto(p, "dcommit")
  /\ UNCHANGED <<inTx, limited, lock, cached, req, own, fid, todo, answers>>

DeleteCommit(p) ==
  /\ pc[p] = "dcommit" /\ on[p] # NoConn
  /\ EndTx(on[p], TRUE) /\ UNCHANGED limited /\ Done(p)
  /\ Remember(p, "gone")
  /\ IF req[p].op = "rmdir"
     THEN Goto(p, "each") /\ UNCHANGED <<req, fid, todo, alone>>
     ELSE Answer(p)
  /\ UNCHANGED <<cached, own>>

\* The catch clause.  A deleteDirectory() it happens in ends there, and its
\* connection is left as it is.
LeaveOpen(p) == /\ conn' = [conn EXCEPT ![on[p]] = "left"]
                /\ on' = [on EXCEPT ![p] = NoConn] /\ UNCHANGED idle
NoUndo(p) == UNCHANGED database    \* mutant: no ROLLBACK
Undo(p) == EndTx(on[p], FALSE) /\ UNCHANGED limited
DeleteRollback(p) ==
  /\ pc[p] = "drollback" /\ on[p] # NoConn /\ Undo(p)
  /\ IF req[p].op = "rmdir" THEN LeaveOpen(p) ELSE Done(p)
  /\ Answer(p) /\ UNCHANGED <<cached, own, acked>>

\* PostgreSQL finds the transactions that wait for one another in a circle, and
\* has one of their statements fail.
WaitsFor(p, c) ==
  \/ pc[p] \in {"lock", "dlock"} /\ lock[req[p].path] = c
  \/ pc[p] \in {"record", "dremove"} /\ change[c][req[p].path] # Same
InCircles(D) ==
  D # {} /\ \A p \in D : on[p] # NoConn /\ \E q \in D \ {p} : on[q] # NoConn /\ WaitsFor(p, on[q])
Circle(D) == InCircles(D) /\ \A E \in SUBSET D : InCircles(E) => E = D

DeleteFails(p) ==
  /\ pc[p] \in {"dlock", "dremove"} /\ on[p] # NoConn
  /\ \/ "error" \in Faults \/ (on[p] \in limited /\ WaitsInPg(p))
     \/ \E D \in SUBSET Calls : p \in D /\ Circle(D)
  /\ IF req[p].op = "rmdir" THEN UNCHANGED <<database, pool, on>> ELSE Discard(p)
  /\ Goto(p, "drollback") /\ UNCHANGED <<cached, req, own, fid, todo, answers>>

\* deleteDirectory(): one file after the other, then the connection.
EachFile(p) ==
  /\ pc[p] = "each"
  /\ \/ \E f \in todo[p] :
          /\ req' = [req EXCEPT ![p].path = f]
          /\ todo' = [todo EXCEPT ![p] = @ \ {f}]
          /\ Goto(p, "dbegin") /\ UNCHANGED <<pool, on, fid, alone>>
     \/ /\ todo[p] = {} /\ Answer(p)
        /\ conn' = [conn EXCEPT ![on[p]] = "closed"]
        /\ on' = [on EXCEPT ![p] = NoConn] /\ UNCHANGED idle
  /\ UNCHANGED <<database, cached, own, acked>>

-----------------------------------------------------------------------------

Serve(p) ==
  \/ Open(p) \/ Refused(p) \/ CloseOwn(p)
  \/ GetClient(p) \/ WriteBegin(p) \/ WriteLock(p) \/ AutoPathRules(p)
  \/ WriteRecord(p) \/ WriteCommit(p) \/ Release(p) \/ WriteRollback(p) \/ WriteFails(p)
  \/ Query(p) \/ DeleteBegin(p) \/ DeleteLookup(p) \/ DeleteLock(p) \/ DeleteRow(p)
  \/ DeleteCommit(p) \/ DeleteRollback(p) \/ DeleteFails(p) \/ EachFile(p)

Next == \E p \in Calls : Submit(p) \/ Serve(p)

Spec == Init /\ [][Next]_vars

-----------------------------------------------------------------------------

\* The types: a path has one row, a connection one state, and a call holds at
\* most one connection of the pool and one of its own.
TypeOK ==
  /\ file \in [Paths -> Ids \cup {Absent}]
  /\ conn \in [Conns -> {"closed", "idle", "out", "own", "left"}]
  /\ idle \in Seq(Conns) /\ inTx \subseteq Conns /\ limited \subseteq Conns
  /\ change \in [Conns -> [Paths -> Ids \cup {Absent, Same}]]
  /\ lock \in [Paths -> Conns \cup {NoConn}] /\ cached \in BOOLEAN
  /\ req \in [Calls -> Request \cup {NoReq}]
  /\ on \in [Calls -> Conns \cup {NoConn}] /\ own \in [Calls -> Conns \cup {NoConn}]
  /\ fid \in [Calls -> Ids \cup {NoId}] /\ todo \in [Calls -> SUBSET Paths]

\* The statements of a write() run on a connection no other call holds
\* (getPoolClient() and release()), the pool neither hands out a connection
\* twice nor forgets one, and a connection that a failed runInTransaction() or
\* deleteDirectory() has left open holds no transaction, no lock and no row
\* that others would wait for.
PoolConsistent ==
  /\ TypeOK
  /\ \A p, q \in Calls : p # q /\ on[p] # NoConn => on[p] # on[q]
  /\ {c \in Conns : conn[c] = "idle"} = {idle[i] : i \in 1..Len(idle)}
  /\ \A i, j \in 1..Len(idle) : i # j => idle[i] # idle[j]
  /\ \A c \in Conns : conn[c] = "out" => \E p \in Calls : on[p] = c
  /\ \A c \in Conns : conn[c] = "left" =>
       c \notin inTx /\ change[c] = Untouched /\ \A f \in Paths : lock[f] # c

\* A file of which a write() has reported success is there until a call that
\* may remove it begins, whatever is left over in the connections.
AckedWritesStay == \A f \in Paths : acked[f] = "there" => file[f] # Absent

\* A call that can only wait: for a connection of the pool, or, on one that has
\* no lock_timeout, for another transaction.  Everything hangs if every call can
\* only wait and none of them in a circle, which PostgreSQL would break.
Blocked(p) ==
  \/ /\ pc[p] \in {"client"} \cup DeletePcs /\ on[p] = NoConn /\ ~CanQuery /\ ~NoneLeft
  \/ /\ pc[p] = "rules" /\ ~cached /\ ~CanQuery /\ ~NoneLeft
  \/ /\ pc[p] \in {"dlock", "dremove"} /\ on[p] # NoConn /\ on[p] \notin limited
     /\ WaitsInPg(p)
Hang == /\ \E p \in Calls : pc[p] # "idle"
        /\ \A p \in Calls : pc[p] # "idle" => Blocked(p)
        /\ \A D \in SUBSET Calls : ~InCircles(D)

\* The calls in progress hang, all of them, only for one of two reasons: every
\* connection of the pool is with a write() that reads the auto-path rules for the
\* first time, over another one (index.js:250); or a deletion waits for what a
\* transaction has locked that is left in a connection no call holds.
Abandoned == {c \in Conns : \A p \in Calls : c \notin {on[p], own[p]}}
HangsExplained ==
  Hang => \/ \A c \in Pooled : \E p \in Calls : on[p] = c /\ pc[p] = "rules" /\ ~cached
          \/ \E p \in Calls : on[p] # NoConn /\ \E c \in Abandoned :
               c \in inTx /\ (lock[req[p].path] = c \/ change[c][req[p].path] # Same)
=============================================================================
