------------------------------ MODULE CaskStore ------------------------------
(***************************************************************************)
(* The storage core of CaskFS: the file table and the hash table in        *)
(* PostgreSQL, the content-addressed blobs on disk, and the sessions that  *)
(* write, copy, move, delete and garbage-collect files concurrently.       *)
(*                                                                         *)
(* A session is one command line process: a connection of its own, on      *)
(* which write() and deleteFile() run one transaction at READ COMMITTED.   *)
(* Each action is the code between two points where other sessions can     *)
(* interfere: an SQL statement, or a file system call.  The uncommitted    *)
(* part of a transaction is kept in the session and applied at COMMIT; the *)
(* file system is shared and immediate.  That difference is what makes     *)
(* this code hard to get right.                                            *)
(*                                                                         *)
(* Abstracted: directories, ACLs, metadata, partition keys and the linked  *)
(* data tables, which have modules of their own or are left out (see the   *)
(* README).  A hash stands for the content that has it.                    *)
(***************************************************************************)
EXTENDS FiniteSets

CONSTANTS
  Procs,      \* sessions
  Paths,      \* file paths
  Hashes,     \* content hashes
  FileIds,    \* file_id values; gen_random_uuid() never repeats one in use
  RdfPaths,   \* the paths whose extension makes a file linked data
  Requests,   \* the calls a session may make
  Faults,     \* which of "error" and "crash" may happen
  NoHash, NoId, NoReq, NoProc

Request == [op : {"write", "copy", "move", "delete", "gc"},
            path : Paths, from : Paths, hash : Hashes \cup {NoHash},
            src : {"data", "path", "hash"}, replace : BOOLEAN, soft : BOOLEAN]

\* A copy or a move is a hash write whose hash is not known yet.
WellFormed(r) ==
  /\ r.op = "write" => r.hash \in Hashes
  /\ r.op \in {"copy", "move"} => r.hash = NoHash /\ r.src = "hash"

ASSUME ConstantsAssumption ==
  /\ RdfPaths \subseteq Paths
  /\ Requests \subseteq Request /\ \A r \in Requests : WellFormed(r)
  /\ Faults \subseteq {"error", "crash"}
  /\ NoHash \notin Hashes /\ NoId \notin FileIds
  /\ NoReq \notin Request /\ NoProc \notin Procs

VARIABLES
  content,    \* committed caskfs.file: the hash of each path, or NoHash
  fileId,     \* committed caskfs.file: the file_id of each path, or NoId
  row,        \* committed caskfs.hash: the hashes that have a row
  blob,       \* each hash file on disk: "none", "partial" or "full"
  copier,     \* the session whose copy last opened the hash file, or NoProc
  quads,      \* the hashes that have a .nq companion file
  strayTmp,   \* the sessions that left a temporary file behind
  pc, req,    \* where each session is, and the call it is serving
  tmp,        \* whether the session has a temporary file
  change,     \* uncommitted change of the file row: "none", "put", "remove"
  rowIns,     \* sessions with an uncommitted INSERT of their hash row
  rowDel,     \* sessions with an uncommitted DELETE of their hash row
  fid,        \* the file_id deleteFile() read
  victim,     \* the hash cas.delete() is working on
  todo        \* the hashes deleteUnusedHashes() still has to delete

store == <<content, fileId, row>>
disk == <<blob, copier, quads, strayTmp>>
tx == <<change, rowIns, rowDel>>
locals == <<tmp, fid, victim, todo>>
vars == <<store, disk, pc, req, tx, locals>>

WritePcs == {"stage", "record", "check", "copy", "copying", "finish", "commit"}
DeletePcs == {"remove", "count", "unlink", "purge", "dcommit"}
GcPcs == {"sweep", "next", "unlink", "purge"}
LockPcs == WritePcs \cup DeletePcs
Pcs == LockPcs \cup GcPcs \cup {"idle", "source", "wlock", "lookup", "dlock"}

Files(h) == {f \in Paths : content[f] = h}

Init ==
  /\ content = [f \in Paths |-> NoHash] /\ fileId = [f \in Paths |-> NoId]
  /\ row = {} /\ quads = {} /\ strayTmp = {}
  /\ blob = [h \in Hashes |-> "none"] /\ copier = [h \in Hashes |-> NoProc]
  /\ pc = [p \in Procs |-> "idle"] /\ req = [p \in Procs |-> NoReq]
  /\ tmp = [p \in Procs |-> FALSE] /\ change = [p \in Procs |-> "none"]
  /\ rowIns = {} /\ rowDel = {}
  /\ fid = [p \in Procs |-> NoId] /\ victim = [p \in Procs |-> NoHash]
  /\ todo = [p \in Procs |-> {}]

-----------------------------------------------------------------------------
(* What a session sees, and what it has to wait for.                       *)

\* pg_advisory_xact_lock(path): held from its grant to the end of the
\* transaction.  deleteUnusedHashes() runs in autocommit and takes none.
HoldsLock(p, f) == pc[p] \in LockPcs /\ req[p].op # "gc" /\ req[p].path = f
LockFree(p) == \A q \in Procs \ {p} : ~HoldsLock(q, req[p].path)

\* An uncommitted file row holds FOR KEY SHARE on the hash row it refers to.
KeyShare(p, h) == change[p] = "put" /\ req[p].hash = h

\* INSERT ... ON CONFLICT (value) waits for another transaction's insert or
\* delete of the same hash row to end.
RowSettled(p, h) ==
  \A q \in Procs \ {p} : /\ ~(q \in rowIns /\ req[q].hash = h)
                         /\ ~(q \in rowDel /\ victim[q] = h)

\* DELETE FROM hash waits for key shares and for another delete of the row;
\* for a row it does not see, it does not wait.
RowDeletable(p, h) ==
  h \in row => \A q \in Procs \ {p} : ~KeyShare(q, h) /\ ~(q \in rowDel /\ victim[q] = h)

\* The files that refer to h, as a statement of p's transaction counts them:
\* what has been committed, and p's own delete.
CommittedFiles(p, h) == Files(h)    \* mutant: counts outside the transaction
SeenFiles(p, h) == {f \in Files(h) : ~(change[p] = "remove" /\ f = req[p].path)}

\* The foreign key file.hash_id -> hash.hash_id refuses to orphan a file.
NoForeignKey(p, h) == TRUE    \* mutant: file.hash_id without REFERENCES
FkAllowsDelete(p, h) == SeenFiles(p, h) = {}

-----------------------------------------------------------------------------
(* Leaving a call.                                                         *)

\* Ends p's transaction and its locals; the call goes on with r at pc l.
Close(p, r, l) ==
  /\ pc' = [pc EXCEPT ![p] = l] /\ req' = [req EXCEPT ![p] = r]
  /\ change' = [change EXCEPT ![p] = "none"]
  /\ rowIns' = rowIns \ {p} /\ rowDel' = rowDel \ {p}
  /\ tmp' = [tmp EXCEPT ![p] = FALSE] /\ fid' = [fid EXCEPT ![p] = NoId]
  /\ victim' = [victim EXCEPT ![p] = NoHash] /\ todo' = [todo EXCEPT ![p] = {}]

\* The error path of write(): ROLLBACK, then abortWrite() only if
\* context.stagedFile is set.  stageWrite() sets context.data.stagedFile, so
\* the temporary file stays behind.
TmpAfterError(p) == IF tmp[p] THEN strayTmp \cup {p} ELSE strayTmp
Abort(p) ==
  /\ Close(p, NoReq, "idle")
  /\ strayTmp' = TmpAfterError(p)
  /\ UNCHANGED <<store, blob, copier, quads>>

Return(p) == Close(p, NoReq, "idle") /\ UNCHANGED disk

Goto(p, l) == pc' = [pc EXCEPT ![p] = l]

-----------------------------------------------------------------------------
(* Calls.                                                                  *)

Start == [write |-> "wlock", copy |-> "source", move |-> "source",
          delete |-> "lookup", gc |-> "sweep"]

Submit(p) ==
  /\ pc[p] = "idle"
  /\ \E r \in Requests : /\ req' = [req EXCEPT ![p] = r]
                         /\ Goto(p, Start[r.op])
  /\ UNCHANGED <<store, disk, tx, locals>>

\* copyFile(): the hash of the source file is read once, outside any lock,
\* and becomes a hash write of the destination.
ReadSource(p) ==
  /\ pc[p] = "source"
  /\ \/ /\ content[req[p].from] # NoHash
        /\ req' = [req EXCEPT ![p].hash = content[req[p].from]]
        /\ Goto(p, "wlock")
        /\ UNCHANGED <<store, disk, tx, locals>>
     \/ content[req[p].from] = NoHash /\ Abort(p)

-----------------------------------------------------------------------------
(* write()                                                                 *)

NoDuplicateCheck(p) == FALSE    \* mutant: writes replace by default
Duplicate(p) == content[req[p].path] # NoHash /\ ~req[p].replace

\* BEGIN, the advisory lock, fileExists() and the duplicate check.
WriteLock(p) ==
  /\ pc[p] = "wlock" /\ LockFree(p)
  /\ \/ Duplicate(p) /\ Abort(p)
     \/ ~Duplicate(p) /\ Goto(p, "stage") /\ UNCHANGED <<store, disk, req, tx, locals>>

\* stageWrite(): data and streams always go to a temporary file; a readPath
\* only when its hash file does not exist; a hash needs the hash file to be
\* there and to hash to that value again.
StageWrite(p) ==
  /\ pc[p] = "stage"
  /\ LET h == req[p].hash IN
     \/ /\ req[p].src = "hash" => blob[h] = "full"
        /\ tmp' = [tmp EXCEPT ![p] = \/ req[p].src = "data"
                                     \/ req[p].src = "path" /\ blob[h] = "none"]
        /\ Goto(p, "record")
        /\ UNCHANGED <<store, disk, req, tx, fid, victim, todo>>
     \/ req[p].src = "hash" /\ blob[h] # "full" /\ Abort(p)

\* A copy has the MIME type of its source, any other file that of its name.
\* RDF is parsed for new files only; rdf.insert() reads the temporary file
\* and has no other file to fall back to.
ParsesRdf(p) ==
  /\ content[req[p].path] = NoHash
  /\ (IF req[p].op = "write" THEN req[p].path ELSE req[p].from) \in RdfPaths

\* insert_file() or update_file(), or nothing when the hash is the same, and
\* the linked data of a new file.
RecordFile(p) ==
  /\ pc[p] = "record"
  /\ LET h == req[p].hash IN
     \/ /\ content[req[p].path] # h
        /\ RowSettled(p, h)
        /\ ParsesRdf(p) => tmp[p]
        /\ change' = [change EXCEPT ![p] = "put"]
        /\ rowIns' = IF h \in row THEN rowIns ELSE rowIns \cup {p}
        /\ Goto(p, "check")
        /\ UNCHANGED <<store, disk, req, rowDel, locals>>
     \/ /\ content[req[p].path] = h
        /\ Goto(p, "check")
        /\ UNCHANGED <<store, disk, req, tx, locals>>
     \/ ParsesRdf(p) /\ ~tmp[p] /\ Abort(p)

\* finalizeWrite(): is the hash file there?  Without a temporary file there
\* is nothing to copy, and copyFile() throws.
NothingToCopy(p) == blob[req[p].hash] # "none" \/ ~tmp[p]    \* mutant: no source, no copy
HashFileThere(p) == blob[req[p].hash] # "none"
CheckBlob(p) ==
  /\ pc[p] = "check"
  /\ \/ /\ HashFileThere(p) /\ Goto(p, "finish")
        /\ UNCHANGED <<store, disk, req, tx, locals>>
     \/ /\ blob[req[p].hash] = "none" /\ tmp[p] /\ Goto(p, "copy")
        /\ UNCHANGED <<store, disk, req, tx, locals>>
     \/ blob[req[p].hash] = "none" /\ ~tmp[p] /\ Abort(p)

\* fsp.copyFile() opens the hash file itself, truncating it, ...
OpenCopy(p) ==
  /\ pc[p] = "copy"
  /\ blob' = [blob EXCEPT ![req[p].hash] = "partial"]
  /\ copier' = [copier EXCEPT ![req[p].hash] = p]
  /\ Goto(p, "copying")
  /\ UNCHANGED <<store, quads, strayTmp, req, tx, locals>>

\* ... and the content is complete when the copy that opened it last ends,
\* unless the file was unlinked meanwhile.
EndCopy(p) ==
  /\ pc[p] = "copying"
  /\ LET h == req[p].hash IN
     IF copier[h] = p
       THEN blob' = [blob EXCEPT ![h] = "full"] /\ copier' = [copier EXCEPT ![h] = NoProc]
       ELSE UNCHANGED <<blob, copier>>
  /\ Goto(p, "finish")
  /\ UNCHANGED <<store, quads, strayTmp, req, tx, locals>>

\* The rest of finalizeWrite(): the .nq file, and unlinking the temporary.
QuadsOfNewHash(p) ==    \* mutant: .nq written for new hashes only
  IF ParsesRdf(p) /\ p \in rowIns THEN quads \cup {req[p].hash} ELSE quads
QuadsAfter(p) == IF ParsesRdf(p) THEN quads \cup {req[p].hash} ELSE quads
FinishWrite(p) ==
  /\ pc[p] = "finish"
  /\ quads' = QuadsAfter(p)
  /\ tmp' = [tmp EXCEPT ![p] = FALSE]
  /\ Goto(p, "commit")
  /\ UNCHANGED <<store, blob, copier, strayTmp, req, tx, fid, victim, todo>>

\* After the commit of a write the replaced hash would be deleted if
\* context.data.replacedFile were set; nothing sets it to a file.  A move
\* goes on to delete its source.
AfterWrite(r) ==
  IF r.op = "move" THEN [r EXCEPT !.op = "delete", !.path = r.from] ELSE NoReq

\* An insert takes a fresh file_id, an update keeps the one of the row.
IdOfRow(p) == {fileId[req[p].path]}    \* mutant: an insert returns no new id
IdsAtCommit(p) ==
  IF fileId[req[p].path] # NoId THEN {fileId[req[p].path]}
  ELSE FileIds \ ({fileId[f] : f \in Paths} \cup {fid[q] : q \in Procs})

WriteCommit(p) ==
  /\ pc[p] = "commit"
  /\ \/ /\ change[p] = "put"
        /\ content' = [content EXCEPT ![req[p].path] = req[p].hash]
        /\ \E i \in IdsAtCommit(p) : fileId' = [fileId EXCEPT ![req[p].path] = i]
     \/ change[p] = "none" /\ UNCHANGED <<content, fileId>>
  /\ row' = IF p \in rowIns THEN row \cup {req[p].hash} ELSE row
  /\ Close(p, AfterWrite(req[p]), IF req[p].op = "move" THEN "lookup" ELSE "idle")
  /\ UNCHANGED disk

-----------------------------------------------------------------------------
(* deleteFile() and cas.delete()                                           *)

\* BEGIN and metadata(): the row is read before the lock is asked for.
DeleteLookup(p) ==
  /\ pc[p] = "lookup"
  /\ LET f == req[p].path IN
     \/ /\ content[f] # NoHash
        /\ fid' = [fid EXCEPT ![p] = fileId[f]]
        /\ victim' = [victim EXCEPT ![p] = content[f]]
        /\ Goto(p, "dlock")
        /\ UNCHANGED <<store, disk, req, tx, tmp, todo>>
     \/ content[f] = NoHash /\ Abort(p)

DeleteLock(p) ==
  /\ pc[p] = "dlock" /\ LockFree(p)
  /\ Goto(p, "remove")
  /\ UNCHANGED <<store, disk, req, tx, locals>>

\* DELETE FROM file WHERE file_id = the one read: it may match no row.
DeleteFileRow(p) ==
  /\ pc[p] = "remove"
  /\ change' = [change EXCEPT ![p] = IF fileId[req[p].path] = fid[p] THEN "remove" ELSE "none"]
  /\ Goto(p, "count")
  /\ UNCHANGED <<store, disk, req, rowIns, rowDel, locals>>

\* cas.delete(): SELECT COUNT(*) of the files that refer to the hash.
NotSoft(p) == ~req[p].soft    \* mutant: the count is not looked at
Unreferenced(p) == ~req[p].soft /\ SeenFiles(p, victim[p]) = {}
CountReferences(p) ==
  /\ pc[p] = "count"
  /\ Goto(p, IF Unreferenced(p) THEN "unlink" ELSE "dcommit")
  /\ UNCHANGED <<store, disk, req, tx, locals>>

\* The hash file and its .nq companion go at once, whatever becomes of the
\* transaction.
UnlinkBlob(p) ==
  /\ pc[p] = "unlink"
  /\ blob' = [blob EXCEPT ![victim[p]] = "none"]
  /\ copier' = [copier EXCEPT ![victim[p]] = NoProc]
  /\ quads' = quads \ {victim[p]}
  /\ Goto(p, "purge")
  /\ UNCHANGED <<store, strayTmp, req, tx, locals>>

\* DELETE FROM hash within deleteFile()'s transaction.
RowDelAfter(p) == IF victim[p] \in row THEN rowDel \cup {p} ELSE rowDel
DeleteHashRow(p) ==
  /\ pc[p] = "purge" /\ req[p].op = "delete" /\ RowDeletable(p, victim[p])
  /\ \/ /\ FkAllowsDelete(p, victim[p])
        /\ rowDel' = RowDelAfter(p)
        /\ Goto(p, "dcommit")
        /\ UNCHANGED <<store, disk, req, change, rowIns, locals>>
     \/ ~FkAllowsDelete(p, victim[p]) /\ Abort(p)

DeleteCommit(p) ==
  /\ pc[p] = "dcommit"
  /\ IF change[p] = "remove"
       THEN /\ content' = [content EXCEPT ![req[p].path] = NoHash]
            /\ fileId' = [fileId EXCEPT ![req[p].path] = NoId]
       ELSE UNCHANGED <<content, fileId>>
  /\ row' = IF p \in rowDel THEN row \ {victim[p]} ELSE row
  /\ Return(p)

-----------------------------------------------------------------------------
(* deleteUnusedHashes({limit}): autocommit statements, no lock.            *)

Unused == {h \in row : Files(h) = {}}

\* DELETE FROM hash ... RETURNING value, for the unused_hashes.
SweepUnused(p) ==
  /\ pc[p] = "sweep" /\ \A h \in Unused : RowDeletable(p, h)
  /\ row' = row \ Unused
  /\ todo' = [todo EXCEPT ![p] = Unused]
  /\ Goto(p, "next")
  /\ UNCHANGED <<content, fileId, disk, req, tx, tmp, fid, victim>>

\* The loop over the returned hashes, and the count of cas.delete().
Requeued(p, h) ==    \* mutant: a hash in use again is tried again
  IF Files(h) = {} THEN todo[p] \ {h} ELSE todo[p]
TodoAfter(p, h) == todo[p] \ {h}
NextUnused(p) ==
  /\ pc[p] = "next"
  /\ \/ todo[p] = {} /\ Return(p) /\ UNCHANGED store
     \/ \E h \in todo[p] :
          /\ todo' = [todo EXCEPT ![p] = TodoAfter(p, h)]
          /\ IF Files(h) = {}
               THEN victim' = [victim EXCEPT ![p] = h] /\ Goto(p, "unlink")
               ELSE UNCHANGED <<victim, pc>>
          /\ UNCHANGED <<store, disk, req, tx, tmp, fid>>

\* DELETE FROM hash in autocommit; a foreign key error ends the whole call.
DeleteUnusedRow(p) ==
  /\ pc[p] = "purge" /\ req[p].op = "gc" /\ RowDeletable(p, victim[p])
  /\ \/ /\ FkAllowsDelete(p, victim[p])
        /\ row' = row \ {victim[p]}
        /\ victim' = [victim EXCEPT ![p] = NoHash]
        /\ Goto(p, "next")
        /\ UNCHANGED <<content, fileId, disk, req, tx, tmp, fid, todo>>
     \/ ~FkAllowsDelete(p, victim[p]) /\ Abort(p)

-----------------------------------------------------------------------------
(* Faults                                                                  *)

\* A copy in progress when the session fails: copyFile() unlinks the
\* destination it could not complete, a crash leaves it as it is.
CopyFails(p, left) ==
  IF pc[p] = "copying"
    THEN /\ copier' = [copier EXCEPT ![req[p].hash] =
                         IF left = "none" \/ @ = p THEN NoProc ELSE @]
         /\ blob' = [blob EXCEPT ![req[p].hash] = IF left = "none" THEN "none" ELSE @]
    ELSE UNCHANGED <<blob, copier>>

\* Any statement or file system call may fail: a lock or statement timeout,
\* a lost connection, a full disk.
Fail(p) ==
  /\ "error" \in Faults /\ pc[p] # "idle"
  /\ CopyFails(p, "none")
  /\ Close(p, NoReq, "idle") /\ strayTmp' = TmpAfterError(p)
  /\ UNCHANGED <<store, quads>>

\* The process dies; the server rolls its transaction back.
Crash(p) ==
  /\ "crash" \in Faults /\ pc[p] # "idle"
  /\ CopyFails(p, "as it is")
  /\ Close(p, NoReq, "idle")
  /\ strayTmp' = IF tmp[p] THEN strayTmp \cup {p} ELSE strayTmp
  /\ UNCHANGED <<store, quads>>

-----------------------------------------------------------------------------

WriteStep(p) ==
  \/ ReadSource(p) \/ WriteLock(p) \/ StageWrite(p) \/ RecordFile(p) \/ CheckBlob(p)
  \/ OpenCopy(p) \/ EndCopy(p) \/ FinishWrite(p) \/ WriteCommit(p)

DeleteStep(p) ==
  \/ DeleteLookup(p) \/ DeleteLock(p) \/ DeleteFileRow(p) \/ CountReferences(p)
  \/ UnlinkBlob(p) \/ DeleteHashRow(p) \/ DeleteCommit(p)

GcStep(p) == SweepUnused(p) \/ NextUnused(p) \/ DeleteUnusedRow(p)

Step(p) == WriteStep(p) \/ DeleteStep(p) \/ GcStep(p)

Next == \E p \in Procs : Submit(p) \/ Step(p) \/ Fail(p) \/ Crash(p)

Spec == Init /\ [][Next]_vars

\* A session that can go on does: its own steps are ordinary awaits, and
\* PostgreSQL grants contended locks in the order they were asked for, so a
\* waiter that gets the chance again and again is served.
FairSpec == Spec /\ \A p \in Procs : SF_vars(Step(p))

-----------------------------------------------------------------------------
(* Properties                                                              *)

StoreTyped ==
  /\ content \in [Paths -> Hashes \cup {NoHash}]
  /\ fileId \in [Paths -> FileIds \cup {NoId}]
  /\ \A f \in Paths : content[f] = NoHash <=> fileId[f] = NoId
  /\ row \subseteq Hashes

DiskTyped ==
  /\ blob \in [Hashes -> {"none", "partial", "full"}]
  /\ copier \in [Hashes -> Procs \cup {NoProc}]
  /\ quads \subseteq Hashes /\ strayTmp \subseteq Procs

SessionsTyped ==
  /\ pc \in [Procs -> Pcs]
  /\ req \in [Procs -> Request \cup {NoReq}]
  /\ tmp \in [Procs -> BOOLEAN]
  /\ change \in [Procs -> {"none", "put", "remove"}]
  /\ rowIns \subseteq Procs /\ rowDel \subseteq Procs
  /\ fid \in [Procs -> FileIds \cup {NoId}]
  /\ victim \in [Procs -> Hashes \cup {NoHash}]
  /\ todo \in [Procs -> SUBSET Hashes]

\* The values the variables take; a path has a file_id exactly when it has a
\* file, which relies on a fresh file_id for every insert (insert_file()).
TypeOK == StoreTyped /\ DiskTyped /\ SessionsTyped

\* Every file row refers to a hash row, whatever the interleaving of writers,
\* deleters and the garbage collector, and whatever fails: insert_file(),
\* update_file(), cas.delete() and deleteUnusedHashes() never rely on a row
\* that another transaction is taking away.
RowForEveryFile == \A f \in Paths : content[f] # NoHash => content[f] \in row

\* What cask.read() needs: the hash file of every committed file is there and
\* complete.
ContentReadable == \A f \in Paths : content[f] # NoHash => blob[content[f]] = "full"

Quiet == \A p \in Procs : pc[p] = "idle"

\* When no call is in progress every file can be read.  (Within deleteFile()
\* the hash file is gone before the file row is.)
ReadableWhenQuiet == Quiet => ContentReadable

\* Between calls the hash table, the disk and the name space agree: a hash has
\* a row exactly when its file is stored, so that deduplication and garbage
\* collection, which each look at one of the two, miss nothing; and no row is
\* left without a file that refers to it, because cas.delete() removes the hash
\* "if no other references exist" (cas.js:342).
RowsMatchBlobs ==
  Quiet => /\ \A h \in Hashes : h \in row <=> blob[h] = "full"
           /\ Unused = {}

\* A file created at a linked data path has the .nq companion of its content,
\* also when another path brought the content in first (finalizeWrite()).
RdfHasQuads == \A f \in RdfPaths : content[f] # NoHash => content[f] \in quads

\* The abstract store: every call takes effect on the name space at one
\* instant or not at all, a write without replace only where there is no file,
\* and a copy with the hash its source had at one instant.
Atomic == INSTANCE AtomicStore WITH pending <- req
RefinesAtomicStore == Atomic!Spec

\* Every call ends, though sessions wait for each other's locks.
CallsEnd == \A p \in Procs : pc[p] # "idle" ~> pc[p] = "idle"
=============================================================================
