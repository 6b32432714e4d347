--------------------------- MODULE CaskStoreProofs ---------------------------
(***************************************************************************)
(* What holds of CaskStore for any number of sessions, paths and hashes.   *)
(***************************************************************************)
EXTENDS CaskStore, TLAPS

-----------------------------------------------------------------------------
(* The inductive invariant                                                 *)

AfterRecord == {"check", "copy", "copying", "finish", "commit"}

\* Where a session is, what it serves, and what it has uncommitted agree.
CallOK(p) ==
  /\ pc[p] = "idle" <=> req[p] = NoReq
  /\ pc[p] = "source" => req[p].op \in {"copy", "move"} /\ req[p].hash = NoHash
  /\ pc[p] \in WritePcs \cup {"wlock"} =>
       req[p].op \in {"write", "copy", "move"} /\ req[p].hash \in Hashes
  /\ pc[p] \in {"lookup", "dlock", "remove", "count", "dcommit"} => req[p].op = "delete"
  /\ pc[p] \in {"sweep", "next"} => req[p].op = "gc"
  /\ pc[p] \in {"unlink", "purge"} => req[p].op \in {"delete", "gc"} /\ victim[p] \in Hashes
  /\ pc[p] \in {"dlock", "remove", "count", "dcommit"} => victim[p] \in Hashes
  /\ change[p] = "put" => pc[p] \in AfterRecord
  /\ change[p] = "remove" => pc[p] \in {"count", "unlink", "purge", "dcommit"}
                             /\ req[p].op = "delete"
  /\ p \in rowIns => change[p] = "put"
  /\ p \in rowDel => pc[p] = "dcommit"

Calls == \A p \in Procs : CallOK(p)

\* A row about to be referred to is there, or its inserter refers to it.
RowForEveryPut == \A p \in Procs : change[p] = "put" => p \in rowIns \/ req[p].hash \in row

\* A row about to be deleted is referred to by nobody else: not by a file
\* about to be written, ...
NoPutOnDeletedRow ==
  \A p, q \in Procs : p \in rowDel /\ change[q] = "put" => req[q].hash # victim[p]

\* ... nor by a file other than the one deleted with it.
NoFileOnDeletedRow ==
  \A p \in Procs : \A f \in Paths :
    p \in rowDel /\ content[f] = victim[p] => change[p] = "remove" /\ f = req[p].path

RowInv == RowForEveryFile /\ RowForEveryPut /\ NoPutOnDeletedRow /\ NoFileOnDeletedRow

\* The advisory lock excludes, ...
LockExclusion ==
  \A p, q \in Procs : \A f \in Paths : HoldsLock(p, f) /\ HoldsLock(q, f) => p = q

\* ... so that what a writer found out about its path stays true.
FoundStaysTrue ==
  \A p \in Procs :
    /\ pc[p] \in WritePcs => ~Duplicate(p)
    /\ pc[p] \in AfterRecord /\ change[p] = "none" => content[req[p].path] = req[p].hash

IInv == TypeOK /\ Calls /\ RowInv /\ LockExclusion /\ FoundStaysTrue

Act(p) == Submit(p) \/ Step(p) \/ Fail(p) \/ Crash(p)

-----------------------------------------------------------------------------
(* A step of a session changes nothing of another session.                 *)

Others(p) ==
  \A q \in Procs \ {p} :
    /\ pc'[q] = pc[q] /\ req'[q] = req[q] /\ change'[q] = change[q] /\ tmp'[q] = tmp[q]
    /\ fid'[q] = fid[q] /\ victim'[q] = victim[q] /\ todo'[q] = todo[q]
    /\ (q \in rowIns' <=> q \in rowIns) /\ (q \in rowDel' <=> q \in rowDel)

\* Whatever a session does, it leaves the variables of the others alone.
LEMMA Frame ==
  ASSUME TypeOK, NEW p \in Procs, Act(p)
  PROVE  Others(p)
<1> USE DEF Others, TypeOK, SessionsTyped, tx, locals
<1>1. CASE Submit(p)
  BY <1>1 DEF Submit, Goto, Start
<1>2. CASE ReadSource(p)
  BY <1>2 DEF ReadSource, Abort, Goto, Close
<1>3. CASE WriteLock(p)
  BY <1>3 DEF WriteLock, Abort, Goto, Close
<1>4. CASE StageWrite(p)
  BY <1>4 DEF StageWrite, Abort, Goto, Close
<1>5. CASE RecordFile(p)
  BY <1>5 DEF RecordFile, Abort, Goto, Close
<1>6. CASE CheckBlob(p)
  BY <1>6 DEF CheckBlob, Abort, Goto, Close
<1>7. CASE OpenCopy(p)
  BY <1>7 DEF OpenCopy, Goto
<1>8. CASE EndCopy(p)
  BY <1>8 DEF EndCopy, Goto
<1>9. CASE FinishWrite(p)
  BY <1>9 DEF FinishWrite, Goto
<1>10. CASE WriteCommit(p)
  BY <1>10 DEF WriteCommit, Close
<1>11. CASE DeleteLookup(p)
  BY <1>11 DEF DeleteLookup, Abort, Goto, Close
<1>12. CASE DeleteLock(p)
  BY <1>12 DEF DeleteLock, Goto
<1>13. CASE DeleteFileRow(p)
  BY <1>13 DEF DeleteFileRow, Goto
<1>14. CASE CountReferences(p)
  BY <1>14 DEF CountReferences, Goto
<1>15. CASE UnlinkBlob(p)
  BY <1>15 DEF UnlinkBlob, Goto
<1>16. CASE DeleteHashRow(p)
  BY <1>16 DEF DeleteHashRow, Abort, Goto, Close, RowDelAfter
<1>17. CASE DeleteCommit(p)
  BY <1>17 DEF DeleteCommit, Return, Close
<1>18. CASE SweepUnused(p)
  BY <1>18 DEF SweepUnused, Goto
<1>19. CASE NextUnused(p)
  BY <1>19 DEF NextUnused, Return, Goto, Close
<1>20. CASE DeleteUnusedRow(p)
  BY <1>20 DEF DeleteUnusedRow, Abort, Goto, Close
<1>21. CASE Fail(p)
  BY <1>21 DEF Fail, Close
<1>22. CASE Crash(p)
  BY <1>22 DEF Crash, Close
<1> QED
  BY <1>1, <1>2, <1>3, <1>4, <1>5, <1>6, <1>7, <1>8, <1>9, <1>10, <1>11, <1>12, <1>13,
       <1>14, <1>15, <1>16, <1>17, <1>18, <1>19, <1>20, <1>21, <1>22
  DEF Act, Step, WriteStep, DeleteStep, GcStep

-----------------------------------------------------------------------------
(* Types, and the agreement of a session's variables                       *)

\* A call in progress has an operation, a path and so on.
LEMMA InCall ==
  ASSUME SessionsTyped, NEW p \in Procs, CallOK(p), pc[p] # "idle"
  PROVE  req[p] \in Request
BY DEF SessionsTyped, CallOK

\* What becomes of a request: a source resolved, a move that goes on to delete.
LEMMA RequestKept ==
  ASSUME NEW r \in Request, NEW h \in Hashes \cup {NoHash}
  PROVE  /\ [r EXCEPT !.hash = h] \in Request
         /\ AfterWrite(r) \in Request \cup {NoReq}
         /\ r.op = "move" => AfterWrite(r) # NoReq /\ AfterWrite(r).op = "delete"
         /\ r.op # "move" => AfterWrite(r) = NoReq
<1>1. [r EXCEPT !.hash = h] \in Request
  BY DEF Request
<1>2. [r EXCEPT !.op = "delete", !.path = r.from] \in Request
  BY DEF Request
<1>3. [r EXCEPT !.op = "delete", !.path = r.from].op = "delete"
  BY DEF Request
<1> QED
  BY <1>1, <1>2, <1>3, ConstantsAssumption DEF AfterWrite

\* Ending a transaction keeps the types.
LEMMA CloseTyped ==
  ASSUME SessionsTyped, NEW p \in Procs, NEW r \in Request \cup {NoReq}, NEW l \in Pcs, Close(p, r, l)
  PROVE  SessionsTyped'
BY DEF Close, SessionsTyped

LEMMA AbortTyped ==
  ASSUME SessionsTyped, NEW p \in Procs, Close(p, NoReq, "idle")
  PROVE  SessionsTyped'
<1>1. "idle" \in Pcs
  BY DEF Pcs
<1> QED
  BY <1>1, CloseTyped

\* The tables keep their types: a put has a hash and takes a file_id, a remove
\* clears both.
LEMMA StoreStep ==
  ASSUME TypeOK, NEW p \in Procs, CallOK(p), Act(p)
  PROVE  StoreTyped'
<1> USE ConstantsAssumption DEF TypeOK, StoreTyped, store
<1>1. CASE WriteCommit(p)
  BY <1>1 DEF WriteCommit, IdsAtCommit, SessionsTyped, CallOK, AfterRecord, WritePcs
<1>2. CASE DeleteCommit(p)
  BY <1>2 DEF DeleteCommit, Return, SessionsTyped, CallOK, Request
<1>3. CASE SweepUnused(p)
  BY <1>3 DEF SweepUnused, Goto
<1>4. CASE DeleteUnusedRow(p)
  BY <1>4 DEF DeleteUnusedRow, Abort, Goto
<1>5. CASE Submit(p) \/ ReadSource(p) \/ WriteLock(p) \/ StageWrite(p) \/ RecordFile(p) \/ CheckBlob(p)
  BY <1>5
  DEF Submit, Start, ReadSource, Abort, WriteLock, StageWrite, RecordFile, CheckBlob
<1>6. CASE OpenCopy(p) \/ EndCopy(p) \/ FinishWrite(p) \/ DeleteLookup(p) \/ DeleteLock(p)
  BY <1>6 DEF OpenCopy, EndCopy, FinishWrite, DeleteLookup, Abort, DeleteLock
<1>7. CASE DeleteFileRow(p) \/ CountReferences(p) \/ UnlinkBlob(p) \/ DeleteHashRow(p)
  BY <1>7 DEF DeleteFileRow, CountReferences, UnlinkBlob, DeleteHashRow, Abort
<1>8. CASE NextUnused(p) \/ Fail(p) \/ Crash(p)
  BY <1>8 DEF NextUnused, Return, Fail, Crash
<1> QED
  BY <1>1, <1>2, <1>3, <1>4, <1>5, <1>6, <1>7, <1>8
  DEF Act, Step, WriteStep, DeleteStep, GcStep

\* The disk keeps its types.
LEMMA DiskStep ==
  ASSUME TypeOK, NEW p \in Procs, CallOK(p), Act(p)
  PROVE  DiskTyped'
<1> USE ConstantsAssumption DEF TypeOK, DiskTyped, disk, TmpAfterError
<1>1. CASE OpenCopy(p)
  BY <1>1 DEF OpenCopy, Goto, CallOK, WritePcs
<1>2. CASE EndCopy(p)
  BY <1>2 DEF EndCopy, Goto, CallOK, WritePcs
<1>3. CASE FinishWrite(p)
  BY <1>3 DEF FinishWrite, Goto, QuadsAfter, CallOK, WritePcs
<1>4. CASE UnlinkBlob(p)
  BY <1>4 DEF UnlinkBlob, Goto
<1>5. CASE Fail(p)
  BY <1>5 DEF Fail, CopyFails
<1>6. CASE Crash(p)
  BY <1>6 DEF Crash, CopyFails
<1>7. CASE Submit(p) \/ ReadSource(p) \/ WriteLock(p) \/ StageWrite(p) \/ RecordFile(p) \/ CheckBlob(p)
  BY <1>7
  DEF Submit, Start, ReadSource, Abort, WriteLock, StageWrite, RecordFile, CheckBlob
<1>8. CASE WriteCommit(p) \/ DeleteLookup(p) \/ DeleteLock(p)
  BY <1>8 DEF WriteCommit, DeleteLookup, Abort, DeleteLock
<1>9. CASE DeleteFileRow(p) \/ CountReferences(p) \/ DeleteHashRow(p) \/ DeleteCommit(p)
  BY <1>9 DEF DeleteFileRow, CountReferences, DeleteHashRow, Abort, DeleteCommit, Return
<1>10. CASE SweepUnused(p) \/ NextUnused(p) \/ DeleteUnusedRow(p)
  BY <1>10 DEF SweepUnused, NextUnused, Return, DeleteUnusedRow, Abort
<1> QED
  BY <1>1, <1>2, <1>3, <1>4, <1>5, <1>6, <1>7, <1>8, <1>9, <1>10
  DEF Act, Step, WriteStep, DeleteStep, GcStep

\* The end of a write: a move goes on with a delete, other calls are over.
LEMMA WriteCommitStep ==
  ASSUME TypeOK, NEW p \in Procs, CallOK(p), WriteCommit(p)
  PROVE  SessionsTyped' /\ CallOK(p)'
<1> USE DEF TypeOK
<1>1. req[p] \in Request
  BY InCall DEF WriteCommit
<1> DEFINE r == AfterWrite(req[p])
           l == IF req[p].op = "move" THEN "lookup" ELSE "idle"
<1>2. r \in Request \cup {NoReq} /\ l \in Pcs /\ Close(p, r, l)
  BY <1>1, RequestKept DEF WriteCommit, Pcs, StoreTyped, Request
<1>3. SessionsTyped'
  BY <1>2, CloseTyped
<1>4. pc'[p] = l /\ req'[p] = r /\ change'[p] = "none" /\ p \notin rowIns' /\ p \notin rowDel'
  BY <1>2 DEF Close, SessionsTyped
<1>5. IF req[p].op = "move" THEN r # NoReq /\ r.op = "delete" ELSE r = NoReq
  BY <1>1, RequestKept DEF StoreTyped, Request
<1>6. CallOK(p)'
  BY <1>4, <1>5 DEF CallOK, WritePcs, AfterRecord
<1> QED
  BY <1>3, <1>6

\* The sessions keep their types.
LEMMA SessionsStep ==
  ASSUME TypeOK, NEW p \in Procs, CallOK(p), Act(p)
  PROVE  SessionsTyped'
<1> USE ConstantsAssumption DEF TypeOK, SessionsTyped, tx, locals, Pcs, LockPcs,
        WritePcs, DeletePcs, GcPcs
<1>1. CASE Submit(p)
  BY <1>1, AbortTyped DEF Submit, Goto, Start, Request
<1>2. CASE ReadSource(p)
  <2>1. req[p] \in Request
    BY <1>2, InCall DEF ReadSource
  <2>2. content[req[p].from] \in Hashes \cup {NoHash}
    BY <2>1 DEF StoreTyped, Request
  <2>3. [req[p] EXCEPT !.hash = content[req[p].from]] \in Request
    BY <2>1, <2>2, RequestKept
  <2> QED
    BY <1>2, <2>1, <2>3, AbortTyped
    DEF ReadSource, Abort, Goto, SessionsTyped, Pcs, tx, locals
<1>3. CASE WriteLock(p)
  BY <1>3, AbortTyped DEF WriteLock, Abort, Goto
<1>4. CASE StageWrite(p)
  BY <1>4, AbortTyped DEF StageWrite, Abort, Goto
<1>5. CASE RecordFile(p)
  BY <1>5, AbortTyped DEF RecordFile, Abort, Goto
<1>6. CASE CheckBlob(p)
  BY <1>6, AbortTyped DEF CheckBlob, Abort, Goto
<1>7. CASE OpenCopy(p)
  BY <1>7, AbortTyped DEF OpenCopy, Goto
<1>8. CASE EndCopy(p)
  BY <1>8, AbortTyped DEF EndCopy, Goto
<1>9. CASE FinishWrite(p)
  BY <1>9, AbortTyped DEF FinishWrite, Goto
<1>10. CASE WriteCommit(p)
  BY <1>10, WriteCommitStep DEF TypeOK
<1>11. CASE DeleteLookup(p)
  <2>1. req[p] \in Request
    BY <1>11, InCall DEF DeleteLookup
  <2>2. content[req[p].path] \in Hashes \cup {NoHash} /\ fileId[req[p].path] \in FileIds \cup {NoId}
    BY <2>1 DEF StoreTyped, Request
  <2> QED
    BY <1>11, <2>2, AbortTyped
    DEF DeleteLookup, Abort, Goto, SessionsTyped, Pcs, LockPcs, tx
<1>12. CASE DeleteLock(p)
  BY <1>12, AbortTyped DEF DeleteLock, Goto
<1>13. CASE DeleteFileRow(p)
  BY <1>13, AbortTyped DEF DeleteFileRow, Goto
<1>14. CASE CountReferences(p)
  BY <1>14, AbortTyped DEF CountReferences, Goto
<1>15. CASE UnlinkBlob(p)
  BY <1>15, AbortTyped DEF UnlinkBlob, Goto
<1>16. CASE DeleteHashRow(p)
  BY <1>16, AbortTyped DEF DeleteHashRow, Abort, Goto, RowDelAfter
<1>17. CASE DeleteCommit(p)
  BY <1>17, AbortTyped DEF DeleteCommit, Return
<1>18. CASE SweepUnused(p)
  BY <1>18, AbortTyped DEF SweepUnused, Goto, StoreTyped, Unused
<1>19. CASE NextUnused(p)
  BY <1>19, AbortTyped DEF NextUnused, Return, Goto, TodoAfter
<1>20. CASE DeleteUnusedRow(p)
  BY <1>20, AbortTyped DEF DeleteUnusedRow, Abort, Goto
<1>21. CASE Fail(p)
  BY <1>21, AbortTyped DEF Fail
<1>22. CASE Crash(p)
  BY <1>22, AbortTyped DEF Crash
<1> QED
  BY <1>1, <1>2, <1>3, <1>4, <1>5, <1>6, <1>7, <1>8, <1>9, <1>10, <1>11, <1>12, <1>13,
       <1>14, <1>15, <1>16, <1>17, <1>18, <1>19, <1>20, <1>21, <1>22
  DEF Act, Step, WriteStep, DeleteStep, GcStep

\* The variables of the session that steps agree afterwards, ...
LEMMA OwnCallStep ==
  ASSUME TypeOK, NEW p \in Procs, CallOK(p), Act(p)
  PROVE  CallOK(p)'
<1> USE ConstantsAssumption DEF TypeOK, StoreTyped, SessionsTyped, CallOK, Request, tx,
        locals, WellFormed,
     Pcs, LockPcs, WritePcs, DeletePcs, GcPcs, AfterRecord
<1>1. CASE Submit(p)
  BY <1>1 DEF Submit, Goto, Start, Close
<1>2. CASE ReadSource(p)
  BY <1>2 DEF ReadSource, Abort, Goto, Close
<1>3. CASE WriteLock(p)
  BY <1>3 DEF WriteLock, Abort, Goto, Close
<1>4. CASE StageWrite(p)
  BY <1>4 DEF StageWrite, Abort, Goto, Close
<1>5. CASE RecordFile(p)
  BY <1>5 DEF RecordFile, Abort, Goto, Close
<1>6. CASE CheckBlob(p)
  BY <1>6 DEF CheckBlob, Abort, Goto, Close
<1>7. CASE OpenCopy(p)
  BY <1>7 DEF OpenCopy, Goto, Close
<1>8. CASE EndCopy(p)
  BY <1>8 DEF EndCopy, Goto, Close
<1>9. CASE FinishWrite(p)
  BY <1>9 DEF FinishWrite, Goto, Close
<1>10. CASE WriteCommit(p)
  BY <1>10, WriteCommitStep
<1>11. CASE DeleteLookup(p)
  BY <1>11 DEF DeleteLookup, Abort, Goto, Close
<1>12. CASE DeleteLock(p)
  BY <1>12 DEF DeleteLock, Goto, Close
<1>13. CASE DeleteFileRow(p)
  BY <1>13 DEF DeleteFileRow, Goto, Close
<1>14. CASE CountReferences(p)
  BY <1>14 DEF CountReferences, Goto, Close
<1>15. CASE UnlinkBlob(p)
  BY <1>15 DEF UnlinkBlob, Goto, Close
<1>16. CASE DeleteHashRow(p)
  BY <1>16 DEF DeleteHashRow, Abort, Goto, RowDelAfter, Close
<1>17. CASE DeleteCommit(p)
  BY <1>17 DEF DeleteCommit, Return, Close
<1>18. CASE SweepUnused(p)
  BY <1>18 DEF SweepUnused, Goto, Unused, Close
<1>19. CASE NextUnused(p)
  BY <1>19 DEF NextUnused, Return, Goto, TodoAfter, Close
<1>20. CASE DeleteUnusedRow(p)
  BY <1>20 DEF DeleteUnusedRow, Abort, Goto, Close
<1>21. CASE Fail(p)
  BY <1>21 DEF Fail, Close
<1>22. CASE Crash(p)
  BY <1>22, ZenonT(30) DEF Crash, Close
<1> QED
  BY <1>1, <1>2, <1>3, <1>4, <1>5, <1>6, <1>7, <1>8, <1>9, <1>10, <1>11, <1>12, <1>13,
       <1>14, <1>15, <1>16, <1>17, <1>18, <1>19, <1>20, <1>21, <1>22
  DEF Act, Step, WriteStep, DeleteStep, GcStep

\* ... and so do those of every session.
LEMMA CallStep ==
  ASSUME TypeOK, Calls, NEW p \in Procs, Act(p)
  PROVE  Calls'
<1>1. CallOK(p)
  BY DEF Calls
<1>2. CallOK(p)'
  BY <1>1, OwnCallStep
<1>3. \A q \in Procs \ {p} : CallOK(q)'
  BY Frame DEF Calls, Others, CallOK
<1> QED
  BY <1>2, <1>3 DEF Calls

-----------------------------------------------------------------------------
(* Rows: nobody takes a row away that a file refers to, or is about to.    *)

\* A step that commits nothing and claims no row keeps RowInv.
LEMMA RowInvKept ==
  ASSUME RowInv, NEW p \in Procs, Others(p), UNCHANGED <<content, row>>,
         change'[p] = "put" => change[p] = "put" /\ req'[p] = req[p] /\ (p \in rowIns => p \in rowIns'),
         p \in rowDel' => p \in rowDel /\ UNCHANGED <<victim[p], change[p], req[p]>>
  PROVE  RowInv'
BY DEF RowInv, RowForEveryFile, RowForEveryPut, NoPutOnDeletedRow, NoFileOnDeletedRow,
     Others

\* insert_file() and update_file(): a new put refers to a row that is there or
\* that its session inserts, and to none about to be deleted.
LEMMA RecordRowInv ==
  ASSUME TypeOK, Calls, RowInv, NEW p \in Procs, Others(p), RecordFile(p)
  PROVE  RowInv'
BY DEF RowInv, RowForEveryFile, RowForEveryPut, NoPutOnDeletedRow, NoFileOnDeletedRow,
     Others, RecordFile, RowSettled, Calls, CallOK, TypeOK, SessionsTyped, Abort,
     Close, Goto, store, disk, tx, locals

\* The commit of a write: the row of its file is committed with it.
LEMMA WriteCommitRowInv ==
  ASSUME TypeOK, Calls, RowInv, NEW p \in Procs, Others(p), WriteCommit(p)
  PROVE  RowInv'
<1> USE DEF RowInv, RowForEveryFile, RowForEveryPut, NoPutOnDeletedRow,
        NoFileOnDeletedRow, TypeOK, SessionsTyped, StoreTyped
<1>1. row \subseteq row' /\ (p \in rowIns => req[p].hash \in row')
  BY DEF WriteCommit
<1>2. change'[p] = "none" /\ p \notin rowDel'
  BY DEF WriteCommit, Close
<1>3. ASSUME NEW f \in Paths, content'[f] # content[f]
      PROVE  change[p] = "put" /\ content'[f] = req[p].hash
  BY <1>3 DEF WriteCommit
<1> QED
  BY <1>1, <1>2, <1>3 DEF Others

\* The delete of a hash row waits for those who refer to it.
LEMMA DeleteHashRowInv ==
  ASSUME TypeOK, Calls, RowInv, NEW p \in Procs, Others(p), DeleteHashRow(p)
  PROVE  RowInv'
<1> USE DEF RowInv, RowForEveryFile, RowForEveryPut, NoPutOnDeletedRow,
        NoFileOnDeletedRow, TypeOK, SessionsTyped, StoreTyped
<1>1. row' = row /\ content' = content /\ change[p] # "put" /\ p \notin rowDel
  BY DEF DeleteHashRow, Abort, store, Calls, CallOK, AfterRecord
<1>2. CASE Abort(p)
  <2>1. p \notin rowDel' /\ change'[p] = "none"
    BY <1>2 DEF Abort, Close
  <2> QED
    BY <1>1, <2>1 DEF Others
<1>3. CASE /\ FkAllowsDelete(p, victim[p]) /\ rowDel' = RowDelAfter(p)
           /\ UNCHANGED <<req, change, rowIns, locals>>
  <2>1. p \in rowDel' => \A q \in Procs \ {p} : ~KeyShare(q, victim[p])
    BY <1>1, <1>3 DEF RowDelAfter, DeleteHashRow, RowDeletable
  <2> QED
    BY <1>1, <1>3, <2>1 DEF Others, FkAllowsDelete, SeenFiles, Files, KeyShare, locals
<1> QED
  BY <1>2, <1>3 DEF DeleteHashRow

\* The commit of a delete takes away only a row nobody refers to.
LEMMA DeleteCommitRowInv ==
  ASSUME TypeOK, Calls, RowInv, NEW p \in Procs, Others(p), DeleteCommit(p)
  PROVE  RowInv'
<1> USE DEF RowInv, RowForEveryFile, RowForEveryPut, NoPutOnDeletedRow,
        NoFileOnDeletedRow, TypeOK, SessionsTyped, StoreTyped
<1>1. /\ change'[p] = "none" /\ p \notin rowDel'
      /\ row' = IF p \in rowDel THEN row \ {victim[p]} ELSE row
      /\ \A f \in Paths : content'[f] = IF change[p] = "remove" /\ f = req[p].path THEN NoHash ELSE content[f]
  BY DEF DeleteCommit, Return, Close
<1>2. NoHash \notin Hashes
  BY ConstantsAssumption
<1>3. \A f \in Paths : content'[f] # NoHash => content'[f] \in row'
  BY <1>1, <1>2
<1>4. \A q \in Procs \ {p} : change[q] = "put" /\ req[q].hash \in row => req[q].hash \in row'
  BY <1>1
<1>5. \A q \in Procs \ {p} : \A f \in Paths : content'[f] = victim[q] /\ victim[q] # NoHash => content[f] = victim[q]
  BY <1>1
<1>6. \A q \in rowDel : victim[q] # NoHash
  BY <1>2 DEF Calls, CallOK
<1> QED
  BY <1>1, <1>3, <1>4, <1>5, <1>6 DEF Others

\* The garbage collection takes away only rows nobody refers to.
LEMMA SweepRowInv ==
  ASSUME TypeOK, Calls, RowInv, NEW p \in Procs, Others(p), SweepUnused(p) \/ DeleteUnusedRow(p)
  PROVE  RowInv'
<1> USE DEF RowInv, RowForEveryFile, RowForEveryPut, NoPutOnDeletedRow,
        NoFileOnDeletedRow, TypeOK, SessionsTyped, StoreTyped
<1>1. /\ content' = content /\ p \notin rowDel' /\ change'[p] # "put" /\ row' \subseteq row
      /\ \A h \in row \ row' : Files(h) = {} /\ \A q \in Procs \ {p} : ~KeyShare(q, h)
  <2> USE DEF Goto, RowDeletable, Calls, CallOK, AfterRecord
  <2>1. CASE SweepUnused(p)
    BY <2>1 DEF SweepUnused, Unused, tx
  <2>2. CASE DeleteUnusedRow(p)
    BY <2>2 DEF DeleteUnusedRow, Abort, Close, FkAllowsDelete, SeenFiles, store, tx
  <2> QED
    BY <2>1, <2>2
<1> QED
  BY <1>1 DEF Others, Files, KeyShare

\* Every step keeps RowInv.
LEMMA RowStep ==
  ASSUME TypeOK, Calls, RowInv, NEW p \in Procs, Others(p), Act(p)
  PROVE  RowInv'
<1> USE DEF TypeOK, SessionsTyped, Calls, CallOK, AfterRecord, store, tx, locals
<1>1. CASE Submit(p)
  BY <1>1, RowInvKept DEF Submit, Goto, Start
<1>2. CASE ReadSource(p)
  BY <1>2, RowInvKept DEF ReadSource, Abort, Goto, Close
<1>3. CASE WriteLock(p)
  BY <1>3, RowInvKept DEF WriteLock, Abort, Goto, Close
<1>4. CASE StageWrite(p)
  BY <1>4, RowInvKept DEF StageWrite, Abort, Goto, Close
<1>5. CASE CheckBlob(p)
  BY <1>5, RowInvKept DEF CheckBlob, Abort, Goto, Close
<1>6. CASE OpenCopy(p)
  BY <1>6, RowInvKept DEF OpenCopy, Goto
<1>7. CASE EndCopy(p)
  BY <1>7, RowInvKept DEF EndCopy, Goto
<1>8. CASE FinishWrite(p)
  BY <1>8, RowInvKept DEF FinishWrite, Goto
<1>9. CASE DeleteLookup(p)
  BY <1>9, RowInvKept DEF DeleteLookup, Abort, Goto, Close
<1>10. CASE DeleteLock(p)
  BY <1>10, RowInvKept DEF DeleteLock, Goto
<1>11. CASE DeleteFileRow(p)
  BY <1>11, RowInvKept DEF DeleteFileRow, Goto
<1>12. CASE CountReferences(p)
  BY <1>12, RowInvKept DEF CountReferences, Goto
<1>13. CASE UnlinkBlob(p)
  BY <1>13, RowInvKept DEF UnlinkBlob, Goto
<1>14. CASE NextUnused(p)
  BY <1>14, RowInvKept DEF NextUnused, Return, Goto, Close
<1>15. CASE Fail(p)
  BY <1>15, RowInvKept DEF Fail, Close
<1>16. CASE Crash(p)
  BY <1>16, RowInvKept DEF Crash, Close
<1> QED
  BY <1>1, <1>2, <1>3, <1>4, <1>5, <1>6, <1>7, <1>8, <1>9, <1>10, <1>11, <1>12, <1>13,
       <1>14, <1>15, <1>16, RecordRowInv, WriteCommitRowInv, DeleteHashRowInv,
       DeleteCommitRowInv, SweepRowInv
  DEF Act, Step, WriteStep, DeleteStep, GcStep

-----------------------------------------------------------------------------
(* Locks: what a session found out under its lock stays true.              *)

\* A step changes the content of a path only under the lock of that path.
LEMMA ChangesUnderLock ==
  ASSUME TypeOK, Calls, NEW p \in Procs, Act(p), NEW f \in Paths, content'[f] # content[f]
  PROVE  HoldsLock(p, f)
<1> USE DEF TypeOK, StoreTyped, SessionsTyped, store
<1>1. CASE WriteCommit(p)
  BY <1>1 DEF WriteCommit, HoldsLock, LockPcs, WritePcs, CallOK, Calls
<1>2. CASE DeleteCommit(p)
  BY <1>2 DEF DeleteCommit, Return, HoldsLock, LockPcs, DeletePcs, CallOK, Calls
<1>3. CASE Submit(p) \/ ReadSource(p) \/ WriteLock(p) \/ StageWrite(p) \/ RecordFile(p) \/ CheckBlob(p)
  BY <1>3
  DEF Submit, Start, ReadSource, Abort, WriteLock, StageWrite, RecordFile, CheckBlob
<1>4. CASE OpenCopy(p) \/ EndCopy(p) \/ FinishWrite(p) \/ DeleteLookup(p) \/ DeleteLock(p)
  BY <1>4 DEF OpenCopy, EndCopy, FinishWrite, DeleteLookup, Abort, DeleteLock
<1>5. CASE DeleteFileRow(p) \/ CountReferences(p) \/ UnlinkBlob(p) \/ DeleteHashRow(p)
  BY <1>5 DEF DeleteFileRow, CountReferences, UnlinkBlob, DeleteHashRow, Abort
<1>6. CASE SweepUnused(p) \/ NextUnused(p) \/ DeleteUnusedRow(p) \/ Fail(p) \/ Crash(p)
  BY <1>6 DEF SweepUnused, NextUnused, Return, DeleteUnusedRow, Abort, Fail, Crash
<1> QED
  BY <1>1, <1>2, <1>3, <1>4, <1>5, <1>6
  DEF Act, Step, WriteStep, DeleteStep, GcStep

\* A lock a session holds after a step it held before, or it was free.
LEMMA LockKept ==
  ASSUME TypeOK, Calls, NEW p \in Procs, Act(p), NEW f \in Paths, HoldsLock(p, f)'
  PROVE  HoldsLock(p, f) \/ (req[p].path = f /\ LockFree(p))
<1> USE ConstantsAssumption DEF TypeOK, SessionsTyped, HoldsLock, LockPcs, WritePcs,
        DeletePcs, Calls, CallOK
<1>1. CASE Submit(p)
  BY <1>1 DEF Submit, Goto, Start, Start, Request
<1>2. CASE ReadSource(p)
  BY <1>2 DEF ReadSource, Abort, Goto, Close
<1>3. CASE WriteLock(p)
  BY <1>3 DEF WriteLock, Abort, Goto, Close
<1>4. CASE StageWrite(p)
  BY <1>4 DEF StageWrite, Abort, Goto, Close
<1>5. CASE RecordFile(p)
  BY <1>5 DEF RecordFile, Abort, Goto, Close
<1>6. CASE CheckBlob(p)
  BY <1>6 DEF CheckBlob, Abort, Goto, Close
<1>7. CASE OpenCopy(p)
  BY <1>7 DEF OpenCopy, Goto
<1>8. CASE EndCopy(p)
  BY <1>8 DEF EndCopy, Goto
<1>9. CASE FinishWrite(p)
  BY <1>9 DEF FinishWrite, Goto
<1>10. CASE WriteCommit(p)
  BY <1>10 DEF WriteCommit, Close
<1>11. CASE DeleteLookup(p)
  BY <1>11 DEF DeleteLookup, Abort, Goto, Close
<1>12. CASE DeleteLock(p)
  BY <1>12 DEF DeleteLock, Goto
<1>13. CASE DeleteFileRow(p)
  BY <1>13 DEF DeleteFileRow, Goto
<1>14. CASE CountReferences(p)
  BY <1>14 DEF CountReferences, Goto
<1>15. CASE UnlinkBlob(p)
  BY <1>15 DEF UnlinkBlob, Goto
<1>16. CASE DeleteHashRow(p)
  BY <1>16 DEF DeleteHashRow, Abort, Goto, Close
<1>17. CASE DeleteCommit(p)
  BY <1>17 DEF DeleteCommit, Return, Close
<1>18. CASE SweepUnused(p)
  BY <1>18 DEF SweepUnused, Goto
<1>19. CASE NextUnused(p)
  BY <1>19 DEF NextUnused, Return, Goto, Close
<1>20. CASE DeleteUnusedRow(p)
  BY <1>20 DEF DeleteUnusedRow, Abort, Goto, Close
<1>21. CASE Fail(p)
  BY <1>21 DEF Fail, Close
<1>22. CASE Crash(p)
  BY <1>22 DEF Crash, Close
<1> QED
  BY <1>1, <1>2, <1>3, <1>4, <1>5, <1>6, <1>7, <1>8, <1>9, <1>10, <1>11, <1>12, <1>13,
       <1>14, <1>15, <1>16, <1>17, <1>18, <1>19, <1>20, <1>21, <1>22
  DEF Act, Step, WriteStep, DeleteStep, GcStep

\* Every step keeps the exclusion, ...
LEMMA LockStep ==
  ASSUME TypeOK, Calls, LockExclusion, NEW p \in Procs, Others(p), Act(p)
  PROVE  LockExclusion'
<1> SUFFICES ASSUME NEW q \in Procs, NEW r \in Procs, NEW f \in Paths,
                    HoldsLock(q, f)', HoldsLock(r, f)', q # r
             PROVE  FALSE
  BY DEF LockExclusion
<1>1. \A s \in Procs \ {p} : HoldsLock(s, f)' => HoldsLock(s, f)
  BY DEF Others, HoldsLock
<1>2. HoldsLock(p, f)' => \A s \in Procs \ {p} : ~HoldsLock(s, f)
  BY LockKept DEF LockExclusion, LockFree
<1> QED
  BY <1>1, <1>2 DEF LockExclusion

\* ... and what writers found out about their paths.
LEMMA FoundStep ==
  ASSUME TypeOK, Calls, LockExclusion, FoundStaysTrue, NEW p \in Procs, Others(p), Act(p)
  PROVE  FoundStaysTrue'
<1>1. ASSUME NEW q \in Procs, q # p, pc'[q] \in WritePcs
      PROVE  content'[req'[q].path] = content[req[q].path] /\ UNCHANGED <<pc[q], req[q], change[q]>>
  <2>1. HoldsLock(q, req[q].path) /\ req[q] \in Request /\ UNCHANGED <<pc[q], req[q], change[q]>>
    BY <1>1, InCall
    DEF Others, HoldsLock, LockPcs, WritePcs, Calls, CallOK, TypeOK, SessionsTyped
  <2>2. req[q].path \in Paths
    BY <2>1 DEF Request
  <2> QED
    BY <1>1, <2>1, <2>2, ChangesUnderLock DEF LockExclusion
<1>2. \A q \in Procs \ {p} :
        /\ pc'[q] \in WritePcs => ~Duplicate(q)'
        /\ pc'[q] \in AfterRecord /\ change'[q] = "none" => content'[req'[q].path] = req'[q].hash
  BY <1>1 DEF FoundStaysTrue, Duplicate, WritePcs, AfterRecord
<1>3. /\ pc'[p] \in WritePcs => ~Duplicate(p)'
      /\ pc'[p] \in AfterRecord /\ change'[p] = "none" => content'[req'[p].path] = req'[p].hash
  <2> USE DEF TypeOK, SessionsTyped, Calls, CallOK, FoundStaysTrue, Duplicate,
          AfterRecord, WritePcs,
           store, tx, locals
  <2>1. CASE Submit(p)
    BY <2>1, ConstantsAssumption DEF Submit, Goto, Start, Start, Request
  <2>2. CASE ReadSource(p)
    BY <2>2, ConstantsAssumption DEF ReadSource, Abort, Goto, Close
  <2>3. CASE WriteLock(p)
    BY <2>3, ConstantsAssumption DEF WriteLock, Abort, Goto, Close
  <2>4. CASE StageWrite(p)
    BY <2>4, ConstantsAssumption DEF StageWrite, Abort, Goto, Close
  <2>5. CASE RecordFile(p)
    BY <2>5, ConstantsAssumption DEF RecordFile, Abort, Goto, Close
  <2>6. CASE CheckBlob(p)
    BY <2>6, ConstantsAssumption DEF CheckBlob, Abort, Goto, Close
  <2>7. CASE OpenCopy(p)
    BY <2>7, ConstantsAssumption DEF OpenCopy, Goto
  <2>8. CASE EndCopy(p)
    BY <2>8, ConstantsAssumption DEF EndCopy, Goto
  <2>9. CASE FinishWrite(p)
    BY <2>9, ConstantsAssumption DEF FinishWrite, Goto
  <2>10. CASE WriteCommit(p)
    BY <2>10, ConstantsAssumption DEF WriteCommit, Close, AfterWrite
  <2>11. CASE DeleteLookup(p)
    BY <2>11, ConstantsAssumption DEF DeleteLookup, Abort, Goto, Close
  <2>12. CASE DeleteLock(p)
    BY <2>12, ConstantsAssumption DEF DeleteLock, Goto
  <2>13. CASE DeleteFileRow(p)
    BY <2>13, ConstantsAssumption DEF DeleteFileRow, Goto
  <2>14. CASE CountReferences(p)
    BY <2>14, ConstantsAssumption DEF CountReferences, Goto
  <2>15. CASE UnlinkBlob(p)
    BY <2>15, ConstantsAssumption DEF UnlinkBlob, Goto
  <2>16. CASE DeleteHashRow(p)
    BY <2>16, ConstantsAssumption DEF DeleteHashRow, Abort, Goto, Close
  <2>17. CASE DeleteCommit(p)
    BY <2>17, ConstantsAssumption DEF DeleteCommit, Return, Close
  <2>18. CASE SweepUnused(p)
    BY <2>18, ConstantsAssumption DEF SweepUnused, Goto
  <2>19. CASE NextUnused(p)
    BY <2>19, ConstantsAssumption DEF NextUnused, Return, Goto, Close
  <2>20. CASE DeleteUnusedRow(p)
    BY <2>20, ConstantsAssumption DEF DeleteUnusedRow, Abort, Goto, Close
  <2>21. CASE Fail(p)
    BY <2>21, ConstantsAssumption DEF Fail, Close
  <2>22. CASE Crash(p)
    BY <2>22, ConstantsAssumption DEF Crash, Close
  <2> QED
    BY <2>1, <2>2, <2>3, <2>4, <2>5, <2>6, <2>7, <2>8, <2>9, <2>10, <2>11, <2>12,
         <2>13, <2>14, <2>15, <2>16, <2>17, <2>18, <2>19, <2>20, <2>21, <2>22
    DEF Act, Step, WriteStep, DeleteStep, GcStep
<1> QED
  BY <1>2, <1>3 DEF FoundStaysTrue

-----------------------------------------------------------------------------
(* The invariant                                                           *)

\* The invariant holds initially, ...
LEMMA InvInit ==
  ASSUME Init
  PROVE  IInv
<1>1. TypeOK
  BY ConstantsAssumption DEF Init, TypeOK, StoreTyped, DiskTyped, SessionsTyped, Pcs
<1>2. Calls
  BY ConstantsAssumption DEF Init, Calls, CallOK, WritePcs, AfterRecord
<1>3. RowInv
  BY DEF Init, RowInv, RowForEveryFile, RowForEveryPut, NoPutOnDeletedRow,
       NoFileOnDeletedRow
<1>4. LockExclusion /\ FoundStaysTrue
  BY DEF Init, LockExclusion, FoundStaysTrue, HoldsLock, LockPcs, WritePcs, DeletePcs,
       AfterRecord
<1> QED
  BY <1>1, <1>2, <1>3, <1>4 DEF IInv

\* ... is kept by every step, ...
LEMMA InvStep ==
  ASSUME IInv, [Next]_vars
  PROVE  IInv'
<1>1. CASE UNCHANGED vars
  <2>1. TypeOK'
    BY <1>1
    DEF IInv, vars, store, disk, tx, locals, TypeOK, StoreTyped, DiskTyped,
        SessionsTyped
  <2>2. Calls'
    BY <1>1 DEF IInv, vars, store, tx, locals, Calls, CallOK
  <2>3. RowInv'
    BY <1>1 DEF IInv, vars, store, tx, locals, RowInv, RowForEveryFile, RowForEveryPut,
                NoPutOnDeletedRow, NoFileOnDeletedRow
  <2>4. LockExclusion' /\ FoundStaysTrue'
    BY <1>1
    DEF IInv, vars, store, tx, locals, LockExclusion, HoldsLock, FoundStaysTrue,
        Duplicate
  <2> QED
    BY <2>1, <2>2, <2>3, <2>4 DEF IInv
<1>2. ASSUME NEW p \in Procs, Act(p)
      PROVE  IInv'
  <2>1. CallOK(p) /\ Others(p)
    BY <1>2, Frame DEF IInv, Calls
  <2>2. TypeOK'
    BY <1>2, <2>1, StoreStep, DiskStep, SessionsStep DEF IInv, TypeOK
  <2>3. Calls'
    BY <1>2, CallStep DEF IInv
  <2>4. RowInv'
    BY <1>2, <2>1, RowStep DEF IInv
  <2>5. LockExclusion' /\ FoundStaysTrue'
    BY <1>2, <2>1, LockStep, FoundStep DEF IInv
  <2> QED
    BY <2>2, <2>3, <2>4, <2>5 DEF IInv
<1> QED
  BY <1>1, <1>2 DEF Next, Act

\* ... and so always holds.
LEMMA Invariant == Spec => []IInv
BY InvInit, InvStep, PTL DEF Spec

\* The variables keep their types, and a path has a file_id exactly when it has
\* a file: inserts that each take a fresh id never leave one without the other.
THEOREM TypeCorrect == Spec => []TypeOK
<1>1. IInv => TypeOK
  BY DEF IInv
<1> QED
  BY <1>1, Invariant, PTL

\* Every committed file row has its hash row: writers, deleters, the garbage
\* collection, failures and crashes never leave a dangling hash_id.
THEOREM RowIntegrity == Spec => []RowForEveryFile
<1>1. IInv => RowForEveryFile
  BY DEF IInv, RowInv
<1> QED
  BY <1>1, Invariant, PTL

-----------------------------------------------------------------------------
(* Refinement                                                              *)

\* Every step of a session is a step of the atomic store, or changes nothing it
\* sees.
LEMMA AtomicStep ==
  ASSUME IInv, NEW p \in Procs, Act(p)
  PROVE  Atomic!Next \/ UNCHANGED <<content, req>>
<1> USE DEF IInv, TypeOK, SessionsTyped
<1>1. CallOK(p)
  BY DEF Calls
<1>2. ASSUME pc[p] # "idle", content' = content, req' = [req EXCEPT ![p] = NoReq]
      PROVE  Atomic!Next
  BY <1>1, <1>2 DEF CallOK, Atomic!Next, Atomic!Drop
<1>3. CASE Submit(p)
  BY <1>1, <1>3 DEF Submit, CallOK, store, Atomic!Next, Atomic!Submit
<1>4. CASE ReadSource(p)
  <2>1. CASE Abort(p)
    BY <1>2, <1>4, <2>1 DEF ReadSource, Abort, Close, store
  <2>2. CASE ~Abort(p)
    <3>1. Atomic!Resolve(p)
      BY <1>1, <1>4, <2>2, ConstantsAssumption
      DEF ReadSource, CallOK, store, Atomic!Resolve
    <3> QED
      BY <3>1 DEF Atomic!Next
  <2> QED
    BY <2>1, <2>2
<1>5. CASE WriteCommit(p)
  <2>1. /\ req[p] \in Request /\ req[p].op \in {"write", "copy", "move"} /\ req[p].hash \in Hashes
        /\ ~Duplicate(p) /\ (change[p] = "none" => content[req[p].path] = req[p].hash)
    BY <1>1, <1>5, InCall DEF WriteCommit, CallOK, WritePcs, AfterRecord, FoundStaysTrue
  <2>2. req[p].path \in Paths
    BY <2>1 DEF Request
  <2>3. content' = [content EXCEPT ![req[p].path] = req[p].hash]
    BY <1>5, <2>1, <2>2 DEF WriteCommit, StoreTyped
  <2>4. req' = [req EXCEPT ![p] = Atomic!Rest(req[p])]
    BY <1>5 DEF WriteCommit, Close, AfterWrite, Atomic!Rest
  <2>5. Atomic!Write(p)
    BY <1>5, <1>1, <2>1, <2>3, <2>4 DEF WriteCommit, CallOK, Duplicate, Atomic!Write
  <2> QED
    BY <2>5 DEF Atomic!Next
<1>6. CASE DeleteCommit(p)
  <2>1. pc[p] # "idle" /\ req' = [req EXCEPT ![p] = NoReq]
    BY <1>6 DEF DeleteCommit, Return, Close
  <2>2. CASE change[p] = "remove"
    <3>1. Atomic!Remove(p)
      BY <1>1, <1>6, <2>1, <2>2 DEF DeleteCommit, CallOK, Atomic!Remove
    <3> QED
      BY <3>1 DEF Atomic!Next
  <2>3. CASE change[p] # "remove"
    BY <1>2, <1>6, <2>1, <2>3 DEF DeleteCommit
  <2> QED
    BY <2>2, <2>3
<1>7. CASE Fail(p) \/ Crash(p)
  BY <1>2, <1>7 DEF Fail, Crash, Close, store
<1>8. CASE \/ WriteLock(p) \/ StageWrite(p) \/ RecordFile(p) \/ CheckBlob(p)
           \/ OpenCopy(p) \/ EndCopy(p) \/ FinishWrite(p)
  BY <1>2, <1>8
  DEF WriteLock, StageWrite, RecordFile, CheckBlob, OpenCopy, EndCopy, FinishWrite, Abort, Close, store
<1>9. CASE \/ DeleteLookup(p) \/ DeleteLock(p) \/ DeleteFileRow(p) \/ CountReferences(p)
           \/ UnlinkBlob(p) \/ DeleteHashRow(p) \/ GcStep(p)
  BY <1>2, <1>9
  DEF DeleteLookup, DeleteLock, DeleteFileRow, CountReferences, UnlinkBlob, DeleteHashRow,
      GcStep, SweepUnused, NextUnused, DeleteUnusedRow, Abort, Return, Close, store
<1> QED
  BY <1>3, <1>4, <1>5, <1>6, <1>7, <1>8, <1>9 DEF Act, Step, WriteStep, DeleteStep

\* The sessions of CaskStore implement the atomic name space: whatever they
\* interleave, every call acts on the paths at its commit or not at all.
THEOREM ImplementsAtomicStore == Spec => RefinesAtomicStore
<1>1. Init => Atomic!Init
  BY DEF Init, Atomic!Init
<1>2. IInv /\ [Next]_vars => [Atomic!Next]_(Atomic!vars)
  <2> SUFFICES ASSUME IInv, [Next]_vars
               PROVE  Atomic!Next \/ UNCHANGED <<content, req>>
    BY DEF Atomic!vars
  <2>1. CASE UNCHANGED vars
    BY <2>1 DEF vars, store
  <2>2. ASSUME NEW p \in Procs, Act(p)
        PROVE  Atomic!Next \/ UNCHANGED <<content, req>>
    BY <2>2, AtomicStep
  <2> QED
    BY <2>1, <2>2 DEF Next, Act
<1> QED
  BY <1>1, <1>2, Invariant, PTL DEF Spec, RefinesAtomicStore, Atomic!Spec

-----------------------------------------------------------------------------
(* Readability, where nothing removes hash files                           *)

\* No crash, no garbage collection, and every delete is soft.
SoftOnly ==
  /\ "crash" \notin Faults
  /\ \A r \in Requests : r.op # "gc" /\ (r.op \in {"delete", "move"} => r.soft)

\* No session gets to unlink a hash file or to delete a row.
SoftCalls ==
  /\ \A p \in Procs : req[p] # NoReq =>
       req[p].op # "gc" /\ (req[p].op \in {"delete", "move"} => req[p].soft)
  /\ \A p \in Procs : pc[p] \notin {"unlink", "purge"}
  /\ rowDel = {}

\* What has a row is stored, ...
RowsStored == \A h \in row : blob[h] = "full"

\* ... a new row has one inserter, ...
OneInserter == \A p, q \in rowIns : req[p].hash = req[q].hash => p = q

\* ... who alone copies the content, ...
CopyIsNew == \A p \in Procs : pc[p] \in {"copy", "copying"} => req[p].hash \notin row

\* ... and is done with that when it commits.
InsertStored == \A p \in rowIns : pc[p] \in {"finish", "commit"} => blob[req[p].hash] = "full"

\* A partial hash file is being completed by the session that opened it last.
CopyOwned == \A p \in Procs : pc[p] = "copying" => copier[req[p].hash] = p /\ blob[req[p].hash] = "partial"
PartialOwned ==
  \A h \in Hashes : blob[h] = "partial" => \E p \in Procs : pc[p] = "copying" /\ req[p].hash = h

SoftInv ==
  /\ SoftCalls /\ RowsStored /\ OneInserter /\ CopyIsNew
  /\ InsertStored /\ CopyOwned /\ PartialOwned

\* Once its file is recorded, a write has a row or is inserting one.
LEMMA Recorded ==
  ASSUME IInv, NEW p \in Procs, pc[p] \in AfterRecord
  PROVE  req[p].hash \in Hashes /\ (p \in rowIns \/ req[p].hash \in row)
<1>1. req[p] \in Request /\ req[p].hash \in Hashes
  BY InCall DEF IInv, TypeOK, Calls, CallOK, AfterRecord, WritePcs
<1>2. req[p].path \in Paths
  BY <1>1 DEF Request
<1>3. change[p] \in {"none", "put"}
  BY DEF IInv, TypeOK, SessionsTyped, Calls, CallOK, AfterRecord
<1>4. CASE change[p] = "put"
  BY <1>1, <1>4 DEF IInv, RowInv, RowForEveryPut
<1>5. CASE change[p] = "none"
  <2>1. content[req[p].path] = req[p].hash
    BY <1>5 DEF IInv, FoundStaysTrue
  <2> QED
    BY <1>1, <1>2, <2>1, ConstantsAssumption DEF IInv, RowInv, RowForEveryFile
<1> QED
  BY <1>3, <1>4, <1>5

\* Nobody else is past the record step with a content that is being copied.
LEMMA CopyExcludes ==
  ASSUME IInv, OneInserter, CopyIsNew, NEW p \in Procs, pc[p] \in {"copy", "copying"},
         NEW q \in Procs, pc[q] \in AfterRecord, req[q].hash = req[p].hash
  PROVE  p = q
<1>1. p \in rowIns /\ q \in rowIns
  BY Recorded DEF CopyIsNew, AfterRecord
<1> QED
  BY <1>1 DEF OneInserter

\* Only the session that copies a content changes its hash file.
LEMMA DiskChange ==
  ASSUME IInv, SoftOnly, SoftCalls, NEW p \in Procs, Act(p), NEW h \in Hashes,
         blob'[h] # blob[h] \/ copier'[h] # copier[h]
  PROVE  /\ pc[p] \in {"copy", "copying"} /\ req[p].hash = h
         /\ blob'[h] = "partial" => OpenCopy(p)
<1> USE DEF IInv, TypeOK, DiskTyped, SoftCalls, disk
<1>1. CASE OpenCopy(p)
  BY <1>1 DEF OpenCopy, Goto
<1>2. CASE EndCopy(p)
  BY <1>2 DEF EndCopy, Goto
<1>3. CASE UnlinkBlob(p)
  BY <1>3 DEF UnlinkBlob, Goto
<1>4. CASE Fail(p)
  BY <1>4 DEF Fail, CopyFails
<1>5. CASE Crash(p)
  BY <1>5 DEF Crash, SoftOnly
<1>6. CASE Submit(p) \/ ReadSource(p) \/ WriteLock(p) \/ StageWrite(p) \/ RecordFile(p) \/ CheckBlob(p)
  BY <1>6
  DEF Submit, Start, ReadSource, Abort, WriteLock, StageWrite, RecordFile, CheckBlob
<1>7. CASE FinishWrite(p) \/ WriteCommit(p) \/ DeleteLookup(p) \/ DeleteLock(p)
  BY <1>7 DEF FinishWrite, WriteCommit, DeleteLookup, Abort, DeleteLock
<1>8. CASE DeleteFileRow(p) \/ CountReferences(p) \/ DeleteHashRow(p) \/ DeleteCommit(p)
  BY <1>8 DEF DeleteFileRow, CountReferences, DeleteHashRow, Abort, DeleteCommit, Return
<1>9. CASE SweepUnused(p) \/ NextUnused(p) \/ DeleteUnusedRow(p)
  BY <1>9 DEF SweepUnused, NextUnused, Return, DeleteUnusedRow, Abort
<1> QED
  BY <1>1, <1>2, <1>3, <1>4, <1>5, <1>6, <1>7, <1>8, <1>9
  DEF Act, Step, WriteStep, DeleteStep, GcStep

\* Rows are only added, by the sessions that inserted them.
LEMMA RowChange ==
  ASSUME IInv, SoftOnly, SoftCalls, NEW p \in Procs, Act(p)
  PROVE  /\ row \subseteq row'
         /\ \A h \in row' \ row : pc[p] = "commit" /\ p \in rowIns /\ h = req[p].hash
<1> USE DEF IInv, SoftCalls, store
<1>1. CASE WriteCommit(p)
  BY <1>1 DEF WriteCommit
<1>2. CASE DeleteCommit(p)
  BY <1>2 DEF DeleteCommit, Return
<1>3. CASE SweepUnused(p)
  BY <1>3 DEF SweepUnused, Goto, Calls, CallOK
<1>4. CASE DeleteUnusedRow(p)
  BY <1>4 DEF DeleteUnusedRow, Abort, Goto, Calls, CallOK
<1>5. CASE Submit(p) \/ ReadSource(p) \/ WriteLock(p) \/ StageWrite(p) \/ RecordFile(p) \/ CheckBlob(p)
  BY <1>5
  DEF Submit, Start, ReadSource, Abort, WriteLock, StageWrite, RecordFile, CheckBlob
<1>6. CASE OpenCopy(p) \/ EndCopy(p) \/ FinishWrite(p) \/ DeleteLookup(p) \/ DeleteLock(p)
  BY <1>6 DEF OpenCopy, EndCopy, FinishWrite, DeleteLookup, Abort, DeleteLock
<1>7. CASE DeleteFileRow(p) \/ CountReferences(p) \/ UnlinkBlob(p) \/ DeleteHashRow(p)
  BY <1>7 DEF DeleteFileRow, CountReferences, UnlinkBlob, DeleteHashRow, Abort
<1>8. CASE NextUnused(p) \/ Fail(p) \/ Crash(p)
  BY <1>8 DEF NextUnused, Return, Fail, Crash
<1> QED
  BY <1>1, <1>2, <1>3, <1>4, <1>5, <1>6, <1>7, <1>8
  DEF Act, Step, WriteStep, DeleteStep, GcStep

\* No step leads to an unlink.
LEMMA SoftCallsStep ==
  ASSUME IInv, SoftOnly, SoftCalls, NEW p \in Procs, Act(p), Others(p)
  PROVE  SoftCalls'
<1>1. /\ req'[p] # NoReq => req'[p].op # "gc" /\ (req'[p].op \in {"delete", "move"} => req'[p].soft)
      /\ pc'[p] \notin {"unlink", "purge"} /\ p \notin rowDel'
  <2> USE ConstantsAssumption DEF IInv, TypeOK, SessionsTyped, Calls, CallOK,
          SoftCalls, SoftOnly
  <2>1. CASE Submit(p)
    BY <2>1 DEF Submit, Goto, Start, Request, tx, locals, Close
  <2>2. CASE ReadSource(p)
    <3>1. req[p] \in Request
      BY <2>2, InCall DEF ReadSource
    <3>2. CASE Abort(p)
      BY <2>2, <3>2 DEF ReadSource, Abort, Close
    <3>3. CASE ~Abort(p)
      <4>1. req'[p].op = req[p].op /\ req'[p].soft = req[p].soft
        BY <2>2, <3>1, <3>3 DEF ReadSource, Request
      <4> QED
        BY <2>2, <3>1, <3>3, <4>1 DEF ReadSource, Goto, tx
    <3> QED
      BY <3>2, <3>3
  <2>3. CASE WriteLock(p)
    BY <2>3 DEF WriteLock, Abort, Goto, tx, locals, Close
  <2>4. CASE StageWrite(p)
    BY <2>4 DEF StageWrite, Abort, Goto, tx, locals, Close
  <2>5. CASE RecordFile(p)
    BY <2>5 DEF RecordFile, Abort, Goto, tx, locals, Close
  <2>6. CASE CheckBlob(p)
    BY <2>6 DEF CheckBlob, Abort, Goto, tx, locals, Close
  <2>7. CASE OpenCopy(p)
    BY <2>7 DEF OpenCopy, Goto, tx, locals, Close
  <2>8. CASE EndCopy(p)
    BY <2>8 DEF EndCopy, Goto, tx, locals, Close
  <2>9. CASE FinishWrite(p)
    BY <2>9 DEF FinishWrite, Goto, tx, locals, Close
  <2>10. CASE WriteCommit(p)
    BY <2>10 DEF WriteCommit, AfterWrite, Close, Request, WritePcs, tx, locals
  <2>11. CASE DeleteLookup(p)
    BY <2>11 DEF DeleteLookup, Abort, Goto, tx, locals, Close
  <2>12. CASE DeleteLock(p)
    BY <2>12 DEF DeleteLock, Goto, tx, locals, Close
  <2>13. CASE DeleteFileRow(p)
    BY <2>13 DEF DeleteFileRow, Goto, tx, locals, Close
  <2>14. CASE CountReferences(p)
    BY <2>14 DEF CountReferences, Goto, Unreferenced, tx, locals, Close
  <2>15. CASE UnlinkBlob(p)
    BY <2>15 DEF UnlinkBlob, Goto, tx, locals, Close
  <2>16. CASE DeleteHashRow(p)
    BY <2>16 DEF DeleteHashRow, Abort, Goto, tx, locals, Close
  <2>17. CASE DeleteCommit(p)
    BY <2>17 DEF DeleteCommit, Return, tx, locals, Close
  <2>18. CASE SweepUnused(p)
    BY <2>18 DEF SweepUnused, Goto, tx, locals, Close
  <2>19. CASE NextUnused(p)
    BY <2>19 DEF NextUnused, Return, Goto, Close, tx, locals
  <2>20. CASE DeleteUnusedRow(p)
    BY <2>20 DEF DeleteUnusedRow, Abort, Goto, tx, locals, Close
  <2>21. CASE Fail(p)
    BY <2>21 DEF Fail, tx, locals, Close
  <2>22. CASE Crash(p)
    BY <2>22 DEF Crash, tx, locals, Close
  <2> QED
    BY <2>1, <2>2, <2>3, <2>4, <2>5, <2>6, <2>7, <2>8, <2>9, <2>10, <2>11, <2>12,
         <2>13, <2>14, <2>15, <2>16, <2>17, <2>18, <2>19, <2>20, <2>21, <2>22
    DEF Act, Step, WriteStep, DeleteStep, GcStep

<1> QED
  BY <1>1, SessionsStep DEF SoftCalls, Others, IInv, Calls, SessionsTyped

\* How a session gets to and leaves the steps of a copy.
LEMMA LocalSteps ==
  ASSUME IInv, SoftCalls, NEW p \in Procs, Act(p)
  PROVE  /\ pc'[p] \in AfterRecord => UNCHANGED req[p] /\ pc[p] \in AfterRecord \cup {"record"}
         /\ p \in rowIns' => p \in rowIns \/ (RowSettled(p, req[p].hash) /\ UNCHANGED req[p])
         /\ p \in rowIns' /\ p \in rowIns => UNCHANGED req[p]
         /\ pc'[p] = "copy" => CheckBlob(p) /\ blob[req[p].hash] = "none"
         /\ pc'[p] = "copying" => OpenCopy(p)
         /\ pc'[p] = "finish" => (CheckBlob(p) /\ blob[req[p].hash] # "none") \/ EndCopy(p)
         /\ pc'[p] = "commit" => FinishWrite(p)
         /\ pc[p] = "copying" => EndCopy(p) \/ Fail(p) \/ Crash(p)
<1> USE ConstantsAssumption DEF IInv, TypeOK, SessionsTyped, Calls, CallOK,
        AfterRecord, WritePcs
<1>1. CASE Submit(p)
  BY <1>1 DEF Submit, Goto, Start, Request, Close, tx, locals
<1>2. CASE ReadSource(p)
  BY <1>2 DEF ReadSource, Abort, Goto, Close, tx, locals
<1>3. CASE WriteLock(p)
  BY <1>3 DEF WriteLock, Abort, Goto, Close, tx, locals
<1>4. CASE StageWrite(p)
  BY <1>4 DEF StageWrite, Abort, Goto, Close, tx, locals
<1>5. CASE RecordFile(p)
  BY <1>5 DEF RecordFile, Abort, Goto, Close, tx, locals
<1>6. CASE CheckBlob(p)
  BY <1>6 DEF CheckBlob, Abort, Goto, HashFileThere, Close, tx, locals
<1>7. CASE OpenCopy(p)
  BY <1>7 DEF OpenCopy, Goto, Close, tx, locals
<1>8. CASE EndCopy(p)
  BY <1>8 DEF EndCopy, Goto, Close, tx, locals
<1>9. CASE FinishWrite(p)
  BY <1>9 DEF FinishWrite, Goto, Close, tx, locals
<1>10. CASE WriteCommit(p)
  BY <1>10 DEF WriteCommit, AfterWrite, Close, tx, locals
<1>11. CASE DeleteLookup(p)
  BY <1>11 DEF DeleteLookup, Abort, Goto, Close, tx, locals
<1>12. CASE DeleteLock(p)
  BY <1>12 DEF DeleteLock, Goto, Close, tx, locals
<1>13. CASE DeleteFileRow(p)
  BY <1>13 DEF DeleteFileRow, Goto, Close, tx, locals
<1>14. CASE CountReferences(p)
  BY <1>14 DEF CountReferences, Goto, Close, tx, locals
<1>15. CASE UnlinkBlob(p)
  BY <1>15 DEF UnlinkBlob, Goto, Close, tx, locals
<1>16. CASE DeleteHashRow(p)
  BY <1>16 DEF DeleteHashRow, Abort, Goto, Close, tx, locals
<1>17. CASE DeleteCommit(p)
  BY <1>17 DEF DeleteCommit, Return, Close, tx, locals
<1>18. CASE SweepUnused(p)
  BY <1>18 DEF SweepUnused, Goto, Close, tx, locals
<1>19. CASE NextUnused(p)
  BY <1>19 DEF NextUnused, Return, Goto, Close, tx, locals
<1>20. CASE DeleteUnusedRow(p)
  BY <1>20 DEF DeleteUnusedRow, Abort, Goto, Close, tx, locals
<1>21. CASE Fail(p)
  BY <1>21 DEF Fail, Close, tx, locals
<1>22. CASE Crash(p)
  BY <1>22 DEF Crash, Close, tx, locals
<1> QED
  BY <1>1, <1>2, <1>3, <1>4, <1>5, <1>6, <1>7, <1>8, <1>9, <1>10, <1>11, <1>12, <1>13,
       <1>14, <1>15, <1>16, <1>17, <1>18, <1>19, <1>20, <1>21, <1>22
  DEF Act, Step, WriteStep, DeleteStep, GcStep

\* Every step keeps SoftInv.
LEMMA SoftStep ==
  ASSUME IInv, SoftOnly, SoftInv, NEW p \in Procs, Act(p), Others(p)
  PROVE  SoftInv'
<1> USE DEF SoftInv
<1>1. \A q \in Procs : pc[q] \in AfterRecord => req[q].hash \in Hashes
  BY Recorded
<1>a. \A q \in rowIns : pc[q] \in AfterRecord
  BY DEF IInv, TypeOK, SessionsTyped, Calls, CallOK
<1>b. row \subseteq Hashes /\ row' \subseteq Hashes
  BY <1>1, <1>a, RowChange DEF IInv, TypeOK, StoreTyped
<1>c. rowIns \subseteq Procs /\ rowIns' \subseteq Procs
  BY SessionsStep DEF IInv, TypeOK, SessionsTyped, Calls
<1>2. SoftCalls'
  BY SoftCallsStep
<1>3. RowsStored'
  <2> SUFFICES ASSUME NEW h \in row' PROVE blob'[h] = "full"
    BY DEF RowsStored
  <2>1. CASE h \in row
    BY <2>1, <1>b, DiskChange DEF RowsStored, CopyIsNew
  <2>2. CASE h \notin row
    BY <2>2, <1>b, RowChange, DiskChange DEF InsertStored
  <2> QED
    BY <2>1, <2>2
<1>4. OneInserter'
  BY <1>c, LocalSteps DEF OneInserter, Others, RowSettled
<1>5. CopyIsNew'
  <2> SUFFICES ASSUME NEW q \in Procs, pc'[q] \in {"copy", "copying"} PROVE req'[q].hash \notin row'
    BY DEF CopyIsNew
  <2>1. CASE q # p
    BY <2>1, <1>a, <1>c, RowChange, CopyExcludes DEF Others, AfterRecord, CopyIsNew
  <2>2. CASE q = p
    BY <2>2, RowChange, LocalSteps
    DEF CheckBlob, OpenCopy, CopyIsNew, RowsStored, AfterRecord
  <2> QED
    BY <2>1, <2>2
<1>6. InsertStored'
  <2> SUFFICES ASSUME NEW q \in rowIns', pc'[q] \in {"finish", "commit"} PROVE blob'[req'[q].hash] = "full"
    BY DEF InsertStored
  <2>1. CASE q # p
    BY <2>1, <1>1, <1>c, DiskChange, CopyExcludes DEF Others, AfterRecord, InsertStored
  <2>2. CASE q = p /\ CheckBlob(p) /\ blob[req[p].hash] # "none"
    <3>1. UNCHANGED <<blob, req>> /\ p \in rowIns /\ req[p].hash \in Hashes /\ pc[p] = "check"
      BY <2>2, <1>1, <1>a DEF CheckBlob, AfterRecord, disk, tx, Abort, Close
    <3>2. blob[req[p].hash] # "partial"
      BY <3>1, CopyExcludes DEF PartialOwned, AfterRecord
    <3> QED
      BY <2>2, <3>1, <3>2 DEF IInv, TypeOK, DiskTyped
  <2>3. CASE q = p /\ EndCopy(p)
    BY <2>3, <1>1 DEF EndCopy, CopyOwned, AfterRecord, IInv, TypeOK, DiskTyped
  <2>4. CASE q = p /\ FinishWrite(p)
    BY <2>4 DEF FinishWrite, InsertStored, tx
  <2> QED
    BY <2>1, <2>2, <2>3, <2>4, LocalSteps
<1>7. CopyOwned'
  <2> SUFFICES ASSUME NEW q \in Procs, pc'[q] = "copying"
               PROVE  copier'[req'[q].hash] = q /\ blob'[req'[q].hash] = "partial"
    BY DEF CopyOwned
  <2>1. CASE q # p
    BY <2>1, <1>1, DiskChange, CopyExcludes DEF Others, AfterRecord, CopyOwned
  <2>2. CASE q = p
    BY <2>2, <1>1, LocalSteps DEF OpenCopy, AfterRecord, IInv, TypeOK, DiskTyped
  <2> QED
    BY <2>1, <2>2
<1>8. PartialOwned'
  <2> SUFFICES ASSUME NEW h \in Hashes, blob'[h] = "partial"
               PROVE  \E q \in Procs : pc'[q] = "copying" /\ req'[q].hash = h
    BY DEF PartialOwned
  <2>1. CASE OpenCopy(p) /\ req[p].hash = h
    BY <2>1 DEF OpenCopy, Goto, IInv, TypeOK, SessionsTyped
  <2>2. CASE ~(OpenCopy(p) /\ req[p].hash = h)
    <3>1. PICK q \in Procs : pc[q] = "copying" /\ req[q].hash = h /\ copier[h] = q
      BY <2>2, DiskChange DEF PartialOwned, CopyOwned
    <3>2. CASE q # p
      BY <3>1, <3>2 DEF Others
    <3>3. CASE q = p
      BY <3>1, <3>3, LocalSteps
      DEF EndCopy, Fail, Crash, CopyFails, SoftOnly, IInv, TypeOK, DiskTyped
    <3> QED
      BY <3>2, <3>3
  <2> QED
    BY <2>1, <2>2
<1> QED
  BY <1>2, <1>3, <1>4, <1>5, <1>6, <1>7, <1>8
\* So it always holds.
LEMMA SoftInvariant ==
  ASSUME SoftOnly
  PROVE  Spec => []SoftInv
<1>1. Init => SoftInv
  BY ConstantsAssumption
  DEF Init, SoftInv, SoftCalls, RowsStored, OneInserter, CopyIsNew, InsertStored,
         CopyOwned, PartialOwned
<1>2. SoftInv /\ IInv /\ [Next]_vars => SoftInv'
  <2> SUFFICES ASSUME SoftInv, IInv, [Next]_vars
               PROVE  SoftInv'
    OBVIOUS
  <2>1. CASE UNCHANGED vars
    BY <2>1
    DEF vars, store, disk, tx, SoftInv, SoftCalls, RowsStored, OneInserter, CopyIsNew,
                InsertStored, CopyOwned, PartialOwned
  <2>2. ASSUME NEW p \in Procs, Act(p)
        PROVE  SoftInv'
    BY <2>2, Frame, SoftStep DEF IInv
  <2> QED
    BY <2>1, <2>2 DEF Next, Act
<1> QED
  BY <1>1, <1>2, Invariant, PTL DEF Spec

\* As long as deletes are soft and no garbage collection runs, every committed
\* file can be read, though writers share hash files without a common lock and
\* any of their steps may fail.
THEOREM SoftContentReadable ==
  ASSUME SoftOnly
  PROVE  Spec => []ContentReadable
<1>1. IInv /\ SoftInv => ContentReadable
  BY DEF IInv, RowInv, RowForEveryFile, SoftInv, RowsStored, ContentReadable
<1> QED
  BY <1>1, Invariant, SoftInvariant, PTL

-----------------------------------------------------------------------------
(* Linked data files and their .nq companions                              *)

\* A linked data path is written only where there is no file, and not copied
\* or moved onto: rdf.insert() is skipped for a file that is replaced.
RdfCreatedOnly ==
  \A r \in Requests : r.path \in RdfPaths => r.op = "delete" \/ (r.op = "write" /\ ~r.replace)

\* A call keeps to that to its end, also a move that goes on as a delete, ...
RdfCalls ==
  \A p \in Procs : req[p] # NoReq /\ req[p].path \in RdfPaths =>
    req[p].op = "delete" \/ (req[p].op = "write" /\ ~req[p].replace)

\* ... and a write that is about to commit has written the companion.
QuadsWritten ==
  \A p \in Procs : pc[p] = "commit" /\ change[p] = "put" /\ req[p].path \in RdfPaths =>
    req[p].hash \in quads

RdfInv == RdfCalls /\ QuadsWritten /\ RdfHasQuads

\* Without hard deletes the companions are only added, by FinishWrite.
LEMMA QuadsGrow ==
  ASSUME IInv, SoftCalls, NEW p \in Procs, Act(p)
  PROVE  quads \subseteq quads'
<1> USE DEF SoftCalls, disk
<1>1. CASE FinishWrite(p)
  BY <1>1 DEF FinishWrite, QuadsAfter
<1>2. CASE UnlinkBlob(p)
  BY <1>2 DEF UnlinkBlob
<1>3. CASE Submit(p) \/ ReadSource(p) \/ WriteLock(p) \/ StageWrite(p) \/ RecordFile(p) \/ CheckBlob(p)
  BY <1>3
  DEF Submit, Start, ReadSource, Abort, WriteLock, StageWrite, RecordFile, CheckBlob
<1>4. CASE OpenCopy(p) \/ EndCopy(p) \/ WriteCommit(p) \/ DeleteLookup(p) \/ DeleteLock(p)
  BY <1>4 DEF OpenCopy, EndCopy, WriteCommit, DeleteLookup, Abort, DeleteLock
<1>5. CASE DeleteFileRow(p) \/ CountReferences(p) \/ DeleteHashRow(p) \/ DeleteCommit(p)
  BY <1>5 DEF DeleteFileRow, CountReferences, DeleteHashRow, Abort, DeleteCommit, Return
<1>6. CASE SweepUnused(p) \/ NextUnused(p) \/ DeleteUnusedRow(p) \/ Fail(p) \/ Crash(p)
  BY <1>6 DEF SweepUnused, NextUnused, Return, DeleteUnusedRow, Abort, Fail, Crash
<1> QED
  BY <1>1, <1>2, <1>3, <1>4, <1>5, <1>6
  DEF Act, Step, WriteStep, DeleteStep, GcStep

\* A path gets content only from a write that commits a put of its own.
LEMMA ContentChange ==
  ASSUME IInv, NEW p \in Procs, Act(p), NEW f \in Paths, content'[f] # content[f]
  PROVE  \/ content'[f] = NoHash
         \/ /\ pc[p] = "commit" /\ change[p] = "put"
            /\ f = req[p].path /\ content'[f] = req[p].hash
<1> USE DEF IInv, TypeOK, StoreTyped, store
<1>1. CASE WriteCommit(p)
  BY <1>1 DEF WriteCommit
<1>2. CASE DeleteCommit(p)
  BY <1>2 DEF DeleteCommit
<1>3. CASE Submit(p) \/ ReadSource(p) \/ WriteLock(p) \/ StageWrite(p) \/ RecordFile(p) \/ CheckBlob(p)
  BY <1>3
  DEF Submit, Start, ReadSource, Abort, WriteLock, StageWrite, RecordFile, CheckBlob
<1>4. CASE OpenCopy(p) \/ EndCopy(p) \/ FinishWrite(p) \/ DeleteLookup(p) \/ DeleteLock(p)
  BY <1>4 DEF OpenCopy, EndCopy, FinishWrite, DeleteLookup, Abort, DeleteLock
<1>5. CASE DeleteFileRow(p) \/ CountReferences(p) \/ UnlinkBlob(p) \/ DeleteHashRow(p)
  BY <1>5 DEF DeleteFileRow, CountReferences, UnlinkBlob, DeleteHashRow, Abort
<1>6. CASE SweepUnused(p) \/ NextUnused(p) \/ DeleteUnusedRow(p) \/ Fail(p) \/ Crash(p)
  BY <1>6 DEF SweepUnused, NextUnused, DeleteUnusedRow, Abort, Fail, Crash
<1> QED
  BY <1>1, <1>2, <1>3, <1>4, <1>5, <1>6
  DEF Act, Step, WriteStep, DeleteStep, GcStep

\* What becomes of the call of the session that steps.
LEMMA ReqChange ==
  ASSUME IInv, NEW p \in Procs, Act(p), req'[p] # req[p], req'[p] # NoReq
  PROVE  \/ req'[p] \in Requests
         \/ /\ req[p] # NoReq /\ req[p].op \in {"copy", "move"}
            /\ req'[p].path = req[p].path
         \/ req'[p].op = "delete"
<1> USE ConstantsAssumption DEF IInv, TypeOK, SessionsTyped, Calls, CallOK
<1>1. CASE Submit(p)
  BY <1>1 DEF Submit
<1>2. CASE ReadSource(p)
  <2>1. req[p] \in Request
    BY <1>2, InCall DEF ReadSource
  <2> QED
    BY <1>2, <2>1 DEF ReadSource, Abort, Close, Request
<1>3. CASE WriteCommit(p)
  BY <1>3, InCall, RequestKept DEF WriteCommit, Close
<1>4. CASE WriteLock(p) \/ StageWrite(p) \/ RecordFile(p) \/ CheckBlob(p)
  BY <1>4 DEF WriteLock, StageWrite, RecordFile, CheckBlob, Abort, Close
<1>5. CASE OpenCopy(p) \/ EndCopy(p) \/ FinishWrite(p) \/ DeleteLookup(p) \/ DeleteLock(p)
  BY <1>5 DEF OpenCopy, EndCopy, FinishWrite, DeleteLookup, Abort, DeleteLock, Close
<1>6. CASE DeleteFileRow(p) \/ CountReferences(p) \/ UnlinkBlob(p) \/ DeleteHashRow(p) \/ DeleteCommit(p)
  BY <1>6
  DEF DeleteFileRow, CountReferences, UnlinkBlob, DeleteHashRow, Abort, DeleteCommit, Return, Close
<1>7. CASE SweepUnused(p) \/ NextUnused(p) \/ DeleteUnusedRow(p) \/ Fail(p) \/ Crash(p)
  BY <1>7 DEF SweepUnused, NextUnused, Return, DeleteUnusedRow, Abort, Fail, Crash, Close
<1> QED
  BY <1>1, <1>2, <1>3, <1>4, <1>5, <1>6, <1>7
  DEF Act, Step, WriteStep, DeleteStep, GcStep

\* The last step of a write at a linked data path parses it: the advisory lock
\* keeps the path without a file since the duplicate check.
LEMMA ParsedAtFinish ==
  ASSUME IInv, RdfCalls, NEW p \in Procs, FinishWrite(p), req[p].path \in RdfPaths, change[p] = "put"
  PROVE  req[p].hash \in quads'
<1>1. req[p].op = "write" /\ ~req[p].replace
  BY DEF FinishWrite, IInv, Calls, CallOK, WritePcs, RdfCalls
<1>2. content[req[p].path] = NoHash
  BY <1>1 DEF FinishWrite, IInv, FoundStaysTrue, WritePcs, Duplicate
<1> QED
  BY <1>1, <1>2 DEF FinishWrite, QuadsAfter, ParsesRdf

\* Every step keeps RdfInv.
LEMMA RdfStep ==
  ASSUME IInv, SoftInv, RdfCreatedOnly, RdfInv, NEW p \in Procs, Act(p), Others(p)
  PROVE  RdfInv'
<1> USE DEF RdfInv
<1>1. quads \subseteq quads'
  BY QuadsGrow DEF SoftInv
<1>2. RdfCalls'
  <2> SUFFICES ASSUME NEW q \in Procs, req'[q] # NoReq, req'[q].path \in RdfPaths
               PROVE  req'[q].op = "delete" \/ (req'[q].op = "write" /\ ~req'[q].replace)
    BY DEF RdfCalls
  <2>1. CASE req'[q] = req[q]
    BY <2>1 DEF RdfCalls
  <2>2. CASE req'[q] # req[q]
    BY <2>2, ReqChange DEF Others, RdfCalls, RdfCreatedOnly
  <2> QED
    BY <2>1, <2>2
<1>3. QuadsWritten'
  <2> SUFFICES ASSUME NEW q \in Procs, pc'[q] = "commit", change'[q] = "put", req'[q].path \in RdfPaths
               PROVE  req'[q].hash \in quads'
    BY DEF QuadsWritten
  <2>1. CASE q # p
    BY <2>1, <1>1 DEF Others, QuadsWritten
  <2>2. CASE q = p
    <3>1. FinishWrite(p)
      BY <2>2, LocalSteps DEF SoftInv
    <3> QED
      BY <2>2, <3>1, ParsedAtFinish DEF FinishWrite, tx
  <2> QED
    BY <2>1, <2>2
<1>4. RdfHasQuads'
  <2> SUFFICES ASSUME NEW f \in RdfPaths, content'[f] # NoHash
               PROVE  content'[f] \in quads'
    BY DEF RdfHasQuads
  <2>1. CASE content'[f] = content[f]
    BY <2>1, <1>1 DEF RdfHasQuads
  <2>2. CASE content'[f] # content[f]
    BY <2>2, <1>1, ContentChange, ConstantsAssumption DEF QuadsWritten
  <2> QED
    BY <2>1, <2>2
<1> QED
  BY <1>2, <1>3, <1>4

\* As long as deletes are soft and linked data is created and deleted but not
\* replaced or copied onto, every committed linked data file has the .nq
\* companion of its content, whichever path brought the content in first
\* (finalizeWrite()).
THEOREM LinkedDataHasQuads ==
  ASSUME SoftOnly, RdfCreatedOnly
  PROVE  Spec => []RdfHasQuads
<1>1. Init => RdfInv
  BY ConstantsAssumption DEF Init, RdfInv, RdfCalls, QuadsWritten, RdfHasQuads
<1>2. RdfInv /\ IInv /\ SoftInv /\ [Next]_vars => RdfInv'
  <2> SUFFICES ASSUME RdfInv, IInv, SoftInv, [Next]_vars
               PROVE  RdfInv'
    OBVIOUS
  <2>1. CASE UNCHANGED vars
    BY <2>1 DEF vars, store, disk, tx, RdfInv, RdfCalls, QuadsWritten, RdfHasQuads
  <2>2. ASSUME NEW p \in Procs, Act(p)
        PROVE  RdfInv'
    BY <2>2, Frame, RdfStep DEF IInv
  <2> QED
    BY <2>1, <2>2 DEF Next, Act
<1>3. RdfInv => RdfHasQuads
  BY DEF RdfInv
<1> QED
  BY <1>1, <1>2, <1>3, Invariant, SoftInvariant, PTL DEF Spec

-----------------------------------------------------------------------------
(* One session whose calls nobody disturbs: the tables and the disk, which *)
(* no transaction covers together, agree between calls.                    *)

\* One session, and nothing fails.
OneSession == Faults = {} /\ \E p : Procs = {p}

\* No call leaves a content behind: writes do not replace, deletes are hard.
Reclaiming ==
  \A r \in Requests : ~r.replace /\ (r.op \in {"delete", "move"} => ~r.soft)

\* The hashes whose row and hash file the session is just changing.
InFlux(p) ==
  todo[p]
  \cup {h \in Hashes : p \in rowIns /\ pc[p] \in {"copying", "finish", "commit"} /\ h = req[p].hash}
  \cup {h \in Hashes : (pc[p] \in {"unlink", "purge"} \/ p \in rowDel) /\ h = victim[p]}

\* All others have a row exactly when they are stored, ...
Settled(p) == \A h \in Hashes \ InFlux(p) : blob[h] = IF h \in row THEN "full" ELSE "none"

\* ... a new row has its content when it is committed, ...
Inserting(p) ==
  /\ p \in rowIns => req[p].hash \notin row
  /\ pc[p] \in {"copy", "copying"} => p \in rowIns
  /\ pc[p] = "copying" => copier[req[p].hash] = p
  /\ p \in rowIns /\ pc[p] \in {"finish", "commit"} => blob[req[p].hash] = "full"

\* ... and a hash file that is unlinked loses its row, as nobody refers to it.
Unlinking(p) ==
  /\ pc[p] \in {"unlink", "purge"} \/ p \in rowDel => SeenFiles(p, victim[p]) = {}
  /\ pc[p] = "purge" \/ p \in rowDel => blob[victim[p]] = "none"
  /\ \A h \in todo[p] : h \notin row /\ Files(h) = {}
  /\ todo[p] # {} => pc[p] \in {"next", "unlink", "purge"} /\ req[p].op = "gc"

InStep(p) == Settled(p) /\ Inserting(p) /\ Unlinking(p)

\* The delete of the last file with a content also deletes the row.
Reclaims(p) ==
  /\ req[p] # NoReq => ~req[p].replace /\ (req[p].op \in {"delete", "move"} => ~req[p].soft)
  /\ pc[p] \in {"dlock"} \cup DeletePcs /\ req[p].op = "delete" => content[req[p].path] = victim[p]
  /\ pc[p] = "dcommit" => p \in rowDel \/ SeenFiles(p, victim[p]) # {}
  /\ Unused = {}

-----------------------------------------------------------------------------
(* The tables and the disk.                                                *)

\* A session that comes to have nothing uncommitted and nothing to unlink.
LEMMA AtRest ==
  ASSUME NEW p, p \notin rowIns', p \notin rowDel', todo'[p] = {},
         pc'[p] \notin {"copy", "copying", "unlink", "purge"},
         \A h \in Hashes : blob'[h] = IF h \in row' THEN "full" ELSE "none"
  PROVE  InStep(p)'
BY DEF InStep, Settled, InFlux, Inserting, Unlinking

\* Where a session is in between, no hash is in flux.
LEMMA NoFlux ==
  ASSUME IInv, NEW p \in Procs, InStep(p),
         pc[p] \notin {"copying", "finish", "commit", "unlink", "purge", "dcommit", "next"}
  PROVE  /\ p \notin rowDel /\ todo[p] = {}
         /\ \A h \in Hashes : blob[h] = IF h \in row THEN "full" ELSE "none"
BY DEF IInv, Calls, CallOK, InStep, Settled, InFlux, Unlinking

\* An error path is taken only where nothing is in flux.
LEMMA AbortInStep ==
  ASSUME IInv, NEW p \in Procs, InStep(p), Abort(p),
         pc[p] \notin {"copying", "finish", "commit", "unlink", "purge", "dcommit", "next"}
  PROVE  InStep(p)'
<1>1. \A h \in Hashes : blob[h] = IF h \in row THEN "full" ELSE "none"
  BY NoFlux
<1>2. /\ p \notin rowIns' /\ p \notin rowDel' /\ todo'[p] = {} /\ pc'[p] = "idle"
      /\ blob' = blob /\ row' = row
  BY DEF Abort, Close, store, IInv, TypeOK, SessionsTyped
<1>3. \A h \in Hashes : blob'[h] = IF h \in row' THEN "full" ELSE "none"
  BY <1>1, <1>2
<1> QED
  BY <1>2, <1>3, AtRest

\* Before the row of a write is inserted, and in a delete before the unlink,
\* the session only looks.
LEMMA LookingInStep ==
  ASSUME IInv, NEW p \in Procs, InStep(p), UNCHANGED <<blob, row, content, todo, rowDel>>, p \notin rowIns',
         pc[p] \notin {"copying", "finish", "commit", "unlink", "purge", "dcommit", "next"},
         pc'[p] \notin {"copy", "copying", "unlink", "purge"}
  PROVE  InStep(p)'
<1>1. /\ p \notin rowDel' /\ todo'[p] = {}
      /\ \A h \in Hashes : blob'[h] = IF h \in row' THEN "full" ELSE "none"
  BY NoFlux
<1> QED
  BY <1>1, AtRest

LEMMA StepInStep ==
  ASSUME IInv, OneSession, NEW p \in Procs, InStep(p), Act(p)
  PROVE  InStep(p)'
<1> USE DEF IInv, TypeOK, SessionsTyped, StoreTyped, DiskTyped
<1>a. Procs = {p}
  BY DEF OneSession
<1>b. p \in rowIns => pc[p] \in AfterRecord /\ change[p] = "put"
  BY DEF Calls, CallOK
<1>c. p \in rowDel => pc[p] = "dcommit"
  BY DEF Calls, CallOK
<1>d. pc[p] \in AfterRecord => req[p].hash \in Hashes /\ (p \in rowIns \/ req[p].hash \in row)
  BY Recorded
<1>e. pc[p] \in {"unlink", "purge", "dcommit", "count"} => victim[p] \in Hashes
  BY DEF Calls, CallOK
<1>1. CASE Submit(p)
  <2>1. pc[p] = "idle" /\ pc'[p] \in {"wlock", "source", "lookup", "sweep"}
    BY <1>1, ConstantsAssumption DEF Submit, Goto, Start, Request
  <2> QED
    BY <1>1, <2>1, <1>b, LookingInStep DEF Submit, AfterRecord, store, disk, tx, locals
<1>2. CASE ReadSource(p)
  <2>1. CASE Abort(p)
    BY <1>2, <2>1, AbortInStep DEF ReadSource
  <2>2. CASE ~Abort(p)
    BY <1>2, <2>2, <1>b, LookingInStep DEF ReadSource, Goto, AfterRecord, store, disk, tx, locals
  <2> QED
    BY <2>1, <2>2
<1>3. CASE WriteLock(p)
  <2>1. CASE Abort(p)
    BY <1>3, <2>1, AbortInStep DEF WriteLock
  <2>2. CASE ~Abort(p)
    BY <1>3, <2>2, <1>b, LookingInStep DEF WriteLock, Goto, AfterRecord, store, disk, tx, locals
  <2> QED
    BY <2>1, <2>2
<1>4. CASE StageWrite(p)
  <2>1. CASE Abort(p)
    BY <1>4, <2>1, AbortInStep DEF StageWrite
  <2>2. CASE ~Abort(p)
    BY <1>4, <2>2, <1>b, LookingInStep DEF StageWrite, Goto, AfterRecord, store, disk, tx
  <2> QED
    BY <2>1, <2>2
<1>5. CASE RecordFile(p)
  <2>1. CASE Abort(p)
    BY <1>5, <2>1, AbortInStep DEF RecordFile
  <2>2. CASE ~Abort(p)
    <3>1. /\ pc[p] = "record" /\ pc'[p] = "check" /\ UNCHANGED <<store, disk, req, rowDel, locals>>
          /\ p \in rowIns' => req[p].hash \notin row
      BY <1>5, <2>2, <1>b DEF RecordFile, Goto, tx, AfterRecord
    <3>2. /\ p \notin rowDel /\ todo[p] = {}
          /\ \A h \in Hashes : blob[h] = IF h \in row THEN "full" ELSE "none"
      BY <3>1, NoFlux
    <3> QED
      BY <3>1, <3>2 DEF InStep, Settled, InFlux, Inserting, Unlinking, store, disk, locals
  <2> QED
    BY <2>1, <2>2
<1>6. CASE CheckBlob(p)
  <2>1. CASE Abort(p)
    BY <1>6, <2>1, AbortInStep DEF CheckBlob
  <2>2. CASE ~Abort(p)
    <3>1. pc[p] = "check" /\ UNCHANGED <<store, disk, req, tx, locals>>
      BY <1>6, <2>2 DEF CheckBlob
    <3>2. /\ p \notin rowDel /\ todo[p] = {}
          /\ \A h \in Hashes : blob[h] = IF h \in row THEN "full" ELSE "none"
      BY <3>1, NoFlux
    <3>3. pc'[p] = IF p \in rowIns THEN "copy" ELSE "finish"
      BY <1>6, <2>2, <3>1, <3>2, <1>d DEF CheckBlob, HashFileThere, Goto, InStep, Inserting, AfterRecord
    <3> QED
      BY <3>1, <3>2, <3>3 DEF InStep, Settled, InFlux, Inserting, Unlinking, store, disk, tx, locals
  <2> QED
    BY <2>1, <2>2
<1>7. CASE OpenCopy(p)
  <2>1. /\ p \notin rowDel /\ todo[p] = {}
        /\ \A h \in Hashes : blob[h] = IF h \in row THEN "full" ELSE "none"
    BY <1>7, NoFlux DEF OpenCopy
  <2> QED
    BY <1>7, <2>1, <1>d
    DEF OpenCopy, Goto, InStep, Settled, InFlux, Inserting, Unlinking, store, tx, locals, AfterRecord
<1>8. CASE EndCopy(p)
  BY <1>8, <1>c, <1>d
  DEF EndCopy, Goto, InStep, Settled, InFlux, Inserting, Unlinking, store, tx, locals, AfterRecord
<1>9. CASE FinishWrite(p)
  BY <1>9, <1>c
  DEF FinishWrite, Goto, InStep, Settled, InFlux, Inserting, Unlinking, store, tx
<1>10. CASE WriteCommit(p)
  <2>1. /\ p \notin rowIns' /\ p \notin rowDel' /\ todo'[p] = {} /\ pc'[p] \in {"idle", "lookup"}
        /\ blob' = blob /\ row' = IF p \in rowIns THEN row \cup {req[p].hash} ELSE row
    BY <1>10 DEF WriteCommit, Close, disk
  <2>2. \A h \in Hashes : blob'[h] = IF h \in row' THEN "full" ELSE "none"
    BY <1>10, <2>1, <1>c DEF WriteCommit, InStep, Settled, InFlux, Inserting, Unlinking
  <2> QED
    BY <2>1, <2>2, AtRest
<1>11. CASE DeleteLookup(p)
  <2>1. CASE Abort(p)
    BY <1>11, <2>1, AbortInStep DEF DeleteLookup
  <2>2. CASE ~Abort(p)
    BY <1>11, <2>2, <1>b, LookingInStep DEF DeleteLookup, Goto, AfterRecord, store, disk, tx
  <2> QED
    BY <2>1, <2>2
<1>12. CASE DeleteLock(p)
  BY <1>12, <1>b, LookingInStep DEF DeleteLock, Goto, AfterRecord, store, disk, tx, locals
<1>13. CASE DeleteFileRow(p)
  BY <1>13, <1>b, LookingInStep DEF DeleteFileRow, Goto, AfterRecord, store, disk, locals
<1>14. CASE CountReferences(p)
  <2>1. /\ p \notin rowDel /\ todo[p] = {}
        /\ \A h \in Hashes : blob[h] = IF h \in row THEN "full" ELSE "none"
    BY <1>14, NoFlux DEF CountReferences
  <2> QED
    BY <1>14, <2>1, <1>b
    DEF CountReferences, Unreferenced, Goto, InStep, Settled, InFlux, Inserting, Unlinking,
        SeenFiles, Files, AfterRecord, store, disk, tx, locals
<1>15. CASE UnlinkBlob(p)
  BY <1>15, <1>b, <1>c, <1>e
  DEF UnlinkBlob, Goto, InStep, Settled, InFlux, Inserting, Unlinking, SeenFiles, Files,
      AfterRecord, store, tx, locals
<1>16. CASE DeleteHashRow(p)
  <2>1. FkAllowsDelete(p, victim[p]) /\ pc[p] = "purge" /\ ~(p \in rowIns) /\ todo[p] = {}
    BY <1>16, <1>b DEF DeleteHashRow, FkAllowsDelete, InStep, Unlinking, AfterRecord
  <2>2. /\ rowDel' = RowDelAfter(p) /\ pc'[p] = "dcommit"
        /\ UNCHANGED <<store, disk, req, change, rowIns, locals>>
    BY <1>16, <2>1 DEF DeleteHashRow, Goto
  <2> QED
    BY <2>1, <2>2, <1>c, <1>e
    DEF RowDelAfter, InStep, Settled, InFlux, Inserting, Unlinking, SeenFiles, Files,
        store, disk, locals
<1>17. CASE DeleteCommit(p)
  <2>1. /\ p \notin rowIns' /\ p \notin rowDel' /\ todo'[p] = {} /\ pc'[p] = "idle"
        /\ blob' = blob /\ row' = IF p \in rowDel THEN row \ {victim[p]} ELSE row
    BY <1>17 DEF DeleteCommit, Return, Close, disk
  <2>2. \A h \in Hashes : blob'[h] = IF h \in row' THEN "full" ELSE "none"
    BY <1>17, <2>1, <1>b DEF DeleteCommit, InStep, Settled, InFlux, Unlinking, AfterRecord
  <2> QED
    BY <2>1, <2>2, AtRest
<1>18. CASE SweepUnused(p)
  <2>1. /\ p \notin rowDel /\ todo[p] = {}
        /\ \A h \in Hashes : blob[h] = IF h \in row THEN "full" ELSE "none"
    BY <1>18, NoFlux DEF SweepUnused
  <2>2. req[p].op = "gc"
    BY <1>18 DEF SweepUnused, Calls, CallOK
  <2> QED
    BY <1>18, <2>1, <2>2, <1>b
    DEF SweepUnused, Unused, Goto, InStep, Settled, InFlux, Inserting, Unlinking, Files,
        AfterRecord, disk, tx
<1>19. CASE NextUnused(p)
  <2>1. p \notin rowIns /\ p \notin rowDel /\ req[p].op = "gc" /\ change[p] = "none"
    BY <1>19, <1>b, <1>c DEF NextUnused, Calls, CallOK, AfterRecord
  <2>2. CASE todo[p] = {} /\ Return(p) /\ UNCHANGED store
    <3>1. /\ p \notin rowIns' /\ p \notin rowDel' /\ todo'[p] = {} /\ pc'[p] = "idle"
          /\ blob' = blob /\ row' = row
      BY <2>2 DEF Return, Close, disk, store
    <3>2. \A h \in Hashes : blob'[h] = IF h \in row' THEN "full" ELSE "none"
      BY <1>19, <2>1, <2>2, <3>1 DEF NextUnused, InStep, Settled, InFlux
    <3> QED
      BY <3>1, <3>2, AtRest
  <2>3. ASSUME NEW h \in todo[p], todo' = [todo EXCEPT ![p] = TodoAfter(p, h)],
               IF Files(h) = {} THEN victim' = [victim EXCEPT ![p] = h] /\ Goto(p, "unlink")
                                ELSE UNCHANGED <<victim, pc>>,
               UNCHANGED <<store, disk, req, tx, tmp, fid>>
        PROVE  InStep(p)'
    <3>1. Files(h) = {} /\ victim'[p] = h /\ pc'[p] = "unlink" /\ todo'[p] = todo[p] \ {h}
      BY <2>3 DEF InStep, Unlinking, Goto, TodoAfter
    <3>2. change'[p] = "none" /\ content' = content /\ row' = row /\ blob' = blob /\ req' = req
          /\ rowIns' = rowIns /\ rowDel' = rowDel
      BY <2>1, <2>3 DEF store, disk, tx
    <3>3. Settled(p)'
      BY <1>19, <2>1, <3>1, <3>2 DEF NextUnused, InStep, Settled, InFlux
    <3>4. Inserting(p)'
      BY <2>1, <3>1, <3>2 DEF Inserting
    <3>5. Unlinking(p)'
      BY <2>1, <3>1, <3>2 DEF InStep, Unlinking, SeenFiles, Files
    <3> QED
      BY <3>3, <3>4, <3>5 DEF InStep
  <2> QED
    BY <1>19, <2>2, <2>3 DEF NextUnused
<1>20. CASE DeleteUnusedRow(p)
  <2>1. /\ FkAllowsDelete(p, victim[p]) /\ pc[p] = "purge" /\ req[p].op = "gc"
        /\ p \notin rowIns /\ p \notin rowDel /\ change[p] # "remove"
    BY <1>20, <1>b, <1>c DEF DeleteUnusedRow, FkAllowsDelete, InStep, Unlinking, AfterRecord, Calls, CallOK
  <2>2. /\ row' = row \ {victim[p]} /\ pc'[p] = "next"
        /\ UNCHANGED <<content, fileId, disk, req, tx, tmp, fid, todo>>
    BY <1>20, <2>1 DEF DeleteUnusedRow, Goto
  <2> QED
    BY <2>1, <2>2, <1>e
    DEF InStep, Settled, InFlux, Inserting, Unlinking, Files, disk, tx
<1>21. CASE Fail(p) \/ Crash(p)
  BY <1>21 DEF Fail, Crash, OneSession
<1> QED
  BY <1>1, <1>2, <1>3, <1>4, <1>5, <1>6, <1>7, <1>8, <1>9, <1>10, <1>11, <1>12, <1>13,
     <1>14, <1>15, <1>16, <1>17, <1>18, <1>19, <1>20, <1>21
  DEF Act, Step, WriteStep, DeleteStep, GcStep

\* So the tables and the disk always agree but for what is in flux.
LEMMA InStepInvariant ==
  ASSUME OneSession
  PROVE  Spec => [](\A p \in Procs : InStep(p))
<1> DEFINE I == \A p \in Procs : InStep(p)
<1>1. Init => I
  BY DEF Init, InStep, Settled, InFlux, Inserting, Unlinking
<1>2. IInv /\ I /\ [Next]_vars => I'
  <2> SUFFICES ASSUME IInv, I, [Next]_vars, NEW q \in Procs PROVE InStep(q)'
    OBVIOUS
  <2>1. CASE UNCHANGED vars
    BY <2>1
    DEF vars, store, disk, tx, locals, InStep, Settled, InFlux, Inserting, Unlinking,
        SeenFiles, Files
  <2>2. ASSUME NEW p \in Procs, Act(p) PROVE InStep(q)'
    <3>1. p = q
      BY DEF OneSession
    <3> QED
      BY <2>2, <3>1, StepInStep
  <2> QED
    BY <2>1, <2>2 DEF Next, Act
<1> QED
  BY <1>1, <1>2, Invariant, PTL DEF Spec

\* Left alone, a session makes every file readable again by the end of a call,
\* whatever it writes, replaces, copies, moves, deletes or collects.
THEOREM AloneReadable ==
  ASSUME OneSession
  PROVE  Spec => []ReadableWhenQuiet
<1> DEFINE I == \A p \in Procs : InStep(p)
<1>1. IInv /\ I => ReadableWhenQuiet
  <2> SUFFICES ASSUME IInv, I, Quiet, NEW f \in Paths, content[f] # NoHash
               PROVE  blob[content[f]] = "full"
    BY DEF ReadableWhenQuiet, ContentReadable
  <2>1. content[f] \in row /\ content[f] \in Hashes
    BY DEF IInv, RowInv, RowForEveryFile, TypeOK, StoreTyped
  <2>2. PICK p \in Procs : pc[p] = "idle"
    BY DEF OneSession, Quiet
  <2> QED
    BY <2>1, <2>2, NoFlux
<1> QED
  BY <1>1, Invariant, InStepInvariant, PTL

-----------------------------------------------------------------------------
(* Contents that nobody refers to.                                         *)

\* What a step makes of the call of its session.
LEMMA ReclaimingCall ==
  ASSUME IInv, Reclaiming, NEW p \in Procs, Reclaims(p), Act(p)
  PROVE  req'[p] # NoReq =>
           ~req'[p].replace /\ (req'[p].op \in {"delete", "move"} => ~req'[p].soft)
<1> USE ConstantsAssumption DEF IInv, TypeOK, SessionsTyped, Calls, CallOK, Reclaims
<1>1. CASE Submit(p)
  BY <1>1 DEF Submit, Reclaiming
<1>2. CASE ReadSource(p)
  <2>1. req[p] \in Request
    BY <1>2, InCall DEF ReadSource
  <2>2. CASE Abort(p)
    BY <2>2 DEF Abort, Close
  <2>3. CASE ~Abort(p)
    <3>1. /\ req'[p].op = req[p].op /\ req'[p].soft = req[p].soft
          /\ req'[p].replace = req[p].replace
      BY <1>2, <2>1, <2>3 DEF ReadSource, Request
    <3> QED
      BY <1>2, <2>1, <2>3, <3>1 DEF ReadSource
  <2> QED
    BY <2>2, <2>3
<1>3. CASE WriteCommit(p)
  <2>1. req[p] \in Request
    BY <1>3, InCall DEF WriteCommit
  <2>2. req'[p] = AfterWrite(req[p])
    BY <1>3 DEF WriteCommit, Close
  <2> QED
    BY <1>3, <2>1, <2>2 DEF AfterWrite, Request, WriteCommit, WritePcs
<1>4. CASE WriteLock(p) \/ StageWrite(p) \/ RecordFile(p) \/ CheckBlob(p)
  BY <1>4 DEF WriteLock, StageWrite, RecordFile, CheckBlob, Abort, Close
<1>5. CASE OpenCopy(p) \/ EndCopy(p) \/ FinishWrite(p)
  BY <1>5 DEF OpenCopy, EndCopy, FinishWrite
<1>6. CASE DeleteLookup(p) \/ DeleteLock(p) \/ DeleteFileRow(p) \/ CountReferences(p)
  BY <1>6 DEF DeleteLookup, DeleteLock, DeleteFileRow, CountReferences, Abort, Close
<1>7. CASE UnlinkBlob(p) \/ DeleteHashRow(p) \/ DeleteCommit(p)
  BY <1>7 DEF UnlinkBlob, DeleteHashRow, DeleteCommit, Abort, Return, Close
<1>8. CASE SweepUnused(p) \/ NextUnused(p)
  BY <1>8 DEF SweepUnused, NextUnused, Return, Close
<1>9. CASE DeleteUnusedRow(p)
  BY <1>9 DEF DeleteUnusedRow, Abort, Close
<1>10. CASE Fail(p) \/ Crash(p)
  <2>1. req' = [req EXCEPT ![p] = NoReq] /\ p \in DOMAIN req
    BY <1>10 DEF Fail, Crash, Close
  <2> QED
    BY <2>1, Zenon
<1> QED
  BY <1>1, <1>2, <1>3, <1>4, <1>5, <1>6, <1>7, <1>8, <1>9, <1>10
  DEF Act, Step, WriteStep, DeleteStep, GcStep

\* A step that leaves the tables alone, and a delete with the file it found.
LEMMA TablesAlone ==
  ASSUME NEW p, Reclaims(p), UNCHANGED <<content, row>>,
         req'[p] # NoReq =>
           ~req'[p].replace /\ (req'[p].op \in {"delete", "move"} => ~req'[p].soft),
         pc'[p] \in {"dlock"} \cup DeletePcs /\ req'[p].op = "delete" =>
           content'[req'[p].path] = victim'[p],
         pc'[p] = "dcommit" => p \in rowDel' \/ SeenFiles(p, victim[p])' # {}
  PROVE  Reclaims(p)'
BY DEF Reclaims, Unused, Files

LEMMA StepReclaims ==
  ASSUME IInv, OneSession, Reclaiming, NEW p \in Procs, InStep(p), Reclaims(p), Act(p)
  PROVE  Reclaims(p)'
<1> USE DEF IInv, TypeOK, SessionsTyped, StoreTyped
<1>a. req'[p] # NoReq =>
        ~req'[p].replace /\ (req'[p].op \in {"delete", "move"} => ~req'[p].soft)
  BY ReclaimingCall
<1>b. pc[p] # "idle" => req[p] \in Request /\ req[p].path \in Paths /\ req[p] # NoReq
  BY InCall DEF Calls, CallOK, Request
<1>1. CASE Submit(p) \/ ReadSource(p) \/ WriteLock(p) \/ StageWrite(p)
  <2>1. UNCHANGED <<content, row>> /\ pc'[p] \notin {"dlock"} \cup DeletePcs
    BY <1>1, ConstantsAssumption
    DEF Submit, ReadSource, WriteLock, StageWrite, Start, Request, Goto, Abort, Close,
        store, DeletePcs
  <2> QED
    BY <1>a, <2>1, TablesAlone DEF DeletePcs
<1>2. CASE RecordFile(p) \/ CheckBlob(p) \/ OpenCopy(p) \/ EndCopy(p) \/ FinishWrite(p)
  <2>1. UNCHANGED <<content, row>> /\ pc'[p] \notin {"dlock"} \cup DeletePcs
    BY <1>2
    DEF RecordFile, CheckBlob, OpenCopy, EndCopy, FinishWrite, Goto, Abort, Close,
        store, DeletePcs
  <2> QED
    BY <1>a, <2>1, TablesAlone DEF DeletePcs
<1>3. CASE WriteCommit(p)
  <2>1. pc[p] = "commit" /\ pc'[p] \in {"idle", "lookup"} /\ row \subseteq Hashes
    BY <1>3 DEF WriteCommit, Close
  <2>2. content[req[p].path] = NoHash
    BY <1>b, <2>1 DEF Reclaims, FoundStaysTrue, Duplicate, WritePcs
  <2>3. change[p] = "put" /\ content' = [content EXCEPT ![req[p].path] = req[p].hash]
    BY <1>3, <2>1, <2>2, ConstantsAssumption
    DEF WriteCommit, FoundStaysTrue, AfterRecord, Calls, CallOK, WritePcs
  <2>4. Unused' = {}
    BY <1>3, <1>b, <2>1, <2>2, <2>3, ConstantsAssumption
    DEF WriteCommit, Reclaims, Unused, Files
  <2> QED
    BY <1>a, <2>1, <2>4 DEF Reclaims, DeletePcs
<1>4. CASE DeleteLookup(p)
  <2>1. UNCHANGED <<content, row>>
    BY <1>4 DEF DeleteLookup, Abort, store
  <2>2. \/ pc'[p] = "idle"
        \/ pc'[p] = "dlock" /\ req' = req /\ content'[req'[p].path] = victim'[p]
    BY <1>4, <2>1 DEF DeleteLookup, Abort, Close, Goto
  <2> QED
    BY <1>a, <2>1, <2>2, TablesAlone DEF DeletePcs
<1>5. CASE DeleteLock(p) \/ DeleteFileRow(p)
  <2>1. /\ UNCHANGED <<content, row, req, victim>> /\ pc[p] \in {"dlock", "remove"}
        /\ pc'[p] \in {"remove", "count"}
    BY <1>5 DEF DeleteLock, DeleteFileRow, Goto, store, locals
  <2> QED
    BY <1>a, <2>1, TablesAlone DEF Reclaims, DeletePcs
<1>6. CASE CountReferences(p)
  <2>1. /\ UNCHANGED <<content, row, req, victim, change, rowDel>> /\ pc[p] = "count"
        /\ pc'[p] = IF Unreferenced(p) THEN "unlink" ELSE "dcommit"
    BY <1>6 DEF CountReferences, Goto, store, tx, locals
  <2>2. req[p].op = "delete" /\ ~req[p].soft
    BY <1>b, <2>1 DEF Calls, CallOK, Reclaims
  <2>3. pc'[p] = "dcommit" => SeenFiles(p, victim[p])' # {}
    BY <2>1, <2>2 DEF Unreferenced, SeenFiles, Files
  <2> QED
    BY <1>a, <2>1, <2>2, <2>3, TablesAlone DEF Reclaims, DeletePcs
<1>7. CASE UnlinkBlob(p)
  <2>1. UNCHANGED <<content, row, req, victim>> /\ pc[p] = "unlink" /\ pc'[p] = "purge"
    BY <1>7 DEF UnlinkBlob, Goto, store, locals
  <2> QED
    BY <1>a, <2>1, TablesAlone DEF Reclaims, DeletePcs
<1>8. CASE DeleteHashRow(p)
  <2>1. FkAllowsDelete(p, victim[p]) /\ pc[p] = "purge" /\ req[p].op = "delete"
    BY <1>8 DEF DeleteHashRow, FkAllowsDelete, InStep, Unlinking
  <2>2. UNCHANGED <<content, row, req, victim>> /\ rowDel' = RowDelAfter(p) /\ pc'[p] = "dcommit"
    BY <1>8, <2>1 DEF DeleteHashRow, Goto, store, locals
  <2>3. content[req[p].path] = victim[p] /\ victim[p] \in Hashes
    BY <2>1 DEF Reclaims, DeletePcs, Calls, CallOK
  <2>4. victim[p] \in row
    BY <1>b, <2>1, <2>3, ConstantsAssumption DEF RowInv, RowForEveryFile
  <2> QED
    BY <1>a, <2>1, <2>2, <2>3, <2>4, TablesAlone DEF RowDelAfter
<1>9. CASE DeleteCommit(p)
  <2>1. /\ pc[p] = "dcommit" /\ pc'[p] = "idle" /\ row \subseteq Hashes
        /\ content' = IF change[p] = "remove" THEN [content EXCEPT ![req[p].path] = NoHash]
                      ELSE content
        /\ row' = IF p \in rowDel THEN row \ {victim[p]} ELSE row
    BY <1>9 DEF DeleteCommit, Return, Close
  <2>2. req[p].op = "delete" /\ content[req[p].path] = victim[p] /\ req[p].path \in Paths
    BY <1>b, <2>1 DEF Reclaims, DeletePcs, Calls, CallOK
  <2>3. ASSUME NEW h \in row' PROVE Files(h)' # {}
    <3>1. h \in row /\ Files(h) # {}
      BY <2>1, <2>3 DEF Reclaims, Unused
    <3>2. CASE h = victim[p]
      <4>1. p \notin rowDel
        BY <2>1, <2>3, <3>2
      <4>2. PICK f \in Paths : content[f] = h /\ ~(change[p] = "remove" /\ f = req[p].path)
        BY <2>1, <3>2, <4>1 DEF Reclaims, SeenFiles, Files
      <4> QED
        BY <2>1, <4>2 DEF Files
    <3>3. CASE h # victim[p]
      BY <2>1, <2>2, <3>1, <3>3 DEF Files
    <3> QED
      BY <3>2, <3>3
  <2> QED
    BY <1>a, <2>1, <2>3 DEF Reclaims, Unused, DeletePcs
<1>10. CASE SweepUnused(p) \/ NextUnused(p)
  <2>1. /\ UNCHANGED content /\ row' \subseteq row
        /\ pc[p] \in {"sweep", "next"} /\ pc'[p] \in {"next", "unlink", "idle"}
    BY <1>10 DEF SweepUnused, NextUnused, Return, Close, Goto, store
  <2>2. pc'[p] = "unlink" => req'[p].op = "gc"
    BY <1>10, <2>1 DEF SweepUnused, NextUnused, Return, Close, Goto, Calls, CallOK
  <2> QED
    BY <1>a, <2>1, <2>2 DEF Reclaims, Unused, Files, DeletePcs
<1>11. CASE DeleteUnusedRow(p)
  <2>1. UNCHANGED content /\ row' \subseteq row /\ pc'[p] \in {"next", "idle"}
    BY <1>11 DEF DeleteUnusedRow, Abort, Close, Goto, store
  <2> QED
    BY <1>a, <2>1 DEF Reclaims, Unused, Files, DeletePcs
<1>12. CASE Fail(p) \/ Crash(p)
  BY <1>12 DEF Fail, Crash, OneSession
<1> QED
  BY <1>1, <1>2, <1>3, <1>4, <1>5, <1>6, <1>7, <1>8, <1>9, <1>10, <1>11, <1>12
  DEF Act, Step, WriteStep, DeleteStep, GcStep

\* Left alone, a session whose writes do not replace and whose deletes are hard
\* leaves, by the end of each call, exactly the contents stored that have a row,
\* and no row without a file that refers to it.
THEOREM AloneReclaims ==
  ASSUME OneSession, Reclaiming
  PROVE  Spec => []RowsMatchBlobs
<1> DEFINE I == \A p \in Procs : InStep(p)
           R == \A p \in Procs : Reclaims(p)
<1>1. Init => R
  BY DEF Init, Reclaims, Unused, DeletePcs
<1>2. IInv /\ I /\ R /\ [Next]_vars => R'
  <2> SUFFICES ASSUME IInv, I, R, [Next]_vars, NEW q \in Procs PROVE Reclaims(q)'
    OBVIOUS
  <2>1. CASE UNCHANGED vars
    BY <2>1 DEF vars, store, tx, locals, Reclaims, Unused, SeenFiles, Files
  <2>2. ASSUME NEW p \in Procs, Act(p) PROVE Reclaims(q)'
    <3>1. p = q
      BY DEF OneSession
    <3> QED
      BY <2>2, <3>1, StepReclaims
  <2> QED
    BY <2>1, <2>2 DEF Next, Act
<1>3. IInv /\ I /\ R => RowsMatchBlobs
  <2> SUFFICES ASSUME IInv, I, R, Quiet
               PROVE  (\A h \in Hashes : h \in row <=> blob[h] = "full") /\ Unused = {}
    BY DEF RowsMatchBlobs
  <2>1. PICK p \in Procs : pc[p] = "idle"
    BY DEF OneSession, Quiet
  <2>2. \A h \in Hashes : blob[h] = IF h \in row THEN "full" ELSE "none"
    BY <2>1, NoFlux
  <2> QED
    BY <2>1, <2>2 DEF Reclaims
<1> QED
  BY <1>1, <1>2, <1>3, Invariant, InStepInvariant, PTL DEF Spec
=============================================================================
