----------------------------- MODULE MCWaiting -----------------------------
(***************************************************************************)
(* Sessions that wait for each other, for TLC: instances of AclInheritance *)
(* and of CaskStore side by side.  Each behaviour is one of one of them,   *)
(* and the other stands still.                                             *)
(***************************************************************************)
EXTENDS MCAclInheritance

CONSTANTS Paths, Hashes, FileIds, f1, f2, h1, NoHash, NoId, NoProc

VARIABLES content, fileId, row, blob, copier, quads, strayTmp, step, call, tmp, change,
          rowIns, rowDel, fid, victim, unused,
          side    \* which of the two it is

sessions ==
  <<content, fileId, row, blob, copier, quads, strayTmp, step, call, tmp, change, rowIns,
    rowDel, fid, victim, unused>>

\* Sessions that contend for one hash, two paths and the garbage collection.
Call(op, f, h) ==
  [op |-> op, path |-> f, from |-> f, hash |-> h, src |-> "data", replace |-> FALSE, soft |-> FALSE]
Contending ==
  {Call("write", f1, h1), Call("write", f2, h1), Call("delete", f1, NoHash),
   Call("delete", f2, NoHash), Call("gc", f1, NoHash)}

S == INSTANCE CaskStore WITH
       Requests <- Contending, Faults <- {}, RdfPaths <- {}, pc <- step, req <- call, todo <- unused

OfAcls(A) == side = "acls" /\ A /\ UNCHANGED <<sessions, side>>
OfStore(A) == side = "store" /\ A /\ UNCHANGED <<vars, side>>

MCInit == Init /\ S!Init /\ side \in {"acls", "store"}
MCNext ==
  \E p \in Procs :
    \/ OfAcls(Submit(p)) \/ OfAcls(Step(p)) \/ OfAcls(Fail(p))
    \/ OfStore(S!Submit(p)) \/ OfStore(S!Step(p))

\* The fairness of AclInheritance, or that of CaskStore: side never changes.
MCFairSpec ==
  /\ MCInit /\ [][MCNext]_<<vars, sessions, side>>
  /\ \A p \in Procs : SF_<<vars, sessions, side>>(OfAcls(Step(p)) \/ OfStore(S!Step(p)))

\* Every call on the store ends, though sessions wait for each other's locks, their
\* uncommitted hash rows and the files that refer to them.
StoreCallsEnd == S!CallsEnd
=============================================================================
