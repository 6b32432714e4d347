--------------------------- MODULE AclInheritance ---------------------------
(***************************************************************************)
(* Which ACL governs a directory: the tables directory, root_directory_acl *)
(* and directory_acl, and the transactions that change them.               *)
(*                                                                         *)
(* A directory with an ACL of its own has a row in root_directory_acl; the *)
(* one row of a directory in directory_acl says which of those ACLs        *)
(* governs it.  That second table is inheritance computed in advance: the  *)
(* calls that set or remove an ACL walk the tree and rewrite it, statement *)
(* by statement at READ COMMITTED, and mkdir() fills it for the            *)
(* directories it creates.                                                 *)
(*                                                                         *)
(* Abstracted: roles, permissions and the public flag, which hang on the   *)
(* row of root_directory_acl and go with it.  An ACL stands for the        *)
(* directory it belongs to.                                                *)
(***************************************************************************)
EXTENDS Integers, Sequences, FiniteSets

CONSTANTS
  Procs,      \* sessions, each with a connection of its own
  Names,      \* names of directories within their parent
  Dirs,       \* the paths that may be directories: sequences of names
  Existing,   \* the directories there are at the start
  Requests,   \* the calls each session may make
  Faults,     \* {"error"} when statements may fail
  NoDir,      \* no ACL
  Gone,       \* an ACL that a session remembers and that has been deleted
  Same,       \* a directory_acl row that a transaction has not changed
  NoReq

Top == << >>    \* the directory "/"

Parent(d) == SubSeq(d, 1, Len(d) - 1)
IsAbove(a, d) == Len(a) <= Len(d) /\ \A i \in 1..Len(a) : a[i] = d[i]

Request == [op : {"set", "remove", "mkdir"}, dir : Dirs]

ASSUME ConstantsAssumption ==
  /\ Dirs \subseteq Seq(Names) /\ Existing \subseteq Dirs
  /\ Top \in Existing
  /\ \A d \in Dirs : \A n \in 0..Len(d) : SubSeq(d, 1, n) \in Dirs
  /\ \A d \in Existing : \A n \in 0..Len(d) : SubSeq(d, 1, n) \in Existing
  /\ Requests \in [Procs -> SUBSET Request]
  /\ Faults \subseteq {"error"}
  /\ {NoDir, Gone, Same} \cap Dirs = {}
  /\ NoDir # Gone /\ NoDir # Same /\ Gone # Same
  /\ NoReq \notin Request

VARIABLES
  exists,     \* committed directories
  roots,      \* committed root_directory_acl: directories with their own ACL
  aclOf,      \* committed directory_acl: the ACL of each directory, or NoDir
  pc, req,    \* where each session is, and the call it is serving
  dirTx,      \* directories a transaction has inserted, or locked doing so
  rootTx,     \* what it has done to the ACL of req.dir: "none", "put", "delete"
  aclTx,      \* its uncommitted directory_acl: an ACL, NoDir, or Same
  acl,        \* the ACL it is handing out: rootAcl, rootDirectoryAclId
  at,         \* the directory it has come to
  todo        \* the directories the recursion has still to visit

tables == <<exists, roots, aclOf>>
tx == <<dirTx, rootTx, aclTx>>
vars == <<tables, pc, req, tx, acl, at, todo>>

Untouched == [d \in Dirs |-> Same]

Init ==
  /\ exists = Existing /\ roots = {} /\ aclOf = [d \in Dirs |-> NoDir]
  /\ pc = [p \in Procs |-> "idle"] /\ req = [p \in Procs |-> NoReq]
  /\ dirTx = [p \in Procs |-> {}] /\ rootTx = [p \in Procs |-> "none"]
  /\ aclTx = [p \in Procs |-> Untouched]
  /\ acl = [p \in Procs |-> NoDir] /\ at = [p \in Procs |-> Top]
  /\ todo = [p \in Procs |-> {}]

-----------------------------------------------------------------------------
(* What a statement of p's transaction sees: what is committed by then and *)
(* what the transaction has done itself.                                   *)

SeenDirs(p) == exists \cup dirTx[p]

OwnRoot(p, state) == IF rootTx[p] = state THEN {req[p].dir} ELSE {}
SeenRoots(p) == (roots \cup OwnRoot(p, "put")) \ OwnRoot(p, "delete")

SeenAcl(p, d) == IF aclTx[p][d] = Same THEN aclOf[d] ELSE aclTx[p][d]

\* getRootDirectoryAcl(): the ACL that belongs to d itself, if d has a row in
\* directory_acl as well.
RootAcl(p, d) == IF d \in SeenRoots(p) /\ SeenAcl(p, d) # NoDir THEN d ELSE NoDir

-----------------------------------------------------------------------------
(* What it waits for: rows that other transactions have changed.           *)

RootRowFree(p, d) ==
  \A q \in Procs \ {p} : ~(rootTx[q] # "none" /\ req[q].dir = d)

AclRowFree(p, d) == \A q \in Procs \ {p} : aclTx[q][d] = Same

\* A directory_acl row that refers to an ACL holds a key share on it, which a
\* delete of the ACL waits for; and the other way round.
NotShared(p, a) == \A q \in Procs \ {p}, d \in Dirs : aclTx[q][d] # a
NotBeingDeleted(p, a) ==
  \A q \in Procs \ {p} : ~(rootTx[q] = "delete" /\ req[q].dir = a)

-----------------------------------------------------------------------------

Goto(p, l) == pc' = [pc EXCEPT ![p] = l]

\* ROLLBACK or COMMIT ends the transaction and the call.
Close(p) ==
  /\ Goto(p, "idle") /\ req' = [req EXCEPT ![p] = NoReq]
  /\ dirTx' = [dirTx EXCEPT ![p] = {}] /\ rootTx' = [rootTx EXCEPT ![p] = "none"]
  /\ aclTx' = [aclTx EXCEPT ![p] = Untouched]
  /\ at' = [at EXCEPT ![p] = Top] /\ todo' = [todo EXCEPT ![p] = {}]

Abort(p) == Close(p) /\ acl' = [acl EXCEPT ![p] = NoDir] /\ UNCHANGED tables

Start == [set |-> "ensure", remove |-> "unroot", mkdir |-> "root"]

Submit(p) ==
  /\ pc[p] = "idle"
  /\ \E r \in Requests[p] : /\ req' = [req EXCEPT ![p] = r]
                            /\ Goto(p, Start[r.op])
  /\ UNCHANGED <<tables, tx, acl, at, todo>>

-----------------------------------------------------------------------------
(* setDirectoryPermission() and setDirectoryPublic()                       *)

\* ensureRootDirectoryAcl(): the directory has to exist; its ACL is inserted
\* or, if it is there, updated.
EnsureRoot(p) ==
  /\ pc[p] = "ensure"
  /\ \/ /\ req[p].dir \in exists /\ RootRowFree(p, req[p].dir)
        /\ rootTx' = [rootTx EXCEPT ![p] = "put"]
        /\ acl' = [acl EXCEPT ![p] = req[p].dir]
        /\ at' = [at EXCEPT ![p] = req[p].dir]
        /\ Goto(p, "check")
        /\ UNCHANGED <<tables, req, dirTx, aclTx, todo>>
     \/ req[p].dir \notin exists /\ Abort(p)

-----------------------------------------------------------------------------
(* removeRootDirectoryAcl()                                                *)

\* The rows that ON DELETE CASCADE takes along with the ACL of d.
RowsOfItself(d) == {d} \cap {x \in Dirs : aclOf[x] = d}    \* mutant: not those of its children
RowsOf(d) == {x \in Dirs : aclOf[x] = d}

\* Without a row to delete, res.rows[0] is undefined and the call throws.
DeleteRoot(p) ==
  /\ pc[p] = "unroot"
  /\ LET d == req[p].dir IN
     \/ /\ d \in roots /\ RootRowFree(p, d) /\ NotShared(p, d)
        /\ \A x \in RowsOf(d) : AclRowFree(p, x)
        /\ rootTx' = [rootTx EXCEPT ![p] = "delete"]
        /\ aclTx' = [aclTx EXCEPT ![p] =
                       [x \in Dirs |-> IF x \in RowsOf(d) THEN NoDir ELSE Same]]
        /\ Goto(p, "nearest")
        /\ UNCHANGED <<tables, req, dirTx, acl, at, todo>>
     \/ d \notin roots /\ Abort(p)

\* The nearest ancestor that has an ACL, by the recursive query on parent_id.
Above(d, rs) == {a \in rs \ {d} : IsAbove(a, d)}
Deepest(ds) == {a \in ds : \A b \in ds : Len(b) <= Len(a)}
NearestAbove(p, d) == Deepest(Above(d, SeenRoots(p)))

NearestRoot(p) ==
  /\ pc[p] = "nearest"
  /\ \/ /\ NearestAbove(p, req[p].dir) = {} /\ Goto(p, "commit")
        /\ UNCHANGED <<acl, at>>
     \/ \E a \in NearestAbove(p, req[p].dir) :
          /\ acl' = [acl EXCEPT ![p] = a]
          /\ at' = [at EXCEPT ![p] = req[p].dir]
          /\ Goto(p, "check")
  /\ UNCHANGED <<tables, req, tx, todo>>

-----------------------------------------------------------------------------
(* mkdir(), within the transaction of a write                              *)

\* The loop over the parts of the path.
StayAt(p) == at[p]    \* mutant: currentPath is not advanced
PathSoFar(p) == SubSeq(req[p].dir, 1, Len(at[p]) + 1)
NextPart(p) ==
  IF at[p] = req[p].dir THEN Goto(p, "commit") /\ UNCHANGED at
  ELSE Goto(p, "find") /\ at' = [at EXCEPT ![p] = PathSoFar(p)]

\* rootAcl is the ACL of "/", if it has one.
TopAcl(p) ==
  /\ pc[p] = "root"
  /\ acl' = [acl EXCEPT ![p] = RootAcl(p, Top)]
  /\ NextPart(p)
  /\ UNCHANGED <<tables, req, tx, todo>>

FindDir(p) ==
  /\ pc[p] = "find"
  /\ IF at[p] \in SeenDirs(p) THEN NextPart(p) ELSE Goto(p, "insert") /\ UNCHANGED at
  /\ UNCHANGED <<tables, req, tx, acl, todo>>

\* INSERT ... ON CONFLICT (fullname) DO UPDATE waits for another transaction
\* that creates the same directory.  Without an ACL from "/", that of the
\* directory itself is looked for: it has one only if the INSERT found it there.
InsertDir(p) ==
  /\ pc[p] = "insert" /\ \A q \in Procs \ {p} : at[p] \notin dirTx[q]
  /\ dirTx' = [dirTx EXCEPT ![p] = @ \cup {at[p]}]
  /\ acl' = [acl EXCEPT ![p] = IF @ = NoDir THEN RootAcl(p, at[p]) ELSE @]
  /\ IF acl'[p] = NoDir THEN NextPart(p) ELSE Goto(p, "check") /\ UNCHANGED at
  /\ UNCHANGED <<tables, req, rootTx, aclTx, todo>>

-----------------------------------------------------------------------------
(* setDirectoryAcl(): hands acl[p] to at[p], and unless mkdir() calls it   *)
(* goes on to the children.                                                *)

\* Depth first: the children of the last directory come before its siblings.
Visit(p, ds) ==
  \/ ds = {} /\ Goto(p, "commit") /\ UNCHANGED <<at, todo>>
  \/ \E d \in Deepest(ds) : /\ at' = [at EXCEPT ![p] = d]
                            /\ todo' = [todo EXCEPT ![p] = ds \ {d}]
                            /\ Goto(p, "check")

GoOn(p, children) ==
  IF req[p].op = "mkdir" THEN NextPart(p) /\ UNCHANGED todo
  ELSE Visit(p, todo[p] \cup children)

\* The SELECT at the start: a directory that has this ACL already is skipped,
\* with everything below it.
CheckAcl(p) ==
  /\ pc[p] = "check"
  /\ IF SeenAcl(p, at[p]) = acl[p] THEN GoOn(p, {})
     ELSE Goto(p, "put") /\ UNCHANGED <<at, todo>>
  /\ UNCHANGED <<tables, req, tx, acl>>

\* The children that inherit: those without an ACL of their own.
AllChildren(p, d) ==    \* mutant: an ACL of its own is overridden
  {c \in SeenDirs(p) : c # Top /\ Parent(c) = d}
Heirs(p, d) == {c \in SeenDirs(p) \ SeenRoots(p) : c # Top /\ Parent(c) = d}

\* The foreign key directory_acl -> root_directory_acl.
NoForeignKey(p) == TRUE    \* mutant: no REFERENCES
AclIsThere(p) == acl[p] # Gone

\* INSERT ... ON CONFLICT (directory_id) DO UPDATE, and the SELECT of the
\* children.
PutAcl(p) ==
  /\ pc[p] = "put" /\ AclRowFree(p, at[p])
  /\ \/ /\ AclIsThere(p) /\ NotBeingDeleted(p, acl[p])
        /\ aclTx' = [aclTx EXCEPT ![p][at[p]] = acl[p]]
        /\ GoOn(p, Heirs(p, at[p]))
        /\ UNCHANGED <<tables, req, dirTx, rootTx, acl>>
     \/ ~AclIsThere(p) /\ Abort(p)

-----------------------------------------------------------------------------

\* COMMIT.  A deleted ACL is gone for those that remember it.
Commit(p) ==
  /\ pc[p] = "commit"
  /\ exists' = SeenDirs(p) /\ roots' = SeenRoots(p)
  /\ aclOf' = [d \in Dirs |-> SeenAcl(p, d)]
  /\ acl' = [q \in Procs |->
               IF q = p THEN NoDir
               ELSE IF acl[q] \in OwnRoot(p, "delete") THEN Gone ELSE acl[q]]
  /\ Close(p)

\* Any statement may fail: a deadlock that the server breaks, a timeout, a
\* lost connection.  The transaction is rolled back.
Fail(p) == "error" \in Faults /\ pc[p] # "idle" /\ Abort(p)

Step(p) ==
  \/ EnsureRoot(p) \/ DeleteRoot(p) \/ NearestRoot(p)
  \/ TopAcl(p) \/ FindDir(p) \/ InsertDir(p)
  \/ CheckAcl(p) \/ PutAcl(p) \/ Commit(p)

Next == \E p \in Procs : Submit(p) \/ Step(p) \/ Fail(p)

Spec == Init /\ [][Next]_vars

\* A session that can go on does, and PostgreSQL grants contended row locks in
\* the order they were asked for.
FairSpec == Spec /\ \A p \in Procs : SF_vars(Step(p))

-----------------------------------------------------------------------------
(* Properties                                                              *)

Pcs == {"idle", "ensure", "unroot", "nearest", "root", "find", "insert",
        "check", "put", "commit"}

\* The values the variables take.
TypeOK ==
  /\ exists \subseteq Dirs /\ roots \subseteq Dirs
  /\ aclOf \in [Dirs -> Dirs \cup {NoDir}]
  /\ pc \in [Procs -> Pcs] /\ req \in [Procs -> Request \cup {NoReq}]
  /\ dirTx \in [Procs -> SUBSET Dirs]
  /\ rootTx \in [Procs -> {"none", "put", "delete"}]
  /\ aclTx \in [Procs -> [Dirs -> Dirs \cup {NoDir, Same}]]
  /\ acl \in [Procs -> Dirs \cup {NoDir, Gone}]
  /\ at \in [Procs -> Dirs] /\ todo \in [Procs -> SUBSET Dirs]

\* The ACL that governs a directory is there and belongs to the directory or
\* to an ancestor of it, whatever the interleaving of ACL changes, removals and
\* mkdir(), and whatever fails.
AclInScope ==
  \A d \in Dirs : aclOf[d] # NoDir => aclOf[d] \in roots /\ IsAbove(aclOf[d], d)

\* The ACL of a directory by definition: its own or that of the nearest
\* ancestor that has one.
Governs(a, d) ==
  IF \E r \in roots : IsAbove(r, d)
    THEN /\ a \in roots /\ IsAbove(a, d)
         /\ \A r \in roots : IsAbove(r, d) => IsAbove(r, a)
    ELSE a = NoDir

\* The recursion of setDirectoryAcl() and the cascade of a removal compute that
\* definition for the directories that were there before, and for every one
\* with an ACL of its own ("all child directories will inherit the permission
\* unless explicitly overridden").
ExistingInherit == \A d \in Existing \cup roots : Governs(aclOf[d], d)

\* The same for every directory: "Subdirectories will inherit the ACL of their
\* parent directory unless a new ACL is defined for the subdirectory."
AllInherit == \A d \in exists : Governs(aclOf[d], d)

\* Every call ends, though sessions wait for each other's rows.
CallsEnd == \A p \in Procs : pc[p] # "idle" ~> pc[p] = "idle"
=============================================================================
