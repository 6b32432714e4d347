------------------------ MODULE AclInheritanceProofs ------------------------
(***************************************************************************)
(* The inductive invariant behind AclInScope, and its proof.               *)
(***************************************************************************)
EXTENDS AclInheritance, WellFoundedInduction, TLAPS

\* A session that is not idle serves a call; before its first statement it has
\* changed nothing and remembers no ACL.
Calls(p) ==
  /\ pc[p] # "idle" => req[p] \in Request
  /\ pc[p] \in {"idle", "ensure", "unroot", "root"} =>
       rootTx[p] = "none" /\ aclTx[p] = Untouched
  /\ pc[p] \in {"idle", "ensure", "unroot", "root", "nearest"} => acl[p] = NoDir /\ todo[p] = {}
  /\ pc[p] \in {"unroot", "nearest"} => req[p].op = "remove"

\* The loop of mkdir() is on the path to the directory it was asked for.
OnPath(p) ==
  /\ pc[p] \in {"idle", "root"} => at[p] = Top
  /\ pc[p] \in {"root", "find", "insert"} => req[p].op = "mkdir"
  /\ pc[p] \in {"root", "find", "insert", "check", "put"} /\ req[p].op = "mkdir" =>
       IsAbove(at[p], req[p].dir)
  /\ pc[p] # "idle" /\ req[p].op = "mkdir" => todo[p] = {}

\* The ACL a session is handing out is one it sees, and belongs to the
\* directory it has come to, to those it has still to visit, or above them.
Handing(p) ==
  acl[p] \in Dirs =>
    /\ acl[p] \in SeenRoots(p)
    /\ pc[p] \in {"find", "insert", "check", "put"} => IsAbove(acl[p], at[p])
    /\ \A d \in todo[p] : IsAbove(acl[p], d)

\* So are the ACLs its transaction has handed out.
HandedOut(p) ==
  \A d \in Dirs :
    aclTx[p][d] \in Dirs => aclTx[p][d] \in SeenRoots(p) /\ IsAbove(aclTx[p][d], d)

\* A transaction that deletes an ACL has changed every row that refers to it.
Deleting(p) ==
  rootTx[p] = "delete" => \A d \in Dirs : aclOf[d] = req[p].dir => aclTx[p][d] # Same

\* Meanwhile no other hands that ACL out; and no two change the same ACL.
Exclusive(p, q) ==
  /\ rootTx[p] = "delete" => \A d \in Dirs : aclTx[q][d] # req[p].dir
  /\ rootTx[p] # "none" /\ rootTx[q] # "none" => req[p].dir # req[q].dir

Session(p) == Calls(p) /\ OnPath(p) /\ Handing(p) /\ HandedOut(p) /\ Deleting(p)

IInv ==
  /\ TypeOK /\ AclInScope
  /\ \A p \in Procs : Session(p)
  /\ \A p \in Procs : \A q \in Procs \ {p} : Exclusive(p, q)

-----------------------------------------------------------------------------
(* Paths.                                                                  *)

LEMMA DirsAreSeqs == \A d \in Dirs : d \in Seq(Names) /\ Len(d) \in Nat
  BY ConstantsAssumption DEF ConstantsAssumption

\* The special values are no directories and differ from each other.
LEMMA Values ==
  /\ NoDir \notin Dirs /\ Gone \notin Dirs /\ Same \notin Dirs
  /\ NoDir # Gone /\ NoDir # Same /\ Gone # Same
  BY ConstantsAssumption DEF ConstantsAssumption

LEMMA TopIsDir == Top \in Dirs
  BY ConstantsAssumption DEF ConstantsAssumption

\* IsAbove() is reflexive and transitive, and "/" is above every directory.
LEMMA AboveReflexive == \A d \in Dirs : IsAbove(d, d)
  BY DirsAreSeqs DEF IsAbove

LEMMA TopAbove == \A d \in Dirs : IsAbove(Top, d)
  BY DirsAreSeqs DEF IsAbove, Top

LEMMA AboveTransitive ==
  \A a, b, c \in Dirs : IsAbove(a, b) /\ IsAbove(b, c) => IsAbove(a, c)
  BY DirsAreSeqs DEF IsAbove

\* What is above a directory is above its children.
LEMMA AboveChild ==
  \A a, d, c \in Dirs : IsAbove(a, d) /\ c # Top /\ Parent(c) = d => IsAbove(a, c)
<1> SUFFICES ASSUME NEW a \in Dirs, NEW d \in Dirs, NEW c \in Dirs,
                    IsAbove(a, d), c # Top, Parent(c) = d
             PROVE  IsAbove(a, c)
  OBVIOUS
<1>1. c \in Seq(Names) /\ Len(c) \in Nat /\ Len(c) > 0
  BY DirsAreSeqs DEF Top
<1>2. Len(d) = Len(c) - 1 /\ \A i \in 1..(Len(c) - 1) : d[i] = c[i]
  BY <1>1 DEF Parent
<1> QED
  BY <1>1, <1>2, DirsAreSeqs DEF IsAbove

\* The next part of a path that is not at its end.
LEMMA NextAbove ==
  ASSUME NEW x \in Dirs, NEW r \in Dirs, IsAbove(x, r), x # r
  PROVE  LET n == SubSeq(r, 1, Len(x) + 1)
         IN  n \in Dirs /\ IsAbove(n, r) /\ IsAbove(x, n)
<1> DEFINE n == SubSeq(r, 1, Len(x) + 1)
<1>1. /\ x \in Seq(Names) /\ r \in Seq(Names) /\ Len(x) \in Nat /\ Len(r) \in Nat
      /\ Len(x) <= Len(r) /\ \A i \in 1..Len(x) : x[i] = r[i]
  BY DirsAreSeqs DEF IsAbove
<1>2. Len(x) < Len(r)
  <2> SUFFICES ASSUME Len(x) = Len(r) PROVE FALSE
    BY <1>1
  <2> QED
    BY <1>1
<1>3. Len(x) + 1 \in 0..Len(r)
  BY <1>1, <1>2
<1>4. n \in Dirs
  BY <1>3, ConstantsAssumption DEF ConstantsAssumption
<1>5. Len(n) = Len(x) + 1 /\ \A i \in 1..(Len(x) + 1) : n[i] = r[i]
  BY <1>1, <1>2
<1>6. IsAbove(n, r) /\ IsAbove(x, n)
  BY <1>1, <1>2, <1>5 DEF IsAbove
<1> QED
  BY <1>4, <1>6

-----------------------------------------------------------------------------
(* Steps that commit nothing.                                              *)

\* It is enough to look at the session that takes the step.
LEMMA LocalStep ==
  ASSUME IInv, NEW p \in Procs, UNCHANGED tables, TypeOK', Session(p)',
         \A q \in Procs \ {p} :
           /\ pc'[q] = pc[q] /\ req'[q] = req[q] /\ rootTx'[q] = rootTx[q]
           /\ aclTx'[q] = aclTx[q] /\ acl'[q] = acl[q] /\ at'[q] = at[q] /\ todo'[q] = todo[q],
         \A q \in Procs \ {p} : Exclusive(p, q)' /\ Exclusive(q, p)'
  PROVE  IInv'
<1>1. AclInScope'
  BY DEF IInv, AclInScope, tables
<1>2. ASSUME NEW q \in Procs \ {p} PROVE Session(q)'
  <2>1. SeenRoots(q)' = SeenRoots(q)
    BY DEF SeenRoots, OwnRoot, tables
  <2>2. Session(q)
    BY DEF IInv
  <2> QED
    BY <2>1, <2>2 DEF Session, Calls, OnPath, Handing, HandedOut, Deleting, tables
<1>3. ASSUME NEW q \in Procs \ {p}, NEW r \in Procs \ {p}, r # q PROVE Exclusive(q, r)'
  BY <1>3 DEF IInv, Exclusive
<1> QED
  BY <1>1, <1>2, <1>3 DEF IInv

\* Leaving a call without a commit.
LEMMA AbortKeeps ==
  ASSUME IInv, NEW p \in Procs, Abort(p)
  PROVE  IInv'
<1> USE DEF Abort, Close, Goto
<1>1. TypeOK'
  BY TopIsDir DEF IInv, TypeOK, Pcs, Untouched, tables
<1>2. /\ pc'[p] = "idle" /\ rootTx'[p] = "none" /\ aclTx'[p] = Untouched
      /\ acl'[p] = NoDir /\ at'[p] = Top /\ todo'[p] = {}
  BY DEF IInv, TypeOK
<1>3. Session(p)'
  BY <1>2, Values
     DEF Session, Calls, OnPath, Handing, HandedOut, Deleting, Untouched
<1>4. \A q \in Procs \ {p} :
        /\ pc'[q] = pc[q] /\ req'[q] = req[q] /\ rootTx'[q] = rootTx[q]
        /\ aclTx'[q] = aclTx[q] /\ acl'[q] = acl[q] /\ at'[q] = at[q] /\ todo'[q] = todo[q]
  BY DEF IInv, TypeOK
<1>5. ASSUME NEW q \in Procs \ {p} PROVE Exclusive(p, q)' /\ Exclusive(q, p)'
  <2>1. Exclusive(p, q)'
    BY <1>2 DEF Exclusive
  <2>2. ASSUME rootTx'[q] = "delete", NEW d \in Dirs PROVE aclTx'[p][d] # req'[q].dir
    <3>1. pc[q] # "idle" /\ req[q] \in Request
      BY <1>4, <2>2 DEF IInv, Session, Calls
    <3>2. aclTx'[p][d] = Same /\ req'[q].dir \in Dirs
      BY <1>2, <1>4, <3>1 DEF Untouched, Request
    <3> QED
      BY <3>2, Values
  <2> QED
    BY <1>2, <2>1, <2>2 DEF Exclusive
<1> QED
  BY <1>1, <1>3, <1>4, <1>5, LocalStep

\* Going on to the next part of a path, to the next directory of the recursion.
LEMMA NextPartKeeps ==
  ASSUME TypeOK, NEW p \in Procs, req[p] \in Request, IsAbove(at[p], req[p].dir), NextPart(p)
  PROVE  /\ pc' \in [Procs -> Pcs] /\ at' \in [Procs -> Dirs]
         /\ pc'[p] \in {"commit", "find"}
         /\ IsAbove(at'[p], req[p].dir) /\ IsAbove(at[p], at'[p])
         /\ \A q \in Procs \ {p} : pc'[q] = pc[q] /\ at'[q] = at[q]
<1>1. at[p] \in Dirs /\ req[p].dir \in Dirs
  BY DEF TypeOK, Request
<1>2. CASE at[p] = req[p].dir
  BY <1>1, <1>2, AboveReflexive DEF NextPart, Goto, TypeOK, Pcs
<1>3. CASE at[p] # req[p].dir
  <2>1. /\ PathSoFar(p) \in Dirs /\ IsAbove(PathSoFar(p), req[p].dir)
        /\ IsAbove(at[p], PathSoFar(p))
    BY <1>1, <1>3, NextAbove DEF PathSoFar
  <2> QED
    BY <1>3, <2>1 DEF NextPart, Goto, TypeOK, Pcs
<1> QED
  BY <1>2, <1>3

LEMMA VisitKeeps ==
  ASSUME TypeOK, NEW p \in Procs, NEW ds \in SUBSET Dirs, todo[p] \subseteq ds, Visit(p, ds)
  PROVE  /\ pc' \in [Procs -> Pcs] /\ at' \in [Procs -> Dirs]
         /\ todo' \in [Procs -> SUBSET Dirs]
         /\ pc'[p] \in {"commit", "check"} /\ (pc'[p] = "check" => at'[p] \in ds)
         /\ todo'[p] \subseteq ds
         /\ \A q \in Procs \ {p} : pc'[q] = pc[q] /\ at'[q] = at[q] /\ todo'[q] = todo[q]
<1>1. CASE ds = {} /\ Goto(p, "commit") /\ UNCHANGED <<at, todo>>
  BY <1>1 DEF Goto, TypeOK, Pcs
<1>2. ASSUME NEW d \in ds, at' = [at EXCEPT ![p] = d],
             todo' = [todo EXCEPT ![p] = ds \ {d}], Goto(p, "check")
      PROVE  /\ pc' \in [Procs -> Pcs] /\ at' \in [Procs -> Dirs]
             /\ todo' \in [Procs -> SUBSET Dirs]
             /\ pc'[p] = "check" /\ at'[p] \in ds /\ todo'[p] \subseteq ds
             /\ \A q \in Procs \ {p} : pc'[q] = pc[q] /\ at'[q] = at[q] /\ todo'[q] = todo[q]
  BY <1>2 DEF Goto, TypeOK, Pcs
<1> QED
  BY <1>1, <1>2 DEF Visit, Deepest

LEMMA GoOnKeeps ==
  ASSUME TypeOK, NEW p \in Procs, req[p] \in Request, pc[p] \in {"check", "put"}, OnPath(p),
         NEW children \in SUBSET Dirs, GoOn(p, children), req' = req
  PROVE  /\ pc' \in [Procs -> Pcs] /\ at' \in [Procs -> Dirs]
         /\ todo' \in [Procs -> SUBSET Dirs]
         /\ pc'[p] \in {"commit", "find", "check"} /\ OnPath(p)'
         /\ \A a \in Dirs :
              /\ IsAbove(a, at[p])
              /\ \A d \in todo[p] \cup children : IsAbove(a, d)
              => /\ pc'[p] \in {"find", "check"} => IsAbove(a, at'[p])
                 /\ \A d \in todo'[p] : IsAbove(a, d)
         /\ \A q \in Procs \ {p} : pc'[q] = pc[q] /\ at'[q] = at[q] /\ todo'[q] = todo[q]
<1>1. CASE req[p].op = "mkdir"
  <2>1. NextPart(p) /\ todo' = todo
    BY <1>1 DEF GoOn
  <2>2. IsAbove(at[p], req[p].dir)
    BY <1>1 DEF OnPath
  <2>3. at[p] \in Dirs /\ at'[p] \in Dirs /\ IsAbove(at[p], at'[p])
    BY <2>1, <2>2, NextPartKeeps DEF TypeOK
  <2>4. \A a \in Dirs : IsAbove(a, at[p]) => IsAbove(a, at'[p])
    BY <2>3, AboveTransitive
  <2> QED
    BY <1>1, <2>1, <2>2, <2>4, NextPartKeeps DEF OnPath, TypeOK
<1>2. CASE req[p].op # "mkdir"
  <2>1. Visit(p, todo[p] \cup children) /\ todo[p] \cup children \in SUBSET Dirs
    BY <1>2 DEF GoOn, TypeOK
  <2>2. /\ pc' \in [Procs -> Pcs] /\ at' \in [Procs -> Dirs]
        /\ todo' \in [Procs -> SUBSET Dirs]
        /\ pc'[p] \in {"commit", "check"}
        /\ pc'[p] = "check" => at'[p] \in todo[p] \cup children
        /\ todo'[p] \subseteq todo[p] \cup children
        /\ \A q \in Procs \ {p} : pc'[q] = pc[q] /\ at'[q] = at[q] /\ todo'[q] = todo[q]
    BY <2>1, VisitKeeps
  <2> QED
    BY <1>2, <2>2 DEF OnPath
<1> QED
  BY <1>1, <1>2

\* A step that changes no row: the exclusions stay as they are.
LEMMA ReadingStep ==
  ASSUME IInv, NEW p \in Procs, UNCHANGED tables, UNCHANGED <<rootTx, aclTx>>, TypeOK',
         Session(p)', req'[p] = req[p] \/ rootTx[p] = "none",
         \A q \in Procs \ {p} :
           /\ pc'[q] = pc[q] /\ req'[q] = req[q]
           /\ acl'[q] = acl[q] /\ at'[q] = at[q] /\ todo'[q] = todo[q]
  PROVE  IInv'
<1>1. ASSUME NEW q \in Procs \ {p} PROVE Exclusive(p, q)' /\ Exclusive(q, p)'
  <2>1. Exclusive(p, q) /\ Exclusive(q, p)
    BY DEF IInv
  <2> QED
    BY <2>1 DEF Exclusive
<1> QED
  BY <1>1, LocalStep

\* Calls begin with nothing changed and no ACL remembered.
LEMMA SubmitKeeps ==
  ASSUME IInv, NEW p \in Procs, Submit(p)
  PROVE  IInv'
<1>1. PICK r \in Requests[p] : req' = [req EXCEPT ![p] = r] /\ Goto(p, Start[r.op])
  BY DEF Submit
<1>2. r \in Request
  BY <1>1, ConstantsAssumption DEF ConstantsAssumption
<1>3. /\ r.op = "set" => Start[r.op] = "ensure"
      /\ r.op = "remove" => Start[r.op] = "unroot"
      /\ r.op = "mkdir" => Start[r.op] = "root"
      /\ r.op \in {"set", "remove", "mkdir"}
  BY <1>2 DEF Request, Start
<1>4. UNCHANGED <<exists, roots, aclOf, dirTx, rootTx, aclTx, acl, at, todo>> /\ pc[p] = "idle"
  BY DEF Submit, tables, tx
<1>5. TypeOK'
  BY <1>1, <1>2, <1>3, <1>4 DEF IInv, TypeOK, Goto, Pcs
<1>6. req'[p] = r /\ pc'[p] = Start[r.op]
  BY <1>1 DEF IInv, TypeOK, Goto
<1>7. rootTx[p] = "none" /\ aclTx[p] = Untouched /\ acl[p] = NoDir /\ todo[p] = {}
  BY <1>4 DEF IInv, Session, Calls
<1>8. Session(p)'
  <2>1. Calls(p)'
    BY <1>2, <1>3, <1>4, <1>6, <1>7 DEF Calls
  <2>2. OnPath(p)'
    <3>1. at[p] = Top /\ IsAbove(at[p], r.dir)
      BY <1>2, <1>4, TopAbove DEF Request, IInv, Session, OnPath
    <3> QED
      BY <1>3, <1>4, <1>6, <1>7, <3>1 DEF OnPath
  <2> QED
    BY <1>4, <1>7, <2>1, <2>2, Values
       DEF Session, Handing, HandedOut, Deleting, Untouched
<1> QED
  BY <1>1, <1>4, <1>5, <1>7, <1>8, ReadingStep DEF IInv, TypeOK, Goto, tables

\* The ACL becomes that of the directory itself, under its row lock.
LEMMA EnsureRootKeeps ==
  ASSUME IInv, NEW p \in Procs, EnsureRoot(p)
  PROVE  IInv'
<1> DEFINE d == req[p].dir
<1>1. CASE d \notin exists /\ Abort(p)
  BY <1>1, AbortKeeps
<1>2. CASE /\ RootRowFree(p, d)
           /\ rootTx' = [rootTx EXCEPT ![p] = "put"]
           /\ acl' = [acl EXCEPT ![p] = d] /\ at' = [at EXCEPT ![p] = d]
           /\ Goto(p, "check")
           /\ UNCHANGED <<tables, req, dirTx, aclTx, todo>>
  <2>1. pc[p] = "ensure" /\ req[p] \in Request /\ d \in Dirs /\ aclTx[p] = Untouched
    BY DEF EnsureRoot, IInv, Session, Calls, Request
  <2>2. TypeOK'
    BY <1>2, <2>1 DEF IInv, TypeOK, Goto, Pcs, tables
  <2>3. /\ pc'[p] = "check" /\ rootTx'[p] = "put" /\ acl'[p] = d /\ at'[p] = d
        /\ aclTx'[p] = Untouched /\ req'[p] = req[p] /\ todo'[p] = todo[p]
    BY <1>2, <2>1 DEF IInv, TypeOK, Goto
  <2>4. d \in SeenRoots(p)' /\ IsAbove(d, d)
    BY <2>1, <2>3, AboveReflexive DEF SeenRoots, OwnRoot
  <2>5. todo[p] = {}
    BY <2>1 DEF IInv, Session, Calls
  <2>6. Session(p)'
    BY <2>1, <2>3, <2>4, <2>5, Values
       DEF Session, Calls, OnPath, Handing, HandedOut, Deleting, Untouched
  <2>7. ASSUME NEW q \in Procs \ {p} PROVE Exclusive(p, q)' /\ Exclusive(q, p)'
    <3>1. Exclusive(p, q) /\ Exclusive(q, p)
      BY DEF IInv
    <3>2. rootTx[q] # "none" => req[q].dir # d
      BY <1>2 DEF RootRowFree
    <3>3. rootTx'[q] = rootTx[q] /\ req' = req /\ aclTx' = aclTx
      BY <1>2 DEF IInv, TypeOK
    <3> QED
      BY <2>3, <3>1, <3>2, <3>3 DEF Exclusive
  <2> QED
    BY <1>2, <2>2, <2>6, <2>7, LocalStep DEF IInv, TypeOK, Goto
<1> QED
  BY <1>1, <1>2 DEF EnsureRoot

\* The delete waits for those who hand the ACL out, and takes the rows that
\* refer to it along.
LEMMA DeleteRootKeeps ==
  ASSUME IInv, NEW p \in Procs, DeleteRoot(p)
  PROVE  IInv'
<1> DEFINE d == req[p].dir
<1>1. CASE d \notin roots /\ Abort(p)
  BY <1>1, AbortKeeps
<1>2. CASE /\ d \in roots /\ RootRowFree(p, d) /\ NotShared(p, d)
           /\ \A x \in RowsOf(d) : AclRowFree(p, x)
           /\ rootTx' = [rootTx EXCEPT ![p] = "delete"]
           /\ aclTx' = [aclTx EXCEPT ![p] =
                          [x \in Dirs |-> IF x \in RowsOf(d) THEN NoDir ELSE Same]]
           /\ Goto(p, "nearest")
           /\ UNCHANGED <<tables, req, dirTx, acl, at, todo>>
  <2>1. pc[p] = "unroot" /\ req[p] \in Request /\ d \in Dirs
        /\ acl[p] = NoDir /\ todo[p] = {}
    BY DEF DeleteRoot, IInv, Session, Calls, Request
  <2>2. TypeOK'
    BY <1>2 DEF IInv, TypeOK, Goto, Pcs, tables
  <2>3. /\ pc'[p] = "nearest" /\ rootTx'[p] = "delete" /\ acl'[p] = NoDir /\ todo'[p] = {}
        /\ req'[p] = req[p] /\ aclOf' = aclOf
    BY <1>2, <2>1 DEF IInv, TypeOK, Goto, tables
  <2>4. aclTx'[p] = [x \in Dirs |-> IF x \in RowsOf(d) THEN NoDir ELSE Same]
    BY <1>2 DEF IInv, TypeOK
  <2>5. req[p].op = "remove"
    BY <2>1 DEF IInv, Session, Calls
  <2>6. ASSUME NEW x \in Dirs
        PROVE  aclTx'[p][x] \in {NoDir, Same} /\ (aclOf[x] = d => aclTx'[p][x] # Same)
    <3>1. aclTx'[p][x] = IF x \in RowsOf(d) THEN NoDir ELSE Same
      BY <2>4
    <3>2. aclOf[x] = d => x \in RowsOf(d)
      BY DEF RowsOf
    <3> QED
      BY <3>1, <3>2, Values
  <2>7. Session(p)'
    BY <2>1, <2>3, <2>5, <2>6, Values
       DEF Session, Calls, OnPath, Handing, HandedOut, Deleting
  <2>8. ASSUME NEW q \in Procs \ {p} PROVE Exclusive(p, q)' /\ Exclusive(q, p)'
    <3>1. rootTx'[q] = rootTx[q] /\ req' = req /\ aclTx'[q] = aclTx[q]
      BY <1>2 DEF IInv, TypeOK
    <3>2. rootTx[q] # "none" => req[q].dir # d
      BY <1>2 DEF RootRowFree
    <3>3. \A x \in Dirs : aclTx[q][x] # d
      BY <1>2 DEF NotShared
    <3>4. rootTx[q] # "none" => req[q].dir \in Dirs
      BY DEF IInv, Session, Calls, Request
    <3>5. \A x \in Dirs : rootTx[q] # "none" => aclTx'[p][x] # req[q].dir
      BY <2>6, <3>4, Values
    <3> QED
      BY <2>3, <3>1, <3>2, <3>3, <3>5 DEF Exclusive
  <2> QED
    BY <1>2, <2>2, <2>7, <2>8, LocalStep DEF IInv, TypeOK, Goto
<1> QED
  BY <1>1, <1>2 DEF DeleteRoot

\* The ACL found belongs to an ancestor.
LEMMA NearestRootKeeps ==
  ASSUME IInv, NEW p \in Procs, NearestRoot(p)
  PROVE  IInv'
<1> DEFINE d == req[p].dir
<1>1. /\ pc[p] = "nearest" /\ req[p] \in Request /\ d \in Dirs /\ req[p].op = "remove"
      /\ todo[p] = {} /\ acl[p] = NoDir
  BY DEF NearestRoot, IInv, Session, Calls, Request
<1>2. CASE Goto(p, "commit") /\ UNCHANGED <<acl, at>>
  <2>1. TypeOK' /\ pc'[p] = "commit"
    BY <1>2 DEF NearestRoot, IInv, TypeOK, Goto, Pcs, tables, tx
  <2>2. Session(p)'
    BY <1>1, <1>2, <2>1, Values
       DEF NearestRoot, IInv, Session, Calls, OnPath, Handing, HandedOut, Deleting,
           SeenRoots, OwnRoot, tables, tx
  <2> QED
    BY <1>2, <2>1, <2>2, ReadingStep DEF NearestRoot, IInv, TypeOK, Goto, tables, tx
<1>3. ASSUME NEW a \in NearestAbove(p, d), acl' = [acl EXCEPT ![p] = a],
             at' = [at EXCEPT ![p] = d], Goto(p, "check")
      PROVE  IInv'
  <2>1. a \in SeenRoots(p) /\ IsAbove(a, d) /\ a \in Dirs
    BY <1>1 DEF NearestAbove, Deepest, Above, SeenRoots, OwnRoot, IInv, TypeOK
  <2>2. TypeOK'
    BY <1>1, <1>3, <2>1 DEF NearestRoot, IInv, TypeOK, Goto, Pcs, tables, tx
  <2>3. pc'[p] = "check" /\ acl'[p] = a /\ at'[p] = d
    BY <1>3 DEF IInv, TypeOK, Goto
  <2>4. UNCHANGED <<req, rootTx, aclTx, todo, roots, aclOf>>
    BY DEF NearestRoot, tables, tx
  <2>5. Session(p)'
    BY <1>1, <2>1, <2>3, <2>4
       DEF IInv, Session, Calls, OnPath, Handing, HandedOut, Deleting, SeenRoots, OwnRoot
  <2> QED
    BY <1>3, <2>2, <2>5, ReadingStep DEF NearestRoot, IInv, TypeOK, Goto, tables, tx
<1> QED
  BY <1>2, <1>3 DEF NearestRoot

\* The loop of mkdir(): the ACL it starts with is that of "/", ...
LEMMA TopAclKeeps ==
  ASSUME IInv, NEW p \in Procs, TopAcl(p)
  PROVE  IInv'
<1>1. /\ pc[p] = "root" /\ req[p] \in Request /\ req[p].op = "mkdir" /\ at[p] = Top
      /\ IsAbove(at[p], req[p].dir) /\ todo[p] = {} /\ NextPart(p)
      /\ UNCHANGED <<req, dirTx, rootTx, aclTx, todo, exists, roots, aclOf>>
      /\ acl' = [acl EXCEPT ![p] = RootAcl(p, Top)]
  BY DEF TopAcl, IInv, Session, Calls, OnPath, tables, tx
<1>2. /\ pc' \in [Procs -> Pcs] /\ at' \in [Procs -> Dirs]
      /\ pc'[p] \in {"commit", "find"}
      /\ IsAbove(at'[p], req[p].dir)
      /\ \A q \in Procs \ {p} : pc'[q] = pc[q] /\ at'[q] = at[q]
  BY <1>1, NextPartKeeps DEF IInv
<1>3. TypeOK'
  BY <1>1, <1>2, TopIsDir DEF RootAcl, IInv, TypeOK
<1>4. acl'[p] = RootAcl(p, Top) /\ \A q \in Procs \ {p} : acl'[q] = acl[q]
  BY <1>1 DEF IInv, TypeOK
<1>5. acl'[p] \in Dirs => acl'[p] = Top /\ Top \in SeenRoots(p)
  BY <1>4, Values DEF RootAcl
<1>6. IsAbove(Top, at'[p])
  BY <1>2, TopAbove
<1>7. Session(p)'
  BY <1>1, <1>2, <1>5, <1>6
     DEF IInv, Session, Calls, OnPath, Handing, HandedOut, Deleting, SeenRoots, OwnRoot
<1> QED
  BY <1>1, <1>2, <1>3, <1>4, <1>7, ReadingStep DEF tables

\* ... it passes the directories that exist, ...
LEMMA FindDirKeeps ==
  ASSUME IInv, NEW p \in Procs, FindDir(p)
  PROVE  IInv'
<1>1. /\ pc[p] = "find" /\ req[p] \in Request /\ req[p].op = "mkdir"
      /\ IsAbove(at[p], req[p].dir)
      /\ UNCHANGED <<req, dirTx, rootTx, aclTx, acl, todo, exists, roots, aclOf>>
  BY DEF FindDir, IInv, Session, Calls, OnPath, tables, tx
<1>2. /\ pc' \in [Procs -> Pcs] /\ at' \in [Procs -> Dirs]
      /\ pc'[p] \in {"commit", "find", "insert"}
      /\ IsAbove(at'[p], req[p].dir) /\ IsAbove(at[p], at'[p])
      /\ \A q \in Procs \ {p} : pc'[q] = pc[q] /\ at'[q] = at[q]
  <2>1. CASE NextPart(p)
    BY <1>1, <2>1, NextPartKeeps DEF IInv
  <2>2. CASE Goto(p, "insert") /\ UNCHANGED at
    BY <1>1, <2>2, AboveReflexive DEF IInv, TypeOK, Goto, Pcs
  <2> QED
    BY <2>1, <2>2 DEF FindDir
<1>3. TypeOK'
  BY <1>1, <1>2 DEF IInv, TypeOK
<1>4. acl[p] \in Dirs => IsAbove(acl[p], at'[p])
  BY <1>1, <1>2, AboveTransitive DEF IInv, TypeOK, Session, Handing
<1>5. Session(p)'
  BY <1>1, <1>2, <1>4
     DEF IInv, Session, Calls, OnPath, Handing, HandedOut, Deleting, SeenRoots, OwnRoot
<1> QED
  BY <1>1, <1>2, <1>3, <1>5, ReadingStep DEF tables

\* ... and takes the ACL of a directory that it finds when it inserts it.
LEMMA InsertDirKeeps ==
  ASSUME IInv, NEW p \in Procs, InsertDir(p)
  PROVE  IInv'
<1>1. /\ pc[p] = "insert" /\ req[p] \in Request /\ req[p].op = "mkdir"
      /\ at[p] \in Dirs /\ IsAbove(at[p], req[p].dir) /\ IsAbove(at[p], at[p])
      /\ dirTx' = [dirTx EXCEPT ![p] = @ \cup {at[p]}]
      /\ acl' = [acl EXCEPT ![p] = IF acl[p] = NoDir THEN RootAcl(p, at[p]) ELSE acl[p]]
      /\ UNCHANGED <<req, rootTx, aclTx, todo, exists, roots, aclOf>>
  BY AboveReflexive DEF InsertDir, IInv, TypeOK, Session, Calls, OnPath, tables
<1>2. /\ pc' \in [Procs -> Pcs] /\ at' \in [Procs -> Dirs]
      /\ pc'[p] \in {"commit", "find", "check"}
      /\ IsAbove(at'[p], req[p].dir) /\ IsAbove(at[p], at'[p])
      /\ \A q \in Procs \ {p} : pc'[q] = pc[q] /\ at'[q] = at[q]
  <2>1. CASE NextPart(p)
    BY <1>1, <2>1, NextPartKeeps DEF IInv
  <2>2. CASE Goto(p, "check") /\ UNCHANGED at
    BY <1>1, <2>2 DEF IInv, TypeOK, Goto, Pcs
  <2> QED
    BY <2>1, <2>2 DEF InsertDir
<1>3. TypeOK'
  <2>1. dirTx' \in [Procs -> SUBSET Dirs] /\ acl' \in [Procs -> Dirs \cup {NoDir, Gone}]
    BY <1>1 DEF RootAcl, IInv, TypeOK
  <2> QED
    BY <1>1, <1>2, <2>1 DEF IInv, TypeOK
<1>4. /\ acl'[p] = IF acl[p] = NoDir THEN RootAcl(p, at[p]) ELSE acl[p]
      /\ \A q \in Procs \ {p} : acl'[q] = acl[q]
  BY <1>1 DEF IInv, TypeOK
<1>5. acl'[p] \in Dirs => acl'[p] \in SeenRoots(p) /\ IsAbove(acl'[p], at'[p])
  <2>1. CASE acl[p] = NoDir
    BY <1>1, <1>2, <1>4, <2>1, Values DEF RootAcl
  <2>2. CASE acl[p] # NoDir
    BY <1>1, <1>2, <1>4, <2>2, AboveTransitive DEF IInv, TypeOK, Session, Handing
  <2> QED
    BY <2>1, <2>2
<1>6. todo[p] = {}
  BY <1>1 DEF IInv, Session, OnPath
<1>7. Session(p)'
  BY <1>1, <1>2, <1>5, <1>6
     DEF IInv, Session, Calls, OnPath, Handing, HandedOut, Deleting, SeenRoots, OwnRoot
<1> QED
  BY <1>1, <1>2, <1>3, <1>4, <1>7, ReadingStep DEF tables

\* setDirectoryAcl(): skipping a directory, ...
LEMMA CheckAclKeeps ==
  ASSUME IInv, NEW p \in Procs, CheckAcl(p)
  PROVE  IInv'
<1>1. /\ pc[p] = "check" /\ req[p] \in Request /\ OnPath(p) /\ Handing(p)
      /\ UNCHANGED <<req, dirTx, rootTx, aclTx, acl, exists, roots, aclOf>>
  BY DEF CheckAcl, IInv, Session, Calls, tables, tx
<1>2. CASE GoOn(p, {})
  <2>1. /\ pc' \in [Procs -> Pcs] /\ at' \in [Procs -> Dirs]
        /\ todo' \in [Procs -> SUBSET Dirs]
        /\ pc'[p] \in {"commit", "find", "check"} /\ OnPath(p)'
        /\ \A a \in Dirs :
             /\ IsAbove(a, at[p])
             /\ \A d \in todo[p] : IsAbove(a, d)
             => /\ pc'[p] \in {"find", "check"} => IsAbove(a, at'[p])
                /\ \A d \in todo'[p] : IsAbove(a, d)
        /\ \A q \in Procs \ {p} : pc'[q] = pc[q] /\ at'[q] = at[q] /\ todo'[q] = todo[q]
    BY <1>1, <1>2, GoOnKeeps DEF IInv
  <2>2. TypeOK'
    BY <1>1, <2>1 DEF IInv, TypeOK
  <2>3. Handing(p)'
    BY <1>1, <2>1 DEF Handing, SeenRoots, OwnRoot
  <2>4. Session(p)'
    BY <1>1, <2>1, <2>3 DEF IInv, Session, Calls, HandedOut, Deleting, SeenRoots, OwnRoot
  <2> QED
    BY <1>1, <2>1, <2>2, <2>4, ReadingStep DEF tables
<1>3. CASE Goto(p, "put") /\ UNCHANGED <<at, todo>>
  <2>1. TypeOK' /\ pc'[p] = "put"
    BY <1>1, <1>3 DEF IInv, TypeOK, Goto, Pcs
  <2>2. Session(p)'
    BY <1>1, <1>3, <2>1
       DEF IInv, Session, Calls, OnPath, Handing, HandedOut, Deleting, SeenRoots, OwnRoot
  <2> QED
    BY <1>1, <1>3, <2>1, <2>2, ReadingStep DEF IInv, TypeOK, Goto, tables
<1> QED
  BY <1>2, <1>3 DEF CheckAcl

\* ... or handing it the ACL, unless that is being deleted, and going on to
\* its children.
LEMMA PutAclKeeps ==
  ASSUME IInv, NEW p \in Procs, PutAcl(p)
  PROVE  IInv'
<1>1. CASE ~AclIsThere(p) /\ Abort(p)
  BY <1>1, AbortKeeps
<1>2. CASE /\ AclIsThere(p) /\ NotBeingDeleted(p, acl[p])
           /\ aclTx' = [aclTx EXCEPT ![p][at[p]] = acl[p]]
           /\ GoOn(p, Heirs(p, at[p]))
           /\ UNCHANGED <<tables, req, dirTx, rootTx, acl>>
  <2>1. /\ pc[p] = "put" /\ req[p] \in Request /\ OnPath(p) /\ Handing(p)
        /\ at[p] \in Dirs /\ acl[p] \in Dirs \cup {NoDir}
    BY <1>2 DEF PutAcl, AclIsThere, IInv, TypeOK, Session, Calls
  <2>2. Heirs(p, at[p]) \in SUBSET Dirs
    BY DEF Heirs, SeenDirs, IInv, TypeOK
  <2>3. /\ pc' \in [Procs -> Pcs] /\ at' \in [Procs -> Dirs]
        /\ todo' \in [Procs -> SUBSET Dirs]
        /\ pc'[p] \in {"commit", "find", "check"} /\ OnPath(p)'
        /\ \A a \in Dirs :
             /\ IsAbove(a, at[p])
             /\ \A d \in todo[p] \cup Heirs(p, at[p]) : IsAbove(a, d)
             => /\ pc'[p] \in {"find", "check"} => IsAbove(a, at'[p])
                /\ \A d \in todo'[p] : IsAbove(a, d)
        /\ \A q \in Procs \ {p} : pc'[q] = pc[q] /\ at'[q] = at[q] /\ todo'[q] = todo[q]
    BY <1>2, <2>1, <2>2, GoOnKeeps DEF IInv
  <2>4. \A a \in Dirs : IsAbove(a, at[p]) => \A d \in Heirs(p, at[p]) : IsAbove(a, d)
    BY <2>1, <2>2, AboveChild DEF Heirs
  <2>5. /\ aclTx' \in [Procs -> [Dirs -> Dirs \cup {NoDir, Same}]]
        /\ \A d \in Dirs : aclTx'[p][d] = IF d = at[p] THEN acl[p] ELSE aclTx[p][d]
        /\ \A q \in Procs \ {p} : aclTx'[q] = aclTx[q]
    BY <1>2, <2>1 DEF IInv, TypeOK
  <2>6. TypeOK'
    BY <1>2, <2>3, <2>5 DEF IInv, TypeOK, tables
  <2>7. SeenRoots(p)' = SeenRoots(p) /\ req' = req /\ rootTx' = rootTx /\ acl' = acl /\ aclOf' = aclOf
    BY <1>2 DEF SeenRoots, OwnRoot, tables
  <2>8. Handing(p)'
    BY <2>1, <2>3, <2>4, <2>7 DEF Handing
  <2>9. HandedOut(p)'
    BY <2>1, <2>5, <2>7 DEF IInv, Session, Handing, HandedOut
  <2>10. Deleting(p)'
    BY <2>1, <2>5, <2>7, Values DEF IInv, Session, Deleting
  <2>11. Session(p)'
    BY <2>1, <2>3, <2>7, <2>8, <2>9, <2>10 DEF Session, Calls
  <2>12. ASSUME NEW q \in Procs \ {p} PROVE Exclusive(p, q)' /\ Exclusive(q, p)'
    <3>1. Exclusive(p, q) /\ Exclusive(q, p)
      BY DEF IInv
    <3>2. rootTx[q] = "delete" => req[q].dir # acl[p]
      BY <1>2 DEF NotBeingDeleted
    <3> QED
      BY <2>5, <2>7, <3>1, <3>2 DEF Exclusive
  <2> QED
    BY <1>2, <2>3, <2>5, <2>6, <2>7, <2>11, <2>12, LocalStep
<1> QED
  BY <1>1, <1>2 DEF PutAcl

-----------------------------------------------------------------------------
(* COMMIT.                                                                 *)

LEMMA CommitKeeps ==
  ASSUME IInv, NEW p \in Procs, Commit(p)
  PROVE  IInv'
<1> DEFINE gone == OwnRoot(p, "delete")
<1>1. /\ pc[p] = "commit" /\ req[p] \in Request /\ req[p].dir \in Dirs
      /\ exists' = SeenDirs(p) /\ roots' = SeenRoots(p)
      /\ aclOf' = [d \in Dirs |-> SeenAcl(p, d)]
  BY DEF Commit, IInv, Session, Calls, Request
<1>2. /\ \A q \in Procs \ {p} : acl'[q] = IF acl[q] \in gone THEN Gone ELSE acl[q]
      /\ acl'[p] = NoDir /\ acl' \in [Procs -> Dirs \cup {NoDir, Gone}]
  BY DEF Commit, IInv, TypeOK
<1>3. /\ pc'[p] = "idle" /\ rootTx'[p] = "none" /\ aclTx'[p] = Untouched
      /\ at'[p] = Top /\ todo'[p] = {}
      /\ \A q \in Procs \ {p} :
           /\ pc'[q] = pc[q] /\ req'[q] = req[q] /\ rootTx'[q] = rootTx[q]
           /\ aclTx'[q] = aclTx[q] /\ at'[q] = at[q] /\ todo'[q] = todo[q]
  BY DEF Commit, Close, Goto, IInv, TypeOK
<1>4. SeenRoots(p) \subseteq Dirs /\ SeenDirs(p) \subseteq Dirs
  BY <1>1 DEF SeenRoots, SeenDirs, OwnRoot, IInv, TypeOK
<1>5. \A d \in Dirs : SeenAcl(p, d) \in Dirs \cup {NoDir}
  BY DEF SeenAcl, IInv, TypeOK
<1>6. TypeOK'
  <2>1. /\ pc' \in [Procs -> Pcs] /\ req' \in [Procs -> Request \cup {NoReq}]
        /\ dirTx' \in [Procs -> SUBSET Dirs]
        /\ rootTx' \in [Procs -> {"none", "put", "delete"}]
        /\ aclTx' \in [Procs -> [Dirs -> Dirs \cup {NoDir, Same}]]
        /\ at' \in [Procs -> Dirs] /\ todo' \in [Procs -> SUBSET Dirs]
    BY TopIsDir DEF Commit, Close, Goto, IInv, TypeOK, Pcs, Untouched
  <2> QED
    BY <1>1, <1>2, <1>4, <1>5, <2>1 DEF TypeOK
\* A row keeps its ACL only if the transaction has not deleted it; an ACL it
\* has handed out is one it sees.
<1>7. ASSUME NEW d \in Dirs, SeenAcl(p, d) # NoDir
      PROVE  SeenAcl(p, d) \in SeenRoots(p) /\ IsAbove(SeenAcl(p, d), d)
  <2>1. CASE aclTx[p][d] = Same
    <3>1. SeenAcl(p, d) = aclOf[d] /\ aclOf[d] \in roots /\ IsAbove(aclOf[d], d)
      BY <1>7, <2>1 DEF SeenAcl, IInv, AclInScope
    <3>2. aclOf[d] \notin gone
      BY <2>1 DEF OwnRoot, IInv, Session, Deleting
    <3> QED
      BY <3>1, <3>2 DEF SeenRoots
  <2>2. CASE aclTx[p][d] # Same
    BY <1>5, <1>7, <2>2 DEF SeenAcl, IInv, Session, HandedOut
  <2> QED
    BY <2>1, <2>2
<1>8. AclInScope'
  BY <1>1, <1>7 DEF AclInScope
<1>9. Session(p)'
  BY <1>2, <1>3, Values
     DEF Session, Calls, OnPath, Handing, HandedOut, Deleting, Untouched
\* The others lose at most the ACL that was deleted, which they do not hand out.
<1>10. ASSUME NEW q \in Procs \ {p}, NEW a \in SeenRoots(q), a \notin gone
       PROVE  a \in SeenRoots(q)'
  BY <1>1, <1>3, <1>10 DEF SeenRoots, OwnRoot
<1>11. ASSUME NEW q \in Procs \ {p} PROVE Session(q)'
  <2>1. Session(q) /\ Exclusive(p, q) /\ Exclusive(q, p)
    BY DEF IInv
  <2>2. Calls(q)' /\ OnPath(q)'
    <3>1. acl[q] = NoDir => acl'[q] = NoDir
      BY <1>1, <1>2, Values DEF OwnRoot
    <3> QED
      BY <1>3, <2>1, <3>1 DEF Session, Calls, OnPath
  <2>3. Handing(q)'
    BY <1>2, <1>3, <1>10, <2>1, Values DEF Session, Handing
  <2>4. \A d \in Dirs : aclTx[q][d] \notin gone
    BY <2>1 DEF Exclusive, OwnRoot
  <2>5. HandedOut(q)'
    BY <1>3, <1>10, <2>1, <2>4 DEF Session, HandedOut
  <2>6. Deleting(q)'
    <3> SUFFICES ASSUME rootTx[q] = "delete", NEW d \in Dirs, SeenAcl(p, d) = req[q].dir
                 PROVE  aclTx[q][d] # Same
      BY <1>1, <1>3 DEF Deleting
    <3>1. aclTx[p][d] # req[q].dir
      BY <2>1 DEF Exclusive
    <3> QED
      BY <2>1, <3>1 DEF SeenAcl, Session, Deleting
  <2> QED
    BY <2>2, <2>3, <2>5, <2>6 DEF Session
<1>12. ASSUME NEW q \in Procs, NEW r \in Procs \ {q} PROVE Exclusive(q, r)'
  <2>1. Exclusive(q, r)
    BY DEF IInv
  <2>2. CASE q = p
    BY <1>3, <2>2 DEF Exclusive
  <2>3. CASE r = p
    <3>1. rootTx[q] # "none" => req[q].dir \in Dirs
      BY DEF IInv, Session, Calls, Request
    <3> QED
      BY <1>3, <2>3, <3>1, Values DEF Exclusive, Untouched
  <2>4. CASE q # p /\ r # p
    BY <1>3, <2>1, <2>4 DEF Exclusive
  <2> QED
    BY <2>2, <2>3, <2>4
<1> QED
  BY <1>6, <1>8, <1>9, <1>11, <1>12 DEF IInv

-----------------------------------------------------------------------------

LEMMA InitIInv == Init => IInv
<1> SUFFICES ASSUME Init PROVE IInv
  OBVIOUS
<1> USE DEF Init
<1>1. TypeOK
  BY ConstantsAssumption, TopIsDir DEF TypeOK, Pcs, Untouched, ConstantsAssumption
<1>2. AclInScope
  BY DEF AclInScope
<1>3. \A p \in Procs : Session(p)
  BY Values DEF Session, Calls, OnPath, Handing, HandedOut, Deleting, Untouched
<1>4. \A p \in Procs : \A q \in Procs \ {p} : Exclusive(p, q)
  BY DEF Exclusive
<1> QED
  BY <1>1, <1>2, <1>3, <1>4 DEF IInv

LEMMA NextIInv == IInv /\ [Next]_vars => IInv'
<1> SUFFICES ASSUME IInv, [Next]_vars PROVE IInv'
  OBVIOUS
<1>1. ASSUME NEW p \in Procs, Submit(p) \/ Step(p) \/ Fail(p) PROVE IInv'
  <2>1. CASE Submit(p)
    BY <2>1, SubmitKeeps
  <2>2. CASE EnsureRoot(p)
    BY <2>2, EnsureRootKeeps
  <2>3. CASE DeleteRoot(p)
    BY <2>3, DeleteRootKeeps
  <2>4. CASE NearestRoot(p)
    BY <2>4, NearestRootKeeps
  <2>5. CASE TopAcl(p)
    BY <2>5, TopAclKeeps
  <2>6. CASE FindDir(p)
    BY <2>6, FindDirKeeps
  <2>7. CASE InsertDir(p)
    BY <2>7, InsertDirKeeps
  <2>8. CASE CheckAcl(p)
    BY <2>8, CheckAclKeeps
  <2>9. CASE PutAcl(p)
    BY <2>9, PutAclKeeps
  <2>10. CASE Commit(p)
    BY <2>10, CommitKeeps
  <2>11. CASE Fail(p)
    BY <2>11, AbortKeeps DEF Fail
  <2> QED
    BY <1>1, <2>1, <2>2, <2>3, <2>4, <2>5, <2>6, <2>7, <2>8, <2>9, <2>10, <2>11 DEF Step
<1>2. CASE UNCHANGED vars
  <2>1. UNCHANGED <<exists, roots, aclOf, pc, req, dirTx, rootTx, aclTx, acl, at, todo>>
    BY <1>2 DEF vars, tables, tx
  <2> QED
    BY <2>1 DEF IInv, TypeOK, AclInScope, Session, Calls, OnPath, Handing, HandedOut,
                Deleting, Exclusive, SeenRoots, OwnRoot
<1> QED
  BY <1>1, <1>2 DEF Next

\* The ACL that governs a directory is there and belongs to the directory or
\* to an ancestor: for any tree, any number of sessions, any calls and failures.
THEOREM AclsInScope == Spec => []AclInScope
<1>1. IInv => AclInScope
  BY DEF IInv
<1> QED
  BY <1>1, InitIInv, NextIInv, PTL DEF Spec

\* The values of the variables, from the same invariant.
THEOREM AclTypes == Spec => []TypeOK
<1>1. IInv => TypeOK
  BY DEF IInv
<1> QED
  BY <1>1, InitIInv, NextIInv, PTL DEF Spec

-----------------------------------------------------------------------------
(* What setDirectoryAcl() and removeRootDirectoryAcl() compute, statement  *)
(* by statement: the invariant of their walk over the tree, and the proof  *)
(* of ExistingInherit for a session that changes ACLs next to one that     *)
(* creates directories.                                                    *)

\* Of any two sessions at most one changes ACLs, and at most one creates
\* directories: two that create the same one may take its ACL away again.
OneOfEach ==
  \A p, q \in Procs : p # q =>
    /\ (\A r \in Requests[p] : r.op = "mkdir") \/ (\A r \in Requests[q] : r.op = "mkdir")
    /\ (\A r \in Requests[p] : r.op # "mkdir") \/ (\A r \in Requests[q] : r.op # "mkdir")

\* Governs, for any set of directories with an ACL of their own.
Nearest(R, a, e) ==
  IF \E r \in R : IsAbove(r, e)
    THEN a \in R /\ IsAbove(a, e) /\ \A r \in R : IsAbove(r, e) => IsAbove(r, a)
    ELSE a = NoDir

\* Nobody from R stands between x and e: e inherits what x has.
Clear(R, x, e) == IsAbove(x, e) /\ \A r \in R : IsAbove(x, r) /\ IsAbove(r, e) => r = x

\* As p's transaction sees it, e has the ACL it should have; or it waits for x,
\* which the walk has still to visit.
Right(p, e) == Nearest(SeenRoots(p), SeenAcl(p, e), e)
WaitsFor(p, x, e) == (e \in Existing \/ e = x) /\ Clear(SeenRoots(p), x, e)

\* The directories the walk has before it.
Frontier(p) ==
  IF pc[p] = "nearest" THEN {req[p].dir}
  ELSE IF pc[p] \in {"check", "put"} THEN {at[p]} \cup todo[p]
  ELSE {}

\* Every directory is right or will be, ...
Covered(p) ==
  pc[p] \in {"nearest", "check", "put", "commit"} =>
    \A e \in Existing \cup SeenRoots(p) : Right(p, e) \/ \E x \in Frontier(p) : WaitsFor(p, x, e)
\* ... those that wait for one have the ACL it has, so that the walk may skip
\* them with it, ...
Uniform(p) ==
  \A x \in Frontier(p) : \A e \in Existing :
    WaitsFor(p, x, e) => SeenAcl(p, e) = SeenAcl(p, x)
\* ... no two are on one path, so that none is visited twice, ...
Spread(p) ==
  /\ \A x, y \in Frontier(p) : IsAbove(x, y) => x = y
  /\ pc[p] \in {"check", "put"} => at[p] \notin todo[p]
\* ... and the ACL in hand is the one for all of them.
InHand(p) == pc[p] \in {"check", "put"} => \A x \in Frontier(p) : Nearest(SeenRoots(p), acl[p], x)

Change(p) ==
  /\ dirTx[p] = {}
  /\ rootTx[p] # "none" => req[p].dir \in exists
  /\ pc[p] = "nearest" => rootTx[p] = "delete" /\ SeenAcl(p, req[p].dir) = NoDir
  /\ Covered(p) /\ Uniform(p) /\ Spread(p) /\ InHand(p)

\* mkdir() touches nothing but the directories it creates itself.
Create(p) ==
  /\ rootTx[p] = "none" /\ pc[p] \notin {"ensure", "unroot", "nearest"}
  /\ dirTx[p] \cap exists = {}
  /\ pc[p] = "insert" => at[p] \notin exists
  /\ pc[p] \in {"check", "put"} => at[p] \in dirTx[p]
  /\ \A e \in Dirs : aclTx[p][e] # Same => e \in dirTx[p]

Call(p) ==
  /\ pc[p] = "idle" => dirTx[p] = {}
  /\ pc[p] # "idle" =>
       /\ req[p] \in Requests[p]
       /\ req[p].op = "mkdir" => Create(p)
       /\ req[p].op # "mkdir" => Change(p)

Inherit ==
  /\ ExistingInherit
  /\ Existing \subseteq exists /\ roots \subseteq exists
  /\ \A p \in Procs : Call(p)

-----------------------------------------------------------------------------
(* Paths.                                                                  *)

LEMMA AboveAntisymmetric == \A a, b \in Dirs : IsAbove(a, b) /\ IsAbove(b, a) => a = b
<1> SUFFICES ASSUME NEW a \in Dirs, NEW b \in Dirs, IsAbove(a, b), IsAbove(b, a)
             PROVE  a = b
  OBVIOUS
<1>1. a \in Seq(Names) /\ b \in Seq(Names) /\ Len(a) = Len(b) /\ \A i \in 1..Len(a) : a[i] = b[i]
  BY DirsAreSeqs DEF IsAbove
<1> QED
  BY <1>1

\* The directories above one are in a line.
LEMMA AboveLinear ==
  \A a, b, e \in Dirs : IsAbove(a, e) /\ IsAbove(b, e) => IsAbove(a, b) \/ IsAbove(b, a)
  BY DirsAreSeqs DEF IsAbove

LEMMA ExistingAreDirs == \A e \in Existing : e \in Dirs
  BY ConstantsAssumption DEF ConstantsAssumption

\* What is above a directory of the start is one of them.
LEMMA ExistingClosed == \A e \in Existing, x \in Dirs : IsAbove(x, e) => x \in Existing
<1> SUFFICES ASSUME NEW e \in Existing, NEW x \in Dirs, IsAbove(x, e)
             PROVE  x \in Existing
  OBVIOUS
<1>1. /\ x \in Seq(Names) /\ e \in Seq(Names) /\ Len(x) \in Nat /\ Len(e) \in Nat
      /\ Len(x) <= Len(e) /\ \A i \in 1..Len(x) : x[i] = e[i]
  BY DirsAreSeqs, ExistingAreDirs DEF IsAbove
<1>2. SubSeq(e, 1, Len(x)) \in Existing
  BY <1>1, ConstantsAssumption DEF ConstantsAssumption
<1>3. /\ SubSeq(e, 1, Len(x)) \in Seq(Names) /\ Len(SubSeq(e, 1, Len(x))) = Len(x)
      /\ \A i \in 1..Len(x) : SubSeq(e, 1, Len(x))[i] = x[i]
  BY <1>1
<1>4. SubSeq(e, 1, Len(x)) = x
  BY <1>1, <1>3
<1> QED
  BY <1>2, <1>4

\* The child of x on the way to e.
LEMMA ChildTowards ==
  ASSUME NEW x \in Dirs, NEW e \in Dirs, IsAbove(x, e), x # e
  PROVE  \E n \in Dirs : n # Top /\ Parent(n) = x /\ IsAbove(n, e)
<1> DEFINE n == SubSeq(e, 1, Len(x) + 1)
<1>1. n \in Dirs /\ IsAbove(n, e) /\ IsAbove(x, n)
  BY NextAbove
<1>2. /\ x \in Seq(Names) /\ e \in Seq(Names) /\ n \in Seq(Names)
      /\ Len(x) \in Nat /\ Len(e) \in Nat /\ Len(n) \in Nat
  BY <1>1, DirsAreSeqs
<1>3. Len(x) <= Len(n) /\ \A i \in 1..Len(x) : x[i] = n[i]
  BY <1>1 DEF IsAbove
<1>4. Len(x) < Len(e)
  <2> SUFFICES ASSUME Len(x) = Len(e) PROVE FALSE
    BY <1>2 DEF IsAbove
  <2> QED
    BY <1>2 DEF IsAbove
<1>5. Len(n) = Len(x) + 1
  BY <1>2, <1>4
<1> HIDE DEF n
<1>6. n # Top /\ Len(Parent(n)) = Len(x) /\ Parent(n) \in Seq(Names)
      /\ \A i \in 1..Len(x) : Parent(n)[i] = n[i]
  BY <1>2, <1>5 DEF Parent, Top
<1>7. Parent(n) = x
  BY <1>2, <1>3, <1>6
<1> QED
  BY <1>1, <1>6, <1>7

\* A child is below its parent, and nothing is between them.
LEMMA Child ==
  ASSUME NEW x \in Dirs, NEW c \in Dirs, c # Top, Parent(c) = x
  PROVE  /\ IsAbove(x, c) /\ ~IsAbove(c, x)
         /\ \A r \in Dirs : IsAbove(x, r) /\ IsAbove(r, c) => r = x \/ r = c
<1>1. /\ x \in Seq(Names) /\ c \in Seq(Names) /\ Len(x) \in Nat /\ Len(c) \in Nat /\ Len(c) > 0
  BY DirsAreSeqs DEF Top
<1>2. Len(x) = Len(c) - 1 /\ \A i \in 1..(Len(c) - 1) : x[i] = c[i]
  BY <1>1 DEF Parent
<1>3. IsAbove(x, c) /\ ~IsAbove(c, x)
  BY <1>1, <1>2 DEF IsAbove
<1>4. ASSUME NEW r \in Dirs, IsAbove(x, r), IsAbove(r, c) PROVE r = x \/ r = c
  <2>1. r \in Seq(Names) /\ Len(r) \in Nat
    BY DirsAreSeqs
  <2>2. Len(r) = Len(x) \/ Len(r) = Len(c)
    BY <1>1, <1>2, <1>4, <2>1 DEF IsAbove
  <2>3. CASE Len(r) = Len(x)
    BY <1>1, <1>4, <2>1, <2>3 DEF IsAbove
  <2>4. CASE Len(r) = Len(c)
    BY <1>1, <1>4, <2>1, <2>4 DEF IsAbove
  <2> QED
    BY <2>2, <2>3, <2>4
<1> QED
  BY <1>3, <1>4

\* Children of one directory are not above each other.
LEMMA Siblings ==
  ASSUME NEW x \in Dirs, NEW c \in Dirs, NEW d \in Dirs,
         c # Top, Parent(c) = x, d # Top, Parent(d) = x, IsAbove(c, d)
  PROVE  c = d
  BY Child

-----------------------------------------------------------------------------
(* The nearest ACL.                                                        *)

LEMMA NearestUnique ==
  ASSUME NEW R \in SUBSET Dirs, NEW e \in Dirs, NEW a, NEW b, Nearest(R, a, e), Nearest(R, b, e)
  PROVE  a = b
  BY AboveAntisymmetric DEF Nearest

\* One that nobody stands between inherits.
LEMMA NearestInherited ==
  ASSUME NEW R \in SUBSET Dirs, NEW x \in Dirs, NEW e \in Dirs, NEW a,
         Clear(R, x, e), Nearest(R, a, x)
  PROVE  Nearest(R, a, e)
<1>1. \A r \in R : IsAbove(r, e) <=> IsAbove(r, x)
  BY AboveLinear, AboveTransitive, AboveReflexive DEF Clear
<1> QED
  BY <1>1 DEF Nearest

LEMMA OwnIsNearest ==
  ASSUME NEW R \in SUBSET Dirs, NEW e \in R
  PROVE  Nearest(R, e, e)
  BY AboveReflexive DEF Nearest

\* One more ACL, or one less, is nothing to those that have one below it, or
\* that are not below it.
LEMMA NearestWithout ==
  ASSUME NEW R \in SUBSET Dirs, NEW d \in Dirs, NEW e \in Dirs, NEW a,
         ~Clear(R, d, e)
  PROVE  /\ Nearest(R, a, e) => Nearest(R \cup {d}, a, e)
         /\ Nearest(R, a, e) => a # d /\ Nearest(R \ {d}, a, e)
<1>1. CASE ~IsAbove(d, e)
  BY <1>1, Values DEF Nearest
<1>2. CASE IsAbove(d, e)
  <2>1. PICK r \in R : IsAbove(d, r) /\ IsAbove(r, e) /\ r # d
    BY <1>2 DEF Clear
  <2> SUFFICES ASSUME Nearest(R, a, e)
               PROVE  a # d /\ Nearest(R \cup {d}, a, e) /\ Nearest(R \ {d}, a, e)
    OBVIOUS
  <2>2. a \in R /\ a \in Dirs /\ IsAbove(a, e) /\ IsAbove(r, a)
        /\ \A s \in R : IsAbove(s, e) => IsAbove(s, a)
    BY <2>1 DEF Nearest
  <2>3. IsAbove(d, a)
    BY <2>1, <2>2, AboveTransitive
  <2>4. a # d
    BY <2>1, <2>2, AboveAntisymmetric
  <2> QED
    BY <2>1, <2>2, <2>3, <2>4 DEF Nearest
<1> QED
  BY <1>1, <1>2

LEMMA LeastNatural ==
  ASSUME NEW T \in SUBSET Nat, T # {}
  PROVE  \E x \in T : \A y \in T : x <= y
<1>1. PICK x \in T : \A y \in T : ~(<<y, x>> \in OpToRel(<, Nat))
  BY NatLessThanWellFounded, WFMin
<1>2. \A y \in T : ~(y < x)
  BY <1>1 DEF OpToRel
<1> QED
  BY <1>2

\* The query for the ancestors finds the nearest ACL there is above d.
LEMMA DeepestIsNearest ==
  ASSUME NEW R \in SUBSET Dirs, NEW d \in Dirs, d \notin R
  PROVE  /\ \A a \in Deepest(Above(d, R)) : Nearest(R, a, d)
         /\ Deepest(Above(d, R)) = {} => \A r \in R : ~IsAbove(r, d)
<1>1. ASSUME NEW a \in Deepest(Above(d, R)) PROVE Nearest(R, a, d)
  <2>1. /\ a \in R /\ a \in Dirs /\ IsAbove(a, d)
        /\ \A b \in R : IsAbove(b, d) => Len(b) <= Len(a)
    BY DEF Deepest, Above
  <2>2. ASSUME NEW b \in R, IsAbove(b, d) PROVE IsAbove(b, a)
    <3>1. Len(b) <= Len(a) /\ b \in Dirs
      BY <2>1, <2>2
    <3>2. IsAbove(b, a) \/ IsAbove(a, b)
      BY <2>1, <2>2, <3>1, AboveLinear
    <3> QED
      BY <2>1, <3>1, <3>2, DirsAreSeqs DEF IsAbove
  <2> QED
    BY <2>1, <2>2 DEF Nearest
<1>2. ASSUME NEW r \in R, IsAbove(r, d) PROVE Deepest(Above(d, R)) # {}
  <2> DEFINE T == {Len(d) - Len(a) : a \in Above(d, R)}
  <2>1. r \in Above(d, R)
    BY <1>2 DEF Above
  <2>2. \A a \in Above(d, R) : Len(a) \in Nat /\ Len(d) - Len(a) \in Nat
    BY DirsAreSeqs DEF Above, IsAbove
  <2>3. T \in SUBSET Nat /\ T # {}
    BY <2>1, <2>2
  <2>4. \E x \in T : \A y \in T : x <= y
    <3> HIDE DEF T
    <3> QED
      BY <2>3, LeastNatural
  <2>5. PICK a \in Above(d, R) : \A y \in T : Len(d) - Len(a) <= y
    BY <2>4
  <2>6. ASSUME NEW b \in Above(d, R) PROVE Len(b) <= Len(a)
    <3>1. Len(d) - Len(a) <= Len(d) - Len(b)
      BY <2>5
    <3> QED
      BY <2>2, <3>1, DirsAreSeqs
  <2> QED
    BY <2>6 DEF Deepest
<1> QED
  BY <1>1, <1>2

-----------------------------------------------------------------------------
(* Sessions next to each other.                                            *)

LEMMA SeenRootsTyped ==
  ASSUME IInv, NEW p \in Procs
  PROVE  SeenRoots(p) \in SUBSET Dirs
  BY DEF SeenRoots, OwnRoot, IInv, TypeOK, Session, Calls, Request

\* Of two sessions that have a call, one changes ACLs and one creates.
LEMMA Roles ==
  ASSUME OneOfEach, IInv, Inherit, NEW p \in Procs, NEW q \in Procs \ {p},
         pc[p] # "idle", pc[q] # "idle"
  PROVE  req[p].op = "mkdir" <=> req[q].op # "mkdir"
  BY DEF OneOfEach, Inherit, Call

\* A session is not disturbed by a step that changes nothing of what it sees.
LEMMA Undisturbed ==
  ASSUME NEW q \in Procs, Call(q), UNCHANGED tables,
         pc'[q] = pc[q], req'[q] = req[q], dirTx'[q] = dirTx[q], rootTx'[q] = rootTx[q],
         aclTx'[q] = aclTx[q], acl'[q] = acl[q], at'[q] = at[q], todo'[q] = todo[q]
  PROVE  Call(q)'
<1>1. SeenRoots(q)' = SeenRoots(q) /\ Frontier(q)' = Frontier(q) /\ exists' = exists
  BY DEF SeenRoots, OwnRoot, Frontier, tables
<1>2. \A e : SeenAcl(q, e)' = SeenAcl(q, e)
  BY DEF SeenAcl, tables
<1>3. \A e : Right(q, e)' = Right(q, e)
  BY <1>1, <1>2 DEF Right
<1>4. \A x, e : WaitsFor(q, x, e)' = WaitsFor(q, x, e)
  BY <1>1 DEF WaitsFor
<1>5. Change(q) => Change(q)'
  <2> SUFFICES ASSUME Change(q) PROVE Change(q)'
    OBVIOUS
  <2>1. Covered(q)'
    BY <1>1, <1>3, <1>4 DEF Change, Covered
  <2>2. Uniform(q)'
    BY <1>1, <1>2, <1>4 DEF Change, Uniform
  <2>3. Spread(q)' /\ InHand(q)'
    BY <1>1 DEF Change, Spread, InHand
  <2> QED
    BY <1>1, <1>2, <2>1, <2>2, <2>3 DEF Change
<1>6. Create(q) => Create(q)'
  BY <1>1 DEF Create
<1> QED
  BY <1>5, <1>6 DEF Call

LEMMA LocalInherit ==
  ASSUME Inherit, NEW p \in Procs, UNCHANGED tables, Call(p)',
         \A q \in Procs \ {p} :
           /\ pc'[q] = pc[q] /\ req'[q] = req[q] /\ dirTx'[q] = dirTx[q]
           /\ rootTx'[q] = rootTx[q] /\ aclTx'[q] = aclTx[q]
           /\ acl'[q] = acl[q] /\ at'[q] = at[q] /\ todo'[q] = todo[q]
  PROVE  Inherit'
<1>1. \A q \in Procs \ {p} : Call(q)'
  BY Undisturbed DEF Inherit
<1>2. ExistingInherit' /\ (Existing \subseteq exists /\ roots \subseteq exists)'
  BY DEF Inherit, ExistingInherit, Governs, tables
<1> QED
  BY <1>1, <1>2 DEF Inherit

\* The other sessions' places and locals, at a step of p.
OthersStand(p) ==
  \A q \in Procs \ {p} :
    /\ pc'[q] = pc[q] /\ req'[q] = req[q] /\ dirTx'[q] = dirTx[q]
    /\ rootTx'[q] = rootTx[q] /\ aclTx'[q] = aclTx[q]
    /\ at'[q] = at[q] /\ todo'[q] = todo[q]

LEMMA OthersInStep ==
  ASSUME TypeOK, NEW p \in Procs, Submit(p) \/ Step(p) \/ Fail(p)
  PROVE  OthersStand(p) /\ (~Commit(p) => \A q \in Procs \ {p} : acl'[q] = acl[q])
<1> USE DEF OthersStand, TypeOK, Goto
<1>1. CASE Submit(p)
  BY <1>1 DEF Submit, tx
<1>2. CASE Abort(p)
  BY <1>2 DEF Abort, Close
<1>3. CASE EnsureRoot(p)
  BY <1>2, <1>3 DEF EnsureRoot
<1>4. CASE DeleteRoot(p)
  BY <1>2, <1>4 DEF DeleteRoot
<1>5. CASE NearestRoot(p)
  BY <1>5 DEF NearestRoot, tx
<1>6. CASE TopAcl(p) \/ FindDir(p) \/ InsertDir(p)
  BY <1>6 DEF TopAcl, FindDir, InsertDir, NextPart, tx
<1>7. CASE CheckAcl(p)
  BY <1>7 DEF CheckAcl, GoOn, NextPart, Visit, tx
<1>8. CASE PutAcl(p)
  BY <1>2, <1>8 DEF PutAcl, GoOn, NextPart, Visit
<1>9. CASE Commit(p)
  BY <1>9 DEF Commit, Close
<1> QED
  BY <1>1, <1>2, <1>3, <1>4, <1>5, <1>6, <1>7, <1>8, <1>9 DEF Step, Fail

-----------------------------------------------------------------------------
(* The walk.                                                               *)

LEMMA Base == Inherit => \A e \in Existing \cup roots : Nearest(roots, aclOf[e], e)
  BY DEF Inherit, ExistingInherit, Governs, Nearest

\* A session that leaves its call has nothing left to be said of it.
LEMMA AbortEnds ==
  ASSUME TypeOK, NEW p \in Procs, Abort(p)
  PROVE  Call(p)'
  BY DEF Abort, Close, Goto, TypeOK, Call

\* With an ACL of its own, the directory is the only one to be visited: those
\* that wait for it had the same ACL as it has.
LEMMA EnsureRootStarts ==
  ASSUME IInv, Inherit, NEW p \in Procs, EnsureRoot(p)
  PROVE  Call(p)'
<1>1. CASE Abort(p)
  BY <1>1, AbortEnds DEF IInv
<1>2. CASE ~Abort(p)
  <2> PICK d : d = req[p].dir
    OBVIOUS
  <2>1. /\ pc[p] = "ensure" /\ req[p] \in Request /\ d \in Dirs /\ d \in exists
        /\ rootTx' = [rootTx EXCEPT ![p] = "put"]
        /\ acl' = [acl EXCEPT ![p] = d] /\ at' = [at EXCEPT ![p] = d]
        /\ pc' = [pc EXCEPT ![p] = "check"]
        /\ UNCHANGED <<exists, roots, aclOf, req, dirTx, aclTx, todo>>
        /\ aclTx[p] = Untouched /\ todo[p] = {}
    BY <1>2 DEF EnsureRoot, Goto, IInv, Session, Calls, Request, tables
  <2>2. req[p] \in Requests[p] /\ req[p].op # "mkdir" /\ Change(p)
    BY <2>1 DEF Inherit, Call, Create
  <2>3. /\ pc'[p] = "check" /\ rootTx'[p] = "put" /\ acl'[p] = d /\ at'[p] = d
        /\ todo'[p] = {} /\ dirTx'[p] = {} /\ req'[p] = req[p] /\ aclTx'[p] = Untouched
    BY <2>1, <2>2 DEF IInv, TypeOK, Change
  <2>4. SeenRoots(p)' = roots \cup {d} /\ Frontier(p)' = {d}
    BY <2>1, <2>3 DEF SeenRoots, OwnRoot, Frontier
  <2>5. \A e \in Dirs : SeenAcl(p, e)' = aclOf[e]
    BY <2>1, <2>3 DEF SeenAcl, Untouched
  <2>6. roots \in SUBSET Dirs /\ Existing \subseteq Dirs
    BY ExistingAreDirs DEF IInv, TypeOK
  <2>7. IsAbove(d, d)
    BY <2>1, AboveReflexive
  <2>8. \A e : Clear(roots \cup {d}, d, e) <=> Clear(roots, d, e)
    BY DEF Clear
  <2>9. Covered(p)'
    <3> SUFFICES ASSUME NEW e \in Existing \cup roots \cup {d}
                 PROVE  Right(p, e)' \/ WaitsFor(p, d, e)'
      BY <2>4 DEF Covered
    <3>1. e \in Dirs
      BY <2>1, <2>6
    <3>2. CASE Clear(roots, d, e)
      <4>1. e \in Existing \/ e = d
        BY <2>6, <3>1, <3>2, AboveReflexive DEF Clear
      <4> QED
        BY <2>4, <2>8, <3>2, <4>1 DEF WaitsFor
    <3>3. CASE ~Clear(roots, d, e)
      <4>1. e # d
        BY <2>1, <2>6, <3>3, AboveReflexive, AboveAntisymmetric DEF Clear
      <4>2. PICK a : a = aclOf[e]
        OBVIOUS
      <4>3. Nearest(roots, a, e)
        BY <4>1, <4>2, Base
      <4>4. Nearest(roots \cup {d}, a, e)
        BY <2>6, <3>3, <4>3, <2>1, <3>1, NearestWithout
      <4> QED
        BY <2>4, <2>5, <3>1, <4>2, <4>4 DEF Right
    <3> QED
      BY <3>2, <3>3
  <2>10. Uniform(p)'
    <3> SUFFICES ASSUME NEW e \in Existing, Clear(roots, d, e)
                 PROVE  aclOf[e] = aclOf[d]
      BY <2>1, <2>4, <2>5, <2>6, <2>8 DEF Uniform, WaitsFor
    <3>1. d \in Existing
      BY <2>1, ExistingClosed DEF Clear
    <3>2. Nearest(roots, aclOf[d], d) /\ Nearest(roots, aclOf[e], e)
      BY <3>1, Base
    <3>3. Nearest(roots, aclOf[d], e)
      BY <2>1, <2>6, <3>2, NearestInherited
    <3> QED
      BY <2>6, <3>2, <3>3, NearestUnique
  <2>11. Spread(p)'
    BY <2>3, <2>4 DEF Spread
  <2>12. InHand(p)'
    <3>1. roots \cup {d} \in SUBSET Dirs /\ d \in roots \cup {d}
      BY <2>1, <2>6
    <3>2. Nearest(roots \cup {d}, d, d)
      BY <3>1, OwnIsNearest
    <3> QED
      BY <2>3, <2>4, <3>2 DEF InHand
  <2> QED
    BY <2>1, <2>2, <2>3, <2>9, <2>10, <2>11, <2>12 DEF Call, Change
<1> QED
  BY <1>1, <1>2

\* The cascade takes the ACL from exactly those that wait for the directory now.
LEMMA DeleteRootStarts ==
  ASSUME IInv, Inherit, NEW p \in Procs, DeleteRoot(p)
  PROVE  Call(p)'
<1>1. CASE Abort(p)
  BY <1>1, AbortEnds DEF IInv
<1>2. CASE ~Abort(p)
  <2> PICK d : d = req[p].dir
    OBVIOUS
  <2> DEFINE R == roots \ {d}
  <2>1. /\ pc[p] = "unroot" /\ req[p] \in Request /\ d \in Dirs /\ d \in roots
        /\ rootTx' = [rootTx EXCEPT ![p] = "delete"]
        /\ aclTx' = [aclTx EXCEPT ![p] =
                        [x \in Dirs |-> IF x \in RowsOf(d) THEN NoDir ELSE Same]]
        /\ pc' = [pc EXCEPT ![p] = "nearest"]
        /\ UNCHANGED <<exists, roots, aclOf, req, dirTx, acl, at, todo>>
    BY <1>2 DEF DeleteRoot, Goto, IInv, Session, Calls, Request, tables
  <2>2. req[p] \in Requests[p] /\ req[p].op # "mkdir" /\ Change(p)
    BY <2>1 DEF Inherit, Call, Create
  <2>3. /\ pc'[p] = "nearest" /\ rootTx'[p] = "delete" /\ dirTx'[p] = {} /\ req'[p] = req[p]
        /\ aclTx'[p] = [x \in Dirs |-> IF x \in RowsOf(d) THEN NoDir ELSE Same]
    BY <2>1, <2>2 DEF IInv, TypeOK, Change
  <2>4. SeenRoots(p)' = R /\ Frontier(p)' = {d}
    BY <2>1, <2>3 DEF SeenRoots, OwnRoot, Frontier
  <2>5. \A e \in Dirs : SeenAcl(p, e)' = IF aclOf[e] = d THEN NoDir ELSE aclOf[e]
    BY <2>1, <2>3, Values DEF SeenAcl, RowsOf
  <2>6. roots \in SUBSET Dirs /\ Existing \subseteq Dirs
    BY ExistingAreDirs DEF IInv, TypeOK
  <2>7. \A e : Clear(R, d, e) <=> Clear(roots, d, e)
    BY DEF Clear
  <2>8. \A e \in Existing : Clear(roots, d, e) => aclOf[e] = d
    <3> SUFFICES ASSUME NEW e \in Existing, Clear(roots, d, e) PROVE aclOf[e] = d
      OBVIOUS
    <3>1. Nearest(roots, d, e)
      BY <2>1, <2>6, OwnIsNearest, NearestInherited
    <3> QED
      BY <2>6, <3>1, Base, NearestUnique
  <2>9. aclOf[d] = d
    BY <2>1, <2>6, Base, OwnIsNearest, NearestUnique
  <2>10. Covered(p)'
    <3> SUFFICES ASSUME NEW e \in Existing \cup R
                 PROVE  Right(p, e)' \/ WaitsFor(p, d, e)'
      BY <2>4 DEF Covered
    <3>1. e \in Dirs
      BY <2>6
    <3>2. CASE Clear(roots, d, e)
      <4>1. e \in Existing
        BY <2>6, <3>1, <3>2, AboveReflexive DEF Clear
      <4> QED
        BY <2>4, <2>7, <3>2, <4>1 DEF WaitsFor
    <3>3. CASE ~Clear(roots, d, e)
      <4>1. PICK a : a = aclOf[e]
        OBVIOUS
      <4>2. Nearest(roots, a, e)
        BY <4>1, Base
      <4>3. a # d /\ Nearest(roots \ {d}, a, e)
        BY <2>1, <2>6, <3>1, <3>3, <4>2, NearestWithout
      <4> QED
        BY <2>4, <2>5, <3>1, <4>1, <4>3 DEF Right
    <3> QED
      BY <3>2, <3>3
  <2>11. Uniform(p)'
    <3> SUFFICES ASSUME NEW e \in Existing, Clear(roots, d, e)
                 PROVE  SeenAcl(p, e)' = SeenAcl(p, d)'
      BY <2>4, <2>7 DEF Uniform, WaitsFor
    <3> QED
      BY <2>1, <2>5, <2>6, <2>8, <2>9
  <2>12. Spread(p)' /\ InHand(p)'
    BY <2>3, <2>4 DEF Spread, InHand
  <2>13. d \in exists
    BY <2>1 DEF Inherit
  <2> QED
    BY <2>1, <2>2, <2>3, <2>5, <2>9, <2>10, <2>11, <2>12, <2>13 DEF Call, Change
<1> QED
  BY <1>1, <1>2

\* The nearest ACL above is the one for the directory whose own has gone; or
\* there is none, and those that waited for it have none already.
LEMMA NearestRootStarts ==
  ASSUME IInv, Inherit, NEW p \in Procs, NearestRoot(p)
  PROVE  Call(p)'
<1> PICK d : d = req[p].dir
  OBVIOUS
<1> PICK R : R = SeenRoots(p)
  OBVIOUS
<1>1. /\ pc[p] = "nearest" /\ req[p] \in Request /\ d \in Dirs /\ todo[p] = {}
      /\ UNCHANGED <<exists, roots, aclOf, req, dirTx, rootTx, aclTx, todo>>
  BY DEF NearestRoot, IInv, Session, Calls, Request, tables, tx
<1>2. req[p] \in Requests[p] /\ req[p].op # "mkdir" /\ Change(p)
  BY <1>1 DEF Inherit, Call, Create
<1>3. /\ R \in SUBSET Dirs /\ d \notin R /\ SeenRoots(p)' = R /\ Frontier(p) = {d}
      /\ SeenAcl(p, d) = NoDir /\ \A e : SeenAcl(p, e)' = SeenAcl(p, e)
      /\ rootTx[p] = "delete"
  BY <1>1, <1>2, SeenRootsTyped DEF SeenRoots, OwnRoot, SeenAcl, Frontier, Change
<1>4. CASE Deepest(Above(d, R)) = {} /\ pc' = [pc EXCEPT ![p] = "commit"]
  <2>1. pc'[p] = "commit" /\ Frontier(p)' = {}
    BY <1>4 DEF Frontier, IInv, TypeOK
  <2>2. Nearest(R, NoDir, d)
    BY <1>1, <1>3, <1>4, DeepestIsNearest DEF Nearest
  <2>3. ASSUME NEW e \in Existing \cup R PROVE Right(p, e)'
    <3>1. CASE Right(p, e)
      BY <1>3, <3>1 DEF Right
    <3>2. CASE WaitsFor(p, d, e)
      <4>1. e \in Dirs /\ SeenAcl(p, e) = NoDir
        BY <1>1, <1>2, <1>3, <3>2, ExistingAreDirs DEF Change, Uniform, WaitsFor
      <4>2. Nearest(R, NoDir, e)
        BY <1>1, <1>3, <2>2, <3>2, <4>1, NearestInherited DEF WaitsFor
      <4> QED
        BY <1>3, <4>1, <4>2 DEF Right
    <3> QED
      BY <1>1, <1>2, <1>3, <3>1, <3>2 DEF Change, Covered
  <2>4. Covered(p)' /\ Uniform(p)' /\ Spread(p)' /\ InHand(p)'
    BY <1>3, <2>1, <2>3 DEF Covered, Uniform, Spread, InHand
  <2> QED
    BY <1>1, <1>2, <1>3, <2>1, <2>4 DEF Call, Change
<1>5. ASSUME NEW a \in Deepest(Above(d, R)), acl' = [acl EXCEPT ![p] = a],
             at' = [at EXCEPT ![p] = d], pc' = [pc EXCEPT ![p] = "check"]
      PROVE  Call(p)'
  <2>1. pc'[p] = "check" /\ acl'[p] = a /\ at'[p] = d /\ todo'[p] = {}
    BY <1>1, <1>5 DEF IInv, TypeOK
  <2>2. Frontier(p)' = {d}
    BY <2>1 DEF Frontier
  <2>3. \A x, e : WaitsFor(p, x, e)' = WaitsFor(p, x, e)
    BY <1>3 DEF WaitsFor
  <2>4. Covered(p)'
    BY <1>1, <1>2, <1>3, <2>2, <2>3 DEF Change, Covered, Right
  <2>5. Uniform(p)'
    BY <1>2, <1>3, <2>2, <2>3 DEF Change, Uniform
  <2>6. Nearest(R, a, d)
    BY <1>1, <1>3, <1>5, DeepestIsNearest
  <2>7. Spread(p)' /\ InHand(p)'
    BY <1>3, <2>1, <2>2, <2>6 DEF Spread, InHand
  <2> QED
    BY <1>1, <1>2, <1>3, <2>1, <2>4, <2>5, <2>7 DEF Call, Change
<1> QED
  BY <1>4, <1>5 DEF NearestRoot, NearestAbove, Goto

\* What is before the walk after it has gone on.
LEMMA VisitStep ==
  ASSUME TypeOK, NEW p \in Procs, NEW ds \in SUBSET Dirs, Visit(p, ds)
  PROVE  /\ Frontier(p)' = ds /\ pc'[p] \in {"commit", "check"}
         /\ pc'[p] = "check" => at'[p] \notin todo'[p]
<1>1. CASE ds = {} /\ Goto(p, "commit")
  BY <1>1 DEF Goto, Frontier, TypeOK
<1>2. ASSUME NEW d \in ds, at' = [at EXCEPT ![p] = d],
             todo' = [todo EXCEPT ![p] = ds \ {d}], Goto(p, "check")
      PROVE  /\ Frontier(p)' = ds /\ pc'[p] = "check" /\ at'[p] \notin todo'[p]
  BY <1>2 DEF Goto, Frontier, TypeOK
<1> QED
  BY <1>1, <1>2 DEF Visit, Deepest

\* A directory that has the ACL already is skipped: so have all that wait for it.
LEMMA CheckAclWalks ==
  ASSUME IInv, Inherit, NEW p \in Procs, CheckAcl(p), req[p].op # "mkdir"
  PROVE  Call(p)'
<1> PICK x : x = at[p]
  OBVIOUS
<1> PICK R : R = SeenRoots(p)
  OBVIOUS
<1>1. /\ pc[p] = "check" /\ req[p] \in Requests[p] /\ Change(p)
      /\ UNCHANGED <<exists, roots, aclOf, req, dirTx, rootTx, aclTx, acl>>
  BY DEF CheckAcl, Inherit, Call, tables, tx
<1>2. /\ R \in SUBSET Dirs /\ SeenRoots(p)' = R /\ x \in Dirs /\ todo[p] \subseteq Dirs
      /\ \A e : SeenAcl(p, e)' = SeenAcl(p, e)
      /\ Frontier(p) = {x} \cup todo[p]
      /\ \A z, e : WaitsFor(p, z, e)' = WaitsFor(p, z, e)
  BY <1>1, SeenRootsTyped DEF SeenRoots, OwnRoot, SeenAcl, Frontier, WaitsFor, IInv, TypeOK
<1>3. CASE SeenAcl(p, x) = acl[p] /\ Visit(p, todo[p])
  <2>1. /\ Frontier(p)' = todo[p] /\ pc'[p] \in {"commit", "check"}
        /\ pc'[p] = "check" => at'[p] \notin todo'[p]
    BY <1>2, <1>3, VisitStep DEF IInv
  <2>2. ASSUME NEW e \in Existing \cup R, WaitsFor(p, x, e) PROVE Right(p, e)'
    <3>1. e \in Dirs /\ SeenAcl(p, e) = acl[p]
      BY <1>1, <1>2, <1>3, <2>2, ExistingAreDirs DEF Change, Uniform, WaitsFor
    <3>2. Nearest(R, acl[p], x) /\ Clear(R, x, e)
      BY <1>1, <1>2, <2>2 DEF Change, InHand, WaitsFor
    <3>3. Nearest(R, acl[p], e)
      BY <1>2, <3>1, <3>2, NearestInherited
    <3> QED
      BY <1>2, <3>1, <3>3 DEF Right
  <2>3. Covered(p)'
    BY <1>1, <1>2, <2>1, <2>2 DEF Change, Covered, Right
  <2>4. Uniform(p)' /\ Spread(p)' /\ InHand(p)'
    BY <1>1, <1>2, <2>1 DEF Change, Uniform, Spread, InHand
  <2> QED
    BY <1>1, <2>1, <2>3, <2>4 DEF Call, Change
<1>4. CASE Goto(p, "put") /\ UNCHANGED <<at, todo>>
  <2>1. pc'[p] = "put" /\ Frontier(p)' = Frontier(p) /\ at' = at /\ todo' = todo
    BY <1>1, <1>4 DEF Goto, Frontier, IInv, TypeOK
  <2>2. Covered(p)' /\ Uniform(p)' /\ Spread(p)' /\ InHand(p)'
    BY <1>1, <1>2, <2>1 DEF Change, Covered, Right, Uniform, Spread, InHand
  <2> QED
    BY <1>1, <2>1, <2>2 DEF Call, Change
<1> QED
  BY <1>3, <1>4 DEF CheckAcl, GoOn

\* One that gets the ACL passes those that wait for it on to its children.
LEMMA PutAclWalks ==
  ASSUME IInv, Inherit, NEW p \in Procs, PutAcl(p), req[p].op # "mkdir"
  PROVE  Call(p)'
<1> PICK x : x = at[p]
  OBVIOUS
<1> PICK R : R = SeenRoots(p)
  OBVIOUS
<1> PICK H : H = Heirs(p, at[p])
  OBVIOUS
<1>1. CASE Abort(p)
  BY <1>1, AbortEnds DEF IInv
<1>2. CASE ~Abort(p)
  <2>1. /\ pc[p] = "put" /\ req[p] \in Requests[p] /\ Change(p)
        /\ aclTx' = [aclTx EXCEPT ![p][x] = acl[p]] /\ acl[p] # Gone
        /\ Visit(p, todo[p] \cup H)
        /\ UNCHANGED <<exists, roots, aclOf, req, dirTx, rootTx, acl>>
    BY <1>2 DEF PutAcl, AclIsThere, GoOn, Inherit, Call, tables
  <2>2. /\ R \in SUBSET Dirs /\ SeenRoots(p)' = R /\ x \in Dirs /\ todo[p] \subseteq Dirs
        /\ Frontier(p) = {x} \cup todo[p] /\ x \notin todo[p]
        /\ \A z, e : WaitsFor(p, z, e)' = WaitsFor(p, z, e)
    BY <2>1, SeenRootsTyped
       DEF SeenRoots, OwnRoot, Frontier, WaitsFor, IInv, TypeOK, Change, Spread
  <2>3. \A e \in Dirs : SeenAcl(p, e)' = IF e = x THEN acl[p] ELSE SeenAcl(p, e)
    BY <2>1, <2>2, Values DEF SeenAcl, IInv, TypeOK
  <2>4. H = {c \in exists \ R : c # Top /\ Parent(c) = x} /\ H \subseteq Dirs
    BY <2>1 DEF Heirs, SeenDirs, Change, IInv, TypeOK
  <2>5. \A c \in H : c \in Dirs /\ c \notin R /\ c # x /\ Clear(R, x, c)
    BY <2>2, <2>4, Child DEF Clear
  <2>6. /\ Frontier(p)' = todo[p] \cup H /\ pc'[p] \in {"commit", "check"}
        /\ pc'[p] = "check" => at'[p] \notin todo'[p]
    <3>1. todo[p] \cup H \in SUBSET Dirs
      BY <2>2, <2>4
    <3> QED
      BY <2>1, <3>1, VisitStep DEF IInv
  <2>7. \A z \in todo[p] : ~IsAbove(z, x) /\ ~IsAbove(x, z)
    BY <2>1, <2>2 DEF Change, Spread
  <2>8. Nearest(R, acl[p], x)
    BY <2>1, <2>2 DEF Change, InHand
  <2>9. ASSUME NEW e \in Existing \cup R
        PROVE  Right(p, e)' \/ \E z \in todo[p] \cup H : WaitsFor(p, z, e)
    <3>1. e \in Dirs
      BY <2>2, ExistingAreDirs
    <3>2. CASE e = x
      BY <2>2, <2>3, <2>8, <3>2 DEF Right
    <3>3. CASE e # x /\ Right(p, e)
      BY <2>2, <2>3, <3>1, <3>3 DEF Right
    <3>4. CASE e # x /\ WaitsFor(p, x, e)
      <4>1. e \in Existing /\ Clear(R, x, e) /\ IsAbove(x, e)
        BY <3>4 DEF WaitsFor, Clear
      <4>2. PICK c \in Dirs : c # Top /\ Parent(c) = x /\ IsAbove(c, e)
        BY <2>2, <3>1, <3>4, <4>1, ChildTowards
      <4>3. IsAbove(x, c) /\ ~IsAbove(c, x)
        BY <2>2, <4>2, Child
      <4>4. c \in Existing
        BY <4>1, <4>2, ExistingClosed
      <4>5. c \notin R /\ Clear(R, c, e)
        BY <2>2, <4>1, <4>2, <4>3, AboveReflexive, AboveTransitive DEF Clear
      <4>6. c \in H
        BY <2>4, <4>2, <4>4, <4>5 DEF Inherit
      <4> QED
        BY <4>1, <4>5, <4>6 DEF WaitsFor
    <3> QED
      BY <2>1, <2>2, <3>2, <3>3, <3>4 DEF Change, Covered
  <2>10. Covered(p)'
    BY <2>2, <2>6, <2>9 DEF Covered
  <2>11. Uniform(p)'
    <3> SUFFICES ASSUME NEW z \in todo[p] \cup H, NEW e \in Existing, WaitsFor(p, z, e)
                 PROVE  SeenAcl(p, e)' = SeenAcl(p, z)'
      BY <2>2, <2>6 DEF Uniform
    <3>1. e \in Dirs /\ z \in Dirs /\ IsAbove(z, e) /\ Clear(R, z, e)
      BY <2>2, <2>5, ExistingAreDirs DEF WaitsFor, Clear
    <3>2. CASE z \in todo[p]
      <4>1. e # x /\ z # x
        BY <2>2, <2>7, <3>1, <3>2
      <4> QED
        BY <2>1, <2>2, <2>3, <3>1, <3>2, <4>1 DEF Change, Uniform
    <3>3. CASE z \in H
      <4>1. IsAbove(x, z) /\ ~IsAbove(z, x) /\ z \notin R /\ z # x /\ Clear(R, x, z)
        BY <2>2, <2>4, <2>5, <3>1, <3>3, Child
      <4>2. IsAbove(x, e) /\ e # x /\ z \in Existing
        BY <2>2, <3>1, <4>1, AboveTransitive, ExistingClosed
      <4>3. Clear(R, x, e)
        <5> SUFFICES ASSUME NEW r \in R, IsAbove(x, r), IsAbove(r, e) PROVE r = x
          BY <4>2 DEF Clear
        <5>1. IsAbove(r, z) \/ IsAbove(z, r)
          BY <2>2, <3>1, AboveLinear
        <5> QED
          BY <3>1, <4>1, <5>1 DEF Clear
      <4>4. SeenAcl(p, e) = SeenAcl(p, x) /\ SeenAcl(p, z) = SeenAcl(p, x)
        BY <2>1, <2>2, <4>1, <4>2, <4>3 DEF Change, Uniform, WaitsFor
      <4> QED
        BY <2>3, <3>1, <4>1, <4>2, <4>4
    <3> QED
      BY <3>2, <3>3
  <2>12. Spread(p)'
    <3> SUFFICES ASSUME NEW y \in todo[p] \cup H, NEW z \in todo[p] \cup H, IsAbove(y, z)
                 PROVE  y = z
      BY <2>6 DEF Spread
    <3>1. CASE y \in todo[p] /\ z \in todo[p]
      BY <2>1, <2>2, <3>1 DEF Change, Spread
    <3>2. CASE y \in H /\ z \in H
      BY <2>2, <2>4, <3>2, Siblings
    <3>3. CASE y \in todo[p] /\ z \in H
      BY <2>2, <2>4, <2>7, <3>3, Child, AboveLinear
    <3>4. CASE y \in H /\ z \in todo[p]
      <4>1. IsAbove(x, y) /\ y \in Dirs /\ z \in Dirs
        BY <2>2, <2>4, <3>4, Child
      <4>2. IsAbove(x, z)
        BY <2>2, <4>1, AboveTransitive
      <4> QED
        BY <2>7, <3>4, <4>2
    <3> QED
      BY <3>1, <3>2, <3>3, <3>4
  <2>13. InHand(p)'
    <3>1. \A c \in H : Nearest(R, acl[p], c)
      BY <2>2, <2>5, <2>8, NearestInherited
    <3> QED
      BY <2>1, <2>2, <2>6, <3>1 DEF Change, InHand
  <2> QED
    BY <2>1, <2>6, <2>10, <2>11, <2>12, <2>13 DEF Call, Change
<1> QED
  BY <1>1, <1>2

-----------------------------------------------------------------------------
(* The other steps.                                                        *)

LEMMA SubmitStarts ==
  ASSUME IInv, Inherit, NEW p \in Procs, Submit(p)
  PROVE  Call(p)'
<1>1. PICK r \in Requests[p] : req' = [req EXCEPT ![p] = r] /\ pc' = [pc EXCEPT ![p] = Start[r.op]]
  BY DEF Submit, Goto
<1>2. /\ r \in Request /\ r.op \in {"set", "remove", "mkdir"} /\ pc[p] = "idle"
      /\ UNCHANGED <<exists, roots, aclOf, dirTx, rootTx, aclTx, acl, at, todo>>
  BY <1>1, ConstantsAssumption DEF ConstantsAssumption, Request, Submit, tables, tx
<1>3. /\ r.op = "set" => Start[r.op] = "ensure"
      /\ r.op = "remove" => Start[r.op] = "unroot"
      /\ r.op = "mkdir" => Start[r.op] = "root"
  BY <1>2 DEF Start
<1>4. req'[p] = r /\ pc'[p] = Start[r.op]
  BY <1>1 DEF IInv, TypeOK
<1>5. dirTx[p] = {} /\ rootTx[p] = "none" /\ aclTx[p] = Untouched
  BY <1>2 DEF Inherit, Call, IInv, Session, Calls
<1>6. CASE r.op = "mkdir"
  BY <1>2, <1>3, <1>4, <1>5, <1>6 DEF Call, Create, Untouched
<1>7. CASE r.op # "mkdir"
  <2>1. pc'[p] \in {"ensure", "unroot"} /\ Frontier(p)' = {}
    BY <1>2, <1>3, <1>4, <1>7 DEF Frontier
  <2> QED
    BY <1>2, <1>4, <1>5, <1>7, <2>1
       DEF Call, Change, Covered, Uniform, Spread, InHand
<1> QED
  BY <1>6, <1>7

\* mkdir() inserts what it does not find, and sets no other ACL.
LEMMA CreateSteps ==
  ASSUME IInv, Inherit, NEW p \in Procs, pc[p] # "idle", req[p].op = "mkdir",
         TopAcl(p) \/ FindDir(p) \/ InsertDir(p) \/ CheckAcl(p) \/ PutAcl(p)
  PROVE  Call(p)'
<1>1. req[p] \in Requests[p] /\ Create(p) /\ pc \in [Procs -> Pcs]
  BY DEF Inherit, Call, IInv, TypeOK
<1>2. ASSUME NextPart(p) PROVE pc'[p] \in {"commit", "find"}
  BY <1>1, <1>2 DEF NextPart, Goto
<1>3. CASE TopAcl(p)
  BY <1>1, <1>2, <1>3 DEF TopAcl, Call, Create, tables, tx
<1>4. CASE FindDir(p)
  <2>1. pc'[p] \in {"commit", "find"} \/ (pc'[p] = "insert" /\ at'[p] \notin exists)
    BY <1>1, <1>2, <1>4 DEF FindDir, Goto, SeenDirs
  <2> QED
    BY <1>1, <1>4, <2>1 DEF FindDir, Call, Create, tables, tx
<1>5. CASE InsertDir(p)
  <2>1. dirTx'[p] = dirTx[p] \cup {at[p]} /\ at[p] \notin exists
    BY <1>1, <1>5 DEF InsertDir, Create, IInv, TypeOK
  <2>2. pc'[p] \in {"commit", "find"} \/ (pc'[p] = "check" /\ at'[p] = at[p])
    BY <1>1, <1>2, <1>5 DEF InsertDir, Goto
  <2> QED
    BY <1>1, <1>5, <2>1, <2>2 DEF InsertDir, Call, Create, tables
<1>6. CASE CheckAcl(p)
  <2>1. pc'[p] \in {"commit", "find"} \/ (pc'[p] = "put" /\ at'[p] = at[p] /\ pc[p] = "check")
    BY <1>1, <1>2, <1>6 DEF CheckAcl, GoOn, Goto
  <2> QED
    BY <1>1, <1>6, <2>1 DEF CheckAcl, Call, Create, tables, tx
<1>7. CASE PutAcl(p)
  <2>1. CASE Abort(p)
    BY <2>1, AbortEnds DEF IInv
  <2>2. CASE ~Abort(p)
    <3>1. /\ pc[p] = "put" /\ NextPart(p) /\ aclTx' = [aclTx EXCEPT ![p][at[p]] = acl[p]]
          /\ UNCHANGED <<exists, req, dirTx, rootTx>>
      BY <1>7, <2>2 DEF PutAcl, GoOn, tables
    <3>2. \A e \in Dirs : aclTx'[p][e] # Same => e \in dirTx[p]
      BY <1>1, <3>1 DEF Create, IInv, TypeOK
    <3> QED
      BY <1>1, <1>2, <3>1, <3>2 DEF Call, Create
  <2> QED
    BY <2>1, <2>2
<1> QED
  BY <1>3, <1>4, <1>5, <1>6, <1>7

\* The commit of a change makes what it sees the tables: all is right then.
LEMMA ChangeCommits ==
  ASSUME OneOfEach, IInv, Inherit, NEW p \in Procs, Commit(p), req[p].op # "mkdir"
  PROVE  Inherit'
<1>1. /\ pc[p] = "commit" /\ Change(p) /\ exists' = exists /\ roots' = SeenRoots(p)
      /\ aclOf' = [e \in Dirs |-> SeenAcl(p, e)]
      /\ pc'[p] = "idle" /\ dirTx'[p] = {} /\ OthersStand(p)
  BY OthersInStep DEF Commit, Close, Goto, Inherit, Call, Change, SeenDirs, IInv, TypeOK, Step
<1>2. SeenRoots(p) \in SUBSET Dirs /\ Frontier(p) = {}
  BY <1>1, SeenRootsTyped DEF Frontier
<1>3. ExistingInherit'
  <2> SUFFICES ASSUME NEW e \in Existing \cup SeenRoots(p)
               PROVE  Governs(aclOf[e], e)'
    BY <1>1 DEF ExistingInherit
  <2>1. Right(p, e) /\ e \in Dirs
    BY <1>1, <1>2, ExistingAreDirs DEF Change, Covered
  <2> QED
    BY <1>1, <2>1 DEF Right, Nearest, Governs
<1>4. SeenRoots(p) \subseteq exists
  BY <1>1 DEF SeenRoots, OwnRoot, Change, Inherit
<1>5. ASSUME NEW q \in Procs \ {p} PROVE Call(q)'
  <2>1. CASE pc[q] = "idle"
    BY <1>1, <2>1 DEF Inherit, Call, OthersStand
  <2>2. CASE pc[q] # "idle"
    <3>1. req[q].op = "mkdir" /\ req[q] \in Requests[q] /\ Create(q)
      BY <1>1, <2>2, Roles DEF Inherit, Call
    <3>2. /\ pc'[q] = pc[q] /\ req'[q] = req[q] /\ dirTx'[q] = dirTx[q] /\ rootTx'[q] = rootTx[q]
          /\ aclTx'[q] = aclTx[q] /\ at'[q] = at[q] /\ exists' = exists
      BY <1>1 DEF OthersStand
    <3>3. Create(q)'
      BY <3>1, <3>2 DEF Create
    <3> QED
      BY <2>2, <3>1, <3>2, <3>3 DEF Call
  <2> QED
    BY <2>1, <2>2
<1>6. Call(p)'
  BY <1>1 DEF Call
<1> QED
  BY <1>1, <1>3, <1>4, <1>5, <1>6 DEF Inherit

\* The commit of a mkdir() changes nothing for the directories there were.
LEMMA CreateCommits ==
  ASSUME OneOfEach, IInv, Inherit, NEW p \in Procs, Commit(p), req[p].op = "mkdir"
  PROVE  Inherit'
<1>1. /\ pc[p] = "commit" /\ Create(p)
      /\ pc'[p] = "idle" /\ dirTx'[p] = {} /\ OthersStand(p)
  BY OthersInStep DEF Commit, Close, Goto, Inherit, Call, IInv, TypeOK, Step
<1>2. exists' = exists \cup dirTx[p] /\ roots' = roots /\ OwnRoot(p, "delete") = {}
  BY <1>1 DEF Commit, SeenDirs, SeenRoots, OwnRoot, Create
<1>3. \A q \in Procs \ {p} : acl'[q] = acl[q]
  BY <1>2 DEF Commit, IInv, TypeOK
<1>4. \A e \in Dirs : e \in exists => aclOf'[e] = aclOf[e]
  BY <1>1 DEF Commit, SeenAcl, Create
<1>5. Existing \subseteq exists /\ roots \subseteq exists /\ exists \subseteq Dirs
  BY DEF Inherit, IInv, TypeOK
<1>6. ExistingInherit'
  BY <1>2, <1>4, <1>5 DEF Inherit, ExistingInherit, Governs
<1>7. ASSUME NEW q \in Procs \ {p} PROVE Call(q)'
  <2>1. CASE pc[q] = "idle"
    BY <1>1, <2>1 DEF Inherit, Call, OthersStand
  <2>2. CASE pc[q] # "idle"
    <3>1. req[q].op # "mkdir" /\ req[q] \in Requests[q] /\ Change(q)
      BY <1>1, <2>2, Roles DEF Inherit, Call
    <3>2. /\ pc'[q] = pc[q] /\ req'[q] = req[q] /\ dirTx'[q] = dirTx[q] /\ rootTx'[q] = rootTx[q]
          /\ aclTx'[q] = aclTx[q] /\ at'[q] = at[q] /\ todo'[q] = todo[q]
      BY <1>1 DEF OthersStand
    <3>3. req[q] \in Request /\ req[q].dir \in Dirs
      BY <2>2 DEF IInv, Session, Calls, Request
    <3>4. SeenRoots(q)' = SeenRoots(q) /\ SeenRoots(q) \subseteq exists
      BY <1>2, <1>5, <3>1, <3>2 DEF SeenRoots, OwnRoot, Change
    <3>5. Frontier(q)' = Frontier(q) /\ Frontier(q) \subseteq Dirs
      BY <3>2, <3>3 DEF Frontier, IInv, TypeOK
    <3>6. \A e \in Dirs : e \in exists => SeenAcl(q, e)' = SeenAcl(q, e)
      BY <1>4, <3>2 DEF SeenAcl
    <3>7. \A x, e : WaitsFor(q, x, e)' = WaitsFor(q, x, e)
      BY <3>4 DEF WaitsFor
    <3>8. Covered(q)'
      <4>1. \A e \in Existing \cup SeenRoots(q) : Right(q, e)' = Right(q, e)
        BY <1>5, <3>4, <3>6 DEF Right
      <4> QED
        BY <3>1, <3>2, <3>4, <3>5, <3>7, <4>1 DEF Change, Covered
    <3>9. Uniform(q)'
      <4> SUFFICES ASSUME NEW x \in Frontier(q), NEW e \in Existing, WaitsFor(q, x, e)
                   PROVE  SeenAcl(q, e)' = SeenAcl(q, x)'
        BY <3>5, <3>7 DEF Uniform
      <4>1. x \in Existing
        BY <3>5, ExistingClosed DEF WaitsFor, Clear
      <4> QED
        BY <1>5, <3>1, <3>6, <4>1 DEF Change, Uniform
    <3>10. Spread(q)' /\ InHand(q)'
      BY <1>3, <3>1, <3>2, <3>4, <3>5 DEF Change, Spread, InHand
    <3>11. pc[q] = "nearest" => SeenAcl(q, req[q].dir)' = NoDir
      <4> SUFFICES ASSUME pc[q] = "nearest"
                   PROVE  SeenAcl(q, req[q].dir)' = NoDir
        OBVIOUS
      <4> PICK d : d = req[q].dir
        OBVIOUS
      <4>1. d \in Dirs /\ d \in exists /\ SeenAcl(q, d) = NoDir
        BY <3>1, <3>3 DEF Change
      <4> QED
        BY <3>2, <3>6, <4>1
    <3>12. Change(q)'
      BY <1>2, <3>1, <3>2, <3>8, <3>9, <3>10, <3>11 DEF Change
    <3> QED
      BY <2>2, <3>1, <3>2, <3>12 DEF Call
  <2> QED
    BY <2>1, <2>2
<1>8. Call(p)'
  BY <1>1 DEF Call
<1> QED
  BY <1>2, <1>5, <1>6, <1>7, <1>8 DEF Inherit

-----------------------------------------------------------------------------

LEMMA InitInherit == Init => Inherit
<1> SUFFICES ASSUME Init PROVE Inherit
  OBVIOUS
<1>1. ExistingInherit
  BY ExistingAreDirs DEF Init, ExistingInherit, Governs
<1> QED
  BY <1>1, ExistingAreDirs DEF Init, Inherit, Call

LEMMA NextInherit ==
  ASSUME OneOfEach, IInv, Inherit, [Next]_vars
  PROVE  Inherit'
<1>1. ASSUME NEW p \in Procs, Submit(p) \/ Step(p) \/ Fail(p) PROVE Inherit'
  <2>1. CASE Commit(p)
    BY <2>1, ChangeCommits, CreateCommits
  <2>2. CASE ~Commit(p)
    <3>1. OthersStand(p) /\ \A q \in Procs \ {p} : acl'[q] = acl[q]
      BY <1>1, <2>2, OthersInStep DEF IInv
    <3>2. UNCHANGED tables
      BY <1>1, <2>2 DEF Submit, Step, Fail, Abort, EnsureRoot, DeleteRoot, NearestRoot, TopAcl,
                        FindDir, InsertDir, CheckAcl, PutAcl
    <3>3. CASE Submit(p)
      BY <3>1, <3>2, <3>3, SubmitStarts, LocalInherit DEF OthersStand
    <3>4. CASE Fail(p)
      BY <3>1, <3>2, <3>4, AbortEnds, LocalInherit DEF OthersStand, Fail, IInv
    <3>5. CASE EnsureRoot(p) \/ DeleteRoot(p) \/ NearestRoot(p)
      BY <3>1, <3>2, <3>5, EnsureRootStarts, DeleteRootStarts, NearestRootStarts, LocalInherit
         DEF OthersStand
    <3>6. CASE TopAcl(p) \/ FindDir(p) \/ InsertDir(p)
      <4>1. pc[p] # "idle" /\ req[p].op = "mkdir"
        BY <3>6 DEF TopAcl, FindDir, InsertDir, IInv, Session, OnPath
      <4>2. Call(p)'
        BY <3>6, <4>1, CreateSteps
      <4> QED
        BY <3>1, <3>2, <4>2, LocalInherit DEF OthersStand
    <3>7. CASE CheckAcl(p) \/ PutAcl(p)
      <4>1. pc[p] # "idle"
        BY <3>7 DEF CheckAcl, PutAcl
      <4>2. Call(p)'
        BY <3>7, <4>1, CreateSteps, CheckAclWalks, PutAclWalks
      <4> QED
        BY <3>1, <3>2, <4>2, LocalInherit DEF OthersStand
    <3> QED
      BY <1>1, <2>2, <3>3, <3>4, <3>5, <3>6, <3>7 DEF Step
  <2> QED
    BY <2>1, <2>2
<1>2. CASE UNCHANGED vars
  <2>1. UNCHANGED <<exists, roots, aclOf, pc, req, dirTx, rootTx, aclTx, acl, at, todo>>
    BY <1>2 DEF vars, tables, tx
  <2>2. \A p \in Procs : Call(p)'
    BY <2>1, Undisturbed DEF Inherit, tables
  <2>3. ExistingInherit'
    BY <2>1 DEF Inherit, ExistingInherit, Governs
  <2> QED
    BY <2>1, <2>2, <2>3 DEF Inherit
<1> QED
  BY <1>1, <1>2 DEF Next

\* For any tree and any sequence of ACLs that are set, replaced and removed by
\* one session, next to one that creates directories, whatever fails: every
\* directory there was at the start, and every one with an ACL of its own, is
\* governed by its own ACL or that of its nearest ancestor that has one.
THEOREM AclsInherited ==
  ASSUME OneOfEach
  PROVE  Spec => []ExistingInherit
<1>1. Init => IInv /\ Inherit
  BY InitIInv, InitInherit
<1>2. IInv /\ Inherit /\ [Next]_vars => (IInv /\ Inherit)'
  BY NextIInv, NextInherit, OneOfEach
<1>3. IInv /\ Inherit => ExistingInherit
  BY DEF Inherit
<1> QED
  BY <1>1, <1>2, <1>3, PTL DEF Spec
=============================================================================
