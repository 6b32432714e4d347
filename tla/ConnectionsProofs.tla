------------------------- MODULE ConnectionsProofs -------------------------
(***************************************************************************)
(* What holds of Connections for any number of calls, connections and      *)
(* files: no two calls share a connection they hold, and what is left open *)
(* holds nothing.                                                          *)
(***************************************************************************)
EXTENDS Connections, SequenceTheorems, TLAPS

-----------------------------------------------------------------------------
(* The inductive invariant                                                 *)

WritePcs == {"begin", "lock", "rules", "record", "commit", "release", "rollback"}
Pcs == WritePcs \cup DeletePcs \cup {"idle", "open", "client", "each", "close", "undo"}

\* What a call holds follows from where it is: a write() has a client of the
\* pool, deleteDirectory() a connection of its own, deleteFile() by itself at
\* most the one of the query in progress, and copyFile() opens another one
\* around its write().
Holding(p) ==
  /\ pc[p] = "idle" <=> req[p] = NoReq
  /\ pc[p] \in WritePcs => on[p] # NoConn /\ conn[on[p]] = "out"
  /\ pc[p] \in {"idle", "open", "client", "close", "undo"} => on[p] = NoConn
  /\ pc[p] \in {"idle", "open"} => own[p] = NoConn
  /\ pc[p] \in {"close", "undo"} => own[p] # NoConn
  /\ pc[p] = "open" => req[p].op \in {"copy", "rmdir"}
  /\ pc[p] = "each" => req[p].op = "rmdir"
  /\ pc[p] \in DeletePcs => req[p].op \in {"delete", "rmdir"} /\ own[p] = NoConn
  /\ pc[p] \in DeletePcs /\ req[p].op = "delete" /\ on[p] # NoConn => conn[on[p]] = "out"
  /\ pc[p] \in DeletePcs \cup {"each"} /\ req[p].op = "rmdir" =>
       on[p] # NoConn /\ conn[on[p]] = "own" /\ own[p] = NoConn

\* Of each connection the pool and at most one call know.
Distinct ==
  /\ \A p, q \in Calls : p # q /\ on[p] # NoConn => on[p] # on[q]
  /\ \A p, q \in Calls : p # q /\ own[p] # NoConn => own[p] # own[q]
  /\ \A p, q \in Calls : own[p] # NoConn => own[p] # on[q]

Stack ==
  /\ {c \in Conns : conn[c] = "idle"} = {idle[i] : i \in 1..Len(idle)}
  /\ \A i, j \in 1..Len(idle) : i # j => idle[i] # idle[j]

Accounted ==
  /\ \A c \in Conns : conn[c] = "out" => \E p \in Calls : on[p] = c
  /\ \A p \in Calls : on[p] # NoConn => conn[on[p]] \in {"out", "own"}
  /\ \A p \in Calls : own[p] # NoConn => conn[own[p]] = "own"

PoolInv == Distinct /\ Stack /\ Accounted

Clean(c) == c \notin inTx /\ change[c] = Untouched /\ \A f \in Paths : lock[f] # c
LeftClean == \A c \in Conns : conn[c] = "left" => Clean(c)

PcTyped == pc \in [Calls -> Pcs]

IInv == TypeOK /\ PcTyped /\ PoolInv /\ LeftClean /\ \A p \in Calls : Holding(p)

Act(p) == Submit(p) \/ Serve(p)

-----------------------------------------------------------------------------
(* The ways in which a step changes who has which connection.              *)

Keeps(p) == UNCHANGED <<pool, on, own>>
Takes(p) == Take(p) /\ UNCHANGED own
Returns(p) == on[p] # NoConn /\ conn[on[p]] = "out" /\ GiveBack(p) /\ UNCHANGED own
Drops(p, l) ==
  /\ on[p] # NoConn /\ conn' = [conn EXCEPT ![on[p]] = l] /\ on' = [on EXCEPT ![p] = NoConn]
  /\ UNCHANGED <<idle, own>>
OpensOn(p) ==
  /\ on[p] = NoConn /\ UNCHANGED <<idle, own>>
  /\ \E c \in Closed : conn' = [conn EXCEPT ![c] = "own"] /\ on' = [on EXCEPT ![p] = c]
OpensOwn(p) ==
  /\ own[p] = NoConn /\ UNCHANGED <<idle, on>>
  /\ \E c \in Closed : conn' = [conn EXCEPT ![c] = "own"] /\ own' = [own EXCEPT ![p] = c]
ClosesOwn(p, l) ==
  /\ own[p] # NoConn /\ conn' = [conn EXCEPT ![own[p]] = l] /\ own' = [own EXCEPT ![p] = NoConn]
  /\ UNCHANGED <<idle, on>>

PoolStep(p) ==
  \/ Keeps(p) \/ Takes(p) \/ Returns(p) \/ OpensOn(p) \/ OpensOwn(p)
  \/ \E l \in {"closed", "left"} : Drops(p, l) \/ ClosesOwn(p, l)

\* Every step is one of them.
LEMMA Kinds ==
  ASSUME IInv, NEW p \in Calls, Act(p)
  PROVE  PoolStep(p)
<1> USE DEF PoolStep, Keeps, locals, pool
<1>0. Holding(p) /\ pc[p] \in Pcs
  BY DEF IInv, PcTyped
<1>1. CASE Submit(p) \/ WriteBegin(p) \/ WriteLock(p) \/ AutoPathRules(p) \/ WriteRecord(p)
           \/ WriteCommit(p) \/ WriteFails(p) \/ Refused(p)
  BY <1>1
  DEF Submit, WriteBegin, WriteLock, AutoPathRules, WriteRecord, WriteCommit, WriteFails, Refused
<1>2. CASE GetClient(p) \/ Query(p)
  BY <1>2 DEF GetClient, Query, Takes
<1>3. CASE Release(p)
  BY <1>0, <1>3 DEF Release, Returns, Holding, WritePcs
<1>4. CASE WriteRollback(p)
  BY <1>0, <1>4 DEF WriteRollback, Returns, Holding, WritePcs
<1>5. CASE Open(p)
  BY <1>0, <1>5 DEF Open, OpensOn, OpensOwn, Holding
<1>6. CASE CloseOwn(p)
  BY <1>0, <1>6 DEF CloseOwn, ClosesOwn, Holding
<1>7. CASE DeleteBegin(p) \/ DeleteLookup(p) \/ DeleteLock(p) \/ DeleteRow(p) \/ DeleteCommit(p)
  BY <1>7
  DEF DeleteBegin, DeleteLookup, DeleteLock, DeleteRow, DeleteCommit, Done, Returns
<1>8. CASE DeleteRollback(p)
  BY <1>8 DEF DeleteRollback, Done, LeaveOpen, Returns, Drops
<1>9. CASE DeleteFails(p)
  BY <1>9 DEF DeleteFails, Discard, Drops
<1>10. CASE EachFile(p)
  BY <1>0, <1>10 DEF EachFile, Drops, Holding
<1> QED
  BY <1>1, <1>2, <1>3, <1>4, <1>5, <1>6, <1>7, <1>8, <1>9, <1>10 DEF Act, Serve

\* The types of the pool and of what the calls hold.
PoolTyped ==
  /\ conn \in [Conns -> {"closed", "idle", "out", "own", "left"}] /\ idle \in Seq(Conns)
  /\ on \in [Calls -> Conns \cup {NoConn}] /\ own \in [Calls -> Conns \cup {NoConn}]

\* Popping the stack, ...
LEMMA Popped ==
  ASSUME PoolTyped, Stack, idle # << >>
  PROVE  LET c == idle[Len(idle)]
             rest == SubSeq(idle, 1, Len(idle) - 1)
         IN  /\ c \in Conns /\ conn[c] = "idle" /\ rest \in Seq(Conns)
             /\ \A i, j \in 1..Len(rest) : i # j => rest[i] # rest[j]
             /\ {d \in Conns : conn[d] = "idle"} \ {c} = {rest[i] : i \in 1..Len(rest)}
<1> DEFINE n == Len(idle)
           rest == SubSeq(idle, 1, n - 1)
<1>1. n \in Nat /\ n > 0 /\ \A i \in 1..n : idle[i] \in Conns
  BY DEF PoolTyped
<1>2. rest \in Seq(Conns) /\ Len(rest) = n - 1 /\ \A i \in 1..(n - 1) : rest[i] = idle[i]
  <2> DEFINE m == n - 1
  <2>1. 1 \in Int /\ m \in Int /\ m >= 0 /\ \A i \in 1..m : idle[i] \in Conns
    BY <1>1
  <2> HIDE DEF m, n
  <2>2. /\ SubSeq(idle, 1, m) \in Seq(Conns)
        /\ Len(SubSeq(idle, 1, m)) = IF 1 <= m THEN m - 1 + 1 ELSE 0
        /\ \A i \in 1..(m - 1 + 1) : SubSeq(idle, 1, m)[i] = idle[1 + i - 1]
    BY <2>1, SubSeqProperties
  <2>3. \A i \in 1..m : SubSeq(idle, 1, m)[i] = idle[i]
    BY <2>1, <2>2
  <2> QED
    BY <2>1, <2>2, <2>3 DEF m
<1>3. idle[n] \in Conns /\ conn[idle[n]] = "idle"
  BY <1>1 DEF Stack
<1>4. {idle[i] : i \in 1..n} \ {idle[n]} = {rest[i] : i \in 1..Len(rest)}
  BY <1>1, <1>2 DEF Stack
<1>5. \A i, j \in 1..Len(rest) : i # j => rest[i] # rest[j]
  BY <1>1, <1>2 DEF Stack
<1> QED
  BY <1>2, <1>3, <1>4, <1>5 DEF Stack

\* ... and pushing a connection that was out.
LEMMA Pushed ==
  ASSUME PoolTyped, Stack, NEW c \in Conns, conn[c] # "idle"
  PROVE  LET more == Append(idle, c)
         IN  /\ more \in Seq(Conns)
             /\ \A i, j \in 1..Len(more) : i # j => more[i] # more[j]
             /\ {d \in Conns : conn[d] = "idle"} \cup {c} = {more[i] : i \in 1..Len(more)}
<1> DEFINE n == Len(idle)
           more == Append(idle, c)
<1>1. n \in Nat /\ more \in Seq(Conns) /\ Len(more) = n + 1
  BY DEF PoolTyped
<1>2. more[n + 1] = c /\ \A i \in 1..n : more[i] = idle[i]
  BY DEF PoolTyped
<1>3. \A i \in 1..n : idle[i] # c
  BY <1>1 DEF Stack
<1>4. \A i, j \in 1..(n + 1) : i # j => more[i] # more[j]
  BY <1>1, <1>2, <1>3 DEF Stack
<1>5. {idle[i] : i \in 1..n} \cup {c} = {more[i] : i \in 1..(n + 1)}
  BY <1>1, <1>2
<1> QED
  BY <1>1, <1>4, <1>5 DEF Stack

\* A call that steps leaves alone what the others hold and what is left over.
OthersHold(p) ==
  /\ \A q \in Calls \ {p} :
       /\ on'[q] = on[q] /\ own'[q] = own[q]
       /\ on[q] # NoConn => conn'[on[q]] = conn[on[q]]
       /\ own[q] # NoConn => conn'[own[q]] = conn[own[q]]
  /\ \A c \in Conns : conn'[c] = "left" => conn[c] = "left" \/ c \in {on[p], own[p]}

LEMMA PoolKept ==
  ASSUME PoolTyped, PoolInv, NEW p \in Calls, PoolStep(p)
  PROVE  PoolTyped' /\ PoolInv' /\ OthersHold(p)
<1> USE ConstantsAssumption DEF PoolInv, Accounted, Distinct, OthersHold, PoolTyped
<1>1. CASE Keeps(p)
  BY <1>1 DEF Keeps, pool, Stack
<1>2. CASE Takes(p)
  <2>1. CASE idle # << >>
    <3> DEFINE c == idle[Len(idle)]
    <3>1. /\ on' = [on EXCEPT ![p] = c] /\ conn' = [conn EXCEPT ![c] = "out"]
          /\ idle' = SubSeq(idle, 1, Len(idle) - 1) /\ on[p] = NoConn /\ own' = own
      BY <1>2, <2>1 DEF Takes, Take
    <3>2. /\ c \in Conns /\ conn[c] = "idle" /\ idle' \in Seq(Conns)
          /\ \A i, j \in 1..Len(idle') : i # j => idle'[i] # idle'[j]
          /\ {d \in Conns : conn[d] = "idle"} \ {c} = {idle'[i] : i \in 1..Len(idle')}
      BY <2>1, <3>1, Popped
    <3>3. \A q \in Calls : on[q] # c /\ own[q] # c
      BY <3>2
    <3> HIDE DEF c
    <3>4. Stack'
      BY <3>1, <3>2 DEF Stack
    <3> QED
      BY <3>1, <3>2, <3>3, <3>4
  <2>2. CASE idle = << >>
    <3>1. PICK c \in Closed : on' = [on EXCEPT ![p] = c] /\ conn' = [conn EXCEPT ![c] = "out"]
      BY <1>2, <2>2 DEF Takes, Take
    <3>2. on[p] = NoConn /\ own' = own /\ idle' = idle /\ c \in Conns /\ conn[c] = "closed"
      BY <1>2, <2>2 DEF Takes, Take, Closed
    <3>3. Stack'
      BY <3>1, <3>2 DEF Stack
    <3> QED
      BY <3>1, <3>2, <3>3
  <2> QED
    BY <2>1, <2>2
<1>3. CASE Returns(p)
  <2> DEFINE c == on[p]
  <2>1. /\ c \in Conns /\ conn[c] = "out" /\ own' = own /\ idle' = Append(idle, c)
        /\ conn' = [conn EXCEPT ![c] = "idle"] /\ on' = [on EXCEPT ![p] = NoConn]
    BY <1>3 DEF Returns, GiveBack
  <2>2. /\ idle' \in Seq(Conns)
        /\ \A i, j \in 1..Len(idle') : i # j => idle'[i] # idle'[j]
        /\ {d \in Conns : conn[d] = "idle"} \cup {c} = {idle'[i] : i \in 1..Len(idle')}
    BY <2>1, Pushed
  <2>3. Stack'
    BY <2>1, <2>2 DEF Stack
  <2> QED
    BY <2>1, <2>2, <2>3
<1>4. CASE OpensOn(p) \/ OpensOwn(p)
  <2>1. Stack'
    BY <1>4 DEF OpensOn, OpensOwn, Closed, Stack
  <2> QED
    BY <1>4, <2>1 DEF OpensOn, OpensOwn, Closed
<1>5. ASSUME NEW l \in {"closed", "left"}, Drops(p, l) \/ ClosesOwn(p, l)
      PROVE  PoolTyped' /\ PoolInv' /\ OthersHold(p)
  <2>1. Stack'
    BY <1>5 DEF Drops, ClosesOwn, Stack
  <2> QED
    BY <1>5, <2>1 DEF Drops, ClosesOwn
<1> QED
  BY <1>1, <1>2, <1>3, <1>4, <1>5 DEF PoolStep

-----------------------------------------------------------------------------
(* Types                                                                   *)

DataTyped ==
  /\ file \in [Paths -> Ids \cup {Absent}] /\ inTx \subseteq Conns /\ limited \subseteq Conns
  /\ change \in [Conns -> [Paths -> Ids \cup {Absent, Same}]]
  /\ lock \in [Paths -> Conns \cup {NoConn}] /\ cached \in BOOLEAN

CallsTyped ==
  /\ req \in [Calls -> Request \cup {NoReq}]
  /\ fid \in [Calls -> Ids \cup {NoId}] /\ todo \in [Calls -> SUBSET Paths]

LEMMA TypeParts == TypeOK <=> PoolTyped /\ DataTyped /\ CallsTyped
  BY DEF TypeOK, PoolTyped, DataTyped, CallsTyped

\* A call in progress has a request, and a client of its own for its writes.
LEMMA InCall ==
  ASSUME IInv, NEW p \in Calls, pc[p] # "idle"
  PROVE  /\ req[p] \in Request /\ req[p].path \in Paths
         /\ on[p] # NoConn => on[p] \in Conns
         /\ own[p] # NoConn => own[p] \in Conns
         /\ pc[p] \in WritePcs => on[p] \in Conns
BY DEF IInv, TypeOK, Holding, Request

\* What a transaction sees of a path is a file or none.
LEMMA SeenTyped ==
  ASSUME DataTyped, NEW c \in Conns, NEW f \in Paths
  PROVE  Seen(c, f) \in Ids \cup {Absent}
BY ConstantsAssumption DEF DataTyped, Seen

LEMMA PutTyped ==
  ASSUME DataTyped, NEW c \in Conns, NEW f \in Paths, NEW v \in Ids \cup {Absent}, Put(c, f, v)
  PROVE  /\ file' \in [Paths -> Ids \cup {Absent}]
         /\ change' \in [Conns -> [Paths -> Ids \cup {Absent, Same}]]
BY SMTT(30) DEF DataTyped, Put

LEMMA EndTyped ==
  ASSUME DataTyped, NEW c \in Conns, NEW commit \in BOOLEAN, EndTx(c, commit)
  PROVE  /\ file' \in [Paths -> Ids \cup {Absent}] /\ inTx' \subseteq Conns
         /\ change' \in [Conns -> [Paths -> Ids \cup {Absent, Same}]]
         /\ lock' \in [Paths -> Conns \cup {NoConn}]
BY SeenTyped DEF DataTyped, EndTx, Untouched

\* What the tables and transactions hold keeps its types.
LEMMA DataStep ==
  ASSUME IInv, NEW p \in Calls, Act(p)
  PROVE  DataTyped'
<1> USE DEF DataTyped, database
<1>0. DataTyped
  BY TypeParts DEF IInv
<1>1. CASE Submit(p) \/ GetClient(p) \/ AutoPathRules(p) \/ WriteFails(p) \/ Refused(p)
           \/ Query(p) \/ DeleteLookup(p) \/ EachFile(p) \/ Release(p)
  BY <1>0, <1>1
  DEF Submit, GetClient, AutoPathRules, WriteFails, Refused, Query, DeleteLookup, EachFile, Release
<1>2. CASE Open(p)
  BY <1>0, <1>2 DEF Open, BeginTx, Closed
<1>3. CASE WriteBegin(p)
  BY <1>0, <1>3, InCall DEF WriteBegin, BeginTx, WritePcs
<1>4. CASE WriteLock(p)
  BY <1>0, <1>4, InCall DEF WriteLock, WritePcs
<1>5. CASE WriteRecord(p)
  <2>1. on[p] \in Conns /\ req[p].path \in Paths
    BY <1>5, InCall DEF WriteRecord, WritePcs
  <2> QED
    BY <1>0, <1>5, <2>1, PutTyped, SeenTyped DEF WriteRecord
<1>6. CASE WriteCommit(p)
  BY <1>0, <1>6, InCall, EndTyped DEF WriteCommit, CommitsOn, WritePcs
<1>7. CASE WriteRollback(p)
  BY <1>0, <1>7, InCall, EndTyped DEF WriteRollback, WritePcs
<1>8. CASE CloseOwn(p)
  <2>1. own[p] \in Conns
    BY <1>8, InCall DEF CloseOwn, IInv, Holding
  <2>2. (pc[p] = "close") \in BOOLEAN
    OBVIOUS
  <2> QED
    BY <1>0, <1>8, <2>1, <2>2, EndTyped DEF CloseOwn
<1>9. CASE DeleteBegin(p)
  BY <1>0, <1>9, InCall DEF DeleteBegin, BeginTx
<1>10. CASE DeleteLock(p)
  BY <1>0, <1>10, InCall DEF DeleteLock
<1>11. CASE DeleteRow(p)
  <2>1. on[p] \in Conns /\ req[p].path \in Paths
    BY <1>11, InCall DEF DeleteRow
  <2> QED
    BY <1>0, <1>11, <2>1, PutTyped DEF DeleteRow
<1>12. CASE DeleteCommit(p)
  BY <1>0, <1>12, InCall, EndTyped DEF DeleteCommit
<1>13. CASE DeleteRollback(p)
  BY <1>0, <1>13, InCall, EndTyped DEF DeleteRollback, Undo
<1>14. CASE DeleteFails(p)
  BY <1>0, <1>14, InCall, EndTyped DEF DeleteFails, Discard
<1> QED
  BY <1>1, <1>2, <1>3, <1>4, <1>5, <1>6, <1>7, <1>8, <1>9, <1>10, <1>11, <1>12, <1>13, <1>14
  DEF Act, Serve

\* So do the places and requests of the calls, ...
LEMMA CallsStep ==
  ASSUME IInv, NEW p \in Calls, Act(p)
  PROVE  CallsTyped' /\ PcTyped'
<1> USE DEF CallsTyped, PcTyped, Pcs, WritePcs, DeletePcs, Goto, locals
<1>a. CallsTyped /\ PcTyped /\ DataTyped
  BY TypeParts DEF IInv
<1>b. pc[p] # "idle" => /\ req[p] \in Request
                        /\ \A f \in Paths : [req[p] EXCEPT !.path = f] \in Request
                        /\ on[p] # NoConn => Seen(on[p], req[p].path) \in Ids \cup {Absent}
  BY <1>a, InCall, SeenTyped DEF Request
<1>1. CASE Open(p)
  BY <1>a, <1>b, <1>1 DEF Open, Answer
<1>2. CASE Refused(p)
  BY <1>a, <1>b, <1>2 DEF Refused, Answer
<1>3. CASE CloseOwn(p)
  BY <1>a, <1>b, <1>3 DEF CloseOwn, Answer
<1>4. CASE GetClient(p)
  BY <1>a, <1>b, <1>4 DEF GetClient
<1>5. CASE WriteBegin(p)
  BY <1>a, <1>b, <1>5 DEF WriteBegin
<1>6. CASE WriteLock(p)
  BY <1>a, <1>b, <1>6 DEF WriteLock
<1>7. CASE AutoPathRules(p)
  BY <1>a, <1>b, <1>7 DEF AutoPathRules
<1>8. CASE WriteRecord(p)
  BY <1>a, <1>b, <1>8 DEF WriteRecord
<1>9. CASE WriteCommit(p)
  BY <1>a, <1>b, <1>9 DEF WriteCommit
<1>10. CASE Release(p)
  BY <1>a, <1>b, <1>10 DEF Release, Answer
<1>11. CASE WriteRollback(p)
  BY <1>a, <1>b, <1>11 DEF WriteRollback, Answer
<1>12. CASE WriteFails(p)
  BY <1>a, <1>b, <1>12 DEF WriteFails
<1>13. CASE Query(p)
  BY <1>a, <1>b, <1>13 DEF Query
<1>14. CASE DeleteBegin(p)
  BY <1>a, <1>b, <1>14 DEF DeleteBegin
<1>15. CASE DeleteLookup(p)
  BY <1>a, <1>b, <1>15 DEF DeleteLookup
<1>16. CASE DeleteLock(p)
  BY <1>a, <1>b, <1>16 DEF DeleteLock
<1>17. CASE DeleteRow(p)
  BY <1>a, <1>b, <1>17 DEF DeleteRow
<1>18. CASE DeleteCommit(p)
  BY <1>a, <1>b, <1>18 DEF DeleteCommit, Answer
<1>19. CASE DeleteRollback(p)
  BY <1>a, <1>b, <1>19 DEF DeleteRollback, Answer
<1>20. CASE DeleteFails(p)
  BY <1>a, <1>b, <1>20 DEF DeleteFails
<1>21. CASE EachFile(p)
  BY <1>a, <1>b, <1>21 DEF EachFile, Answer
<1>22. CASE Submit(p)
  BY <1>a, <1>b, <1>22, ConstantsAssumption DEF Submit
<1> QED
  BY <1>1, <1>2, <1>3, <1>4, <1>5, <1>6, <1>7, <1>8, <1>9, <1>10, <1>11, <1>12,
       <1>13, <1>14, <1>15, <1>16, <1>17, <1>18, <1>19, <1>20, <1>21, <1>22
  DEF Act, Serve

\* ... and nobody else's change.
LEMMA OthersStay ==
  ASSUME IInv, NEW p \in Calls, Act(p)
  PROVE  \A q \in Calls \ {p} : pc'[q] = pc[q] /\ req'[q] = req[q]
<1> USE DEF IInv, TypeOK, PcTyped, Goto, Answer, locals
<1>1. CASE Open(p) \/ Refused(p) \/ CloseOwn(p) \/ GetClient(p) \/ WriteBegin(p) \/ WriteLock(p)
  BY <1>1 DEF Open, Refused, CloseOwn, GetClient, WriteBegin, WriteLock
<1>2. CASE AutoPathRules(p) \/ WriteRecord(p) \/ WriteCommit(p) \/ Release(p) \/ WriteRollback(p) \/ WriteFails(p)
  BY <1>2 DEF AutoPathRules, WriteRecord, WriteCommit, Release, WriteRollback, WriteFails
<1>3. CASE Query(p) \/ DeleteBegin(p) \/ DeleteLookup(p) \/ DeleteLock(p) \/ DeleteRow(p)
  BY <1>3 DEF Query, DeleteBegin, DeleteLookup, DeleteLock, DeleteRow
<1>4. CASE DeleteCommit(p) \/ DeleteRollback(p) \/ DeleteFails(p) \/ EachFile(p) \/ Submit(p)
  BY <1>4 DEF DeleteCommit, DeleteRollback, DeleteFails, EachFile, Submit
<1> QED
  BY <1>1, <1>2, <1>3, <1>4 DEF Act, Serve

-----------------------------------------------------------------------------
(* Every step keeps what the calls hold.                                   *)

LEMMA HoldingStep ==
  ASSUME IInv, NEW p \in Calls, Act(p), PoolTyped', PoolInv', OthersHold(p)
  PROVE  \A q \in Calls : Holding(q)'
<1>a. Holding(p) /\ PcTyped /\ CallsTyped /\ PoolTyped
  BY TypeParts DEF IInv
<1>b. pc[p] # "idle" => req[p] \in Request
  BY InCall
<1>c. \A q \in Calls \ {p} : Holding(q)'
  BY OthersStay DEF IInv, Holding, OthersHold
<1>d. /\ own[p] # NoConn => own[p] \in Conns /\ conn[own[p]] = "own" /\ own[p] # on[p]
      /\ on[p] # NoConn => on[p] \in Conns /\ conn[on[p]] \in {"out", "own"}
  BY <1>a DEF IInv, PoolInv, Accounted, Distinct, PoolTyped
<1>e. Holding(p)'
  <2> USE <1>a, <1>b, <1>d
      DEF Holding, PcTyped, CallsTyped, PoolTyped, WritePcs, DeletePcs, Goto, locals, pool, Request
  <2>1. CASE Open(p)
    BY <2>1, ConstantsAssumption DEF Open, Answer, Closed
  <2>2. CASE Refused(p)
    BY <2>2, ConstantsAssumption DEF Refused, Answer
  <2>3. CASE CloseOwn(p)
    BY <2>3, ConstantsAssumption DEF CloseOwn, Answer
  <2>4. CASE GetClient(p)
    <3>1. idle # << >> => idle[Len(idle)] \in Conns
      BY Popped DEF IInv, PoolInv
    <3> QED
      BY <2>4, <3>1, ConstantsAssumption DEF GetClient, Take, Closed
  <2>5. CASE WriteBegin(p)
    BY <2>5, ConstantsAssumption DEF WriteBegin
  <2>6. CASE WriteLock(p)
    BY <2>6, ConstantsAssumption DEF WriteLock
  <2>7. CASE AutoPathRules(p)
    BY <2>7, ConstantsAssumption DEF AutoPathRules
  <2>8. CASE WriteRecord(p)
    BY <2>8, ConstantsAssumption DEF WriteRecord
  <2>9. CASE WriteCommit(p)
    BY <2>9, ConstantsAssumption DEF WriteCommit
  <2>10. CASE Release(p)
    BY <2>10, ConstantsAssumption DEF Release, Answer, GiveBack
  <2>11. CASE WriteRollback(p)
    BY <2>11, ConstantsAssumption DEF WriteRollback, Answer, GiveBack
  <2>12. CASE WriteFails(p)
    BY <2>12, ConstantsAssumption DEF WriteFails
  <2>13. CASE Query(p)
    BY <2>13, ConstantsAssumption DEF Query, Take
  <2>14. CASE DeleteBegin(p)
    BY <2>14, ConstantsAssumption DEF DeleteBegin, Done, GiveBack
  <2>15. CASE DeleteLookup(p)
    BY <2>15, ConstantsAssumption DEF DeleteLookup, Done, GiveBack
  <2>16. CASE DeleteLock(p)
    BY <2>16, ConstantsAssumption DEF DeleteLock, Done, GiveBack
  <2>17. CASE DeleteRow(p)
    BY <2>17, ConstantsAssumption DEF DeleteRow, Done, GiveBack
  <2>18. CASE DeleteCommit(p)
    BY <2>18, ConstantsAssumption DEF DeleteCommit, Answer, Done, GiveBack
  <2>19. CASE DeleteRollback(p)
    BY <2>19, ConstantsAssumption DEF DeleteRollback, Answer, LeaveOpen, Done, GiveBack
  <2>20. CASE DeleteFails(p)
    BY <2>20, ConstantsAssumption DEF DeleteFails, Discard
  <2>21. CASE EachFile(p)
    BY <2>21, ConstantsAssumption DEF EachFile, Answer
  <2>22. CASE Submit(p)
    BY <2>22, ConstantsAssumption DEF Submit
  <2> QED
    BY <2>1, <2>2, <2>3, <2>4, <2>5, <2>6, <2>7, <2>8, <2>9, <2>10, <2>11, <2>12,
         <2>13, <2>14, <2>15, <2>16, <2>17, <2>18, <2>19, <2>20, <2>21, <2>22
    DEF Act, Serve
<1> QED
  BY <1>c, <1>e

-----------------------------------------------------------------------------
(* What is left open                                                       *)

\* A transaction that ends leaves nothing on its connection, and no statement
\* touches another one.
LEMMA EndCleans ==
  ASSUME DataTyped, NEW c \in Conns, NEW commit, EndTx(c, commit)
  PROVE  Clean(c)' /\ \A d \in Conns : Clean(d) => Clean(d)'
BY ConstantsAssumption DEF DataTyped, EndTx, Clean, Untouched

LEMMA PutElsewhere ==
  ASSUME DataTyped, NEW c \in Conns, NEW f \in Paths, NEW v, Put(c, f, v)
  PROVE  \A d \in Conns \ {c} : change'[d] = change[d]
BY DEF DataTyped, Put

LEMMA CleanElsewhere ==
  ASSUME IInv, NEW p \in Calls, Act(p), NEW d \in Conns, d \notin {on[p], own[p]},
         conn[d] = "left", Clean(d)
  PROVE  Clean(d)'
<1> USE DEF Clean, database
<1>0. DataTyped
  BY TypeParts DEF IInv
<1>1. CASE Submit(p) \/ GetClient(p) \/ AutoPathRules(p) \/ WriteFails(p) \/ Refused(p)
           \/ Query(p) \/ DeleteLookup(p) \/ EachFile(p) \/ Release(p)
  BY <1>1
  DEF Submit, GetClient, AutoPathRules, WriteFails, Refused, Query, DeleteLookup, EachFile, Release
<1>2. CASE Open(p)
  BY <1>2 DEF Open, BeginTx, Closed
<1>3. CASE WriteBegin(p) \/ DeleteBegin(p)
  BY <1>3 DEF WriteBegin, DeleteBegin, BeginTx
<1>4. CASE WriteLock(p) \/ DeleteLock(p)
  BY <1>0, <1>4 DEF WriteLock, DeleteLock, DataTyped
<1>5. CASE WriteRecord(p) \/ DeleteRow(p)
  <2>1. on[p] \in Conns /\ req[p].path \in Paths
    BY <1>5, InCall DEF WriteRecord, DeleteRow, WritePcs
  <2>2. change'[d] = change[d]
    BY <1>0, <1>5, <2>1, PutElsewhere DEF WriteRecord, DeleteRow
  <2> QED
    BY <1>5, <2>2 DEF WriteRecord, DeleteRow
<1>6. CASE WriteCommit(p) \/ WriteRollback(p)
  BY <1>0, <1>6, InCall, EndCleans DEF WriteCommit, CommitsOn, WriteRollback, WritePcs
<1>7. CASE CloseOwn(p)
  BY <1>0, <1>7, InCall, EndCleans DEF CloseOwn, IInv, Holding
<1>8. CASE DeleteCommit(p) \/ DeleteRollback(p) \/ DeleteFails(p)
  BY <1>0, <1>8, InCall, EndCleans DEF DeleteCommit, DeleteRollback, DeleteFails, Undo, Discard
<1> QED
  BY <1>1, <1>2, <1>3, <1>4, <1>5, <1>6, <1>7, <1>8 DEF Act, Serve

\* runInTransaction() and deleteDirectory() leave a connection after a ROLLBACK.
LEMMA LeftAfterRollback ==
  ASSUME IInv, NEW p \in Calls, Act(p), NEW c \in Conns, c \in {on[p], own[p]}, conn'[c] = "left"
  PROVE  Clean(c)'
<1> USE DEF pool, locals, Clean
<1>0. DataTyped /\ PoolTyped /\ Holding(p)
  BY TypeParts DEF IInv
<1>a. /\ conn[c] \in {"out", "own"}
      /\ on[p] = c => own[p] # c
  BY ConstantsAssumption DEF IInv, PoolInv, Accounted, Distinct
<1>1. CASE CloseOwn(p)
  <2>1. c = own[p]
    BY <1>0, <1>1, ConstantsAssumption DEF CloseOwn, Holding
  <2> QED
    BY <1>0, <1>1, <2>1, EndCleans DEF CloseOwn
<1>2. CASE DeleteRollback(p)
  <2>1. c = on[p]
    BY <1>0, <1>2, <1>a, ConstantsAssumption DEF DeleteRollback, Holding, DeletePcs
  <2> QED
    BY <1>0, <1>2, <2>1, EndCleans DEF DeleteRollback, Undo
<1>3. CASE Submit(p) \/ WriteBegin(p) \/ WriteLock(p) \/ AutoPathRules(p) \/ WriteRecord(p)
           \/ WriteCommit(p) \/ WriteFails(p) \/ Refused(p)
  BY <1>a, <1>3
  DEF Submit, WriteBegin, WriteLock, AutoPathRules, WriteRecord, WriteCommit, WriteFails, Refused
<1>4. CASE GetClient(p) \/ Query(p)
  BY <1>0, <1>a, <1>4 DEF GetClient, Query, Take, PoolTyped
<1>5. CASE Release(p) \/ WriteRollback(p)
  BY <1>0, <1>a, <1>5 DEF Release, WriteRollback, GiveBack, PoolTyped
<1>6. CASE Open(p) \/ EachFile(p)
  BY <1>0, <1>a, <1>6 DEF Open, EachFile, PoolTyped
<1>7. CASE DeleteBegin(p) \/ DeleteLookup(p) \/ DeleteLock(p) \/ DeleteRow(p) \/ DeleteCommit(p)
  BY <1>0, <1>a, <1>7
  DEF DeleteBegin, DeleteLookup, DeleteLock, DeleteRow, DeleteCommit, Done, GiveBack, PoolTyped
<1>8. CASE DeleteFails(p)
  BY <1>0, <1>a, <1>8 DEF DeleteFails, Discard, PoolTyped
<1> QED
  BY <1>1, <1>2, <1>3, <1>4, <1>5, <1>6, <1>7, <1>8 DEF Act, Serve

LEMMA CleanStep ==
  ASSUME IInv, NEW p \in Calls, Act(p), OthersHold(p)
  PROVE  LeftClean'
<1> SUFFICES ASSUME NEW c \in Conns, conn'[c] = "left" PROVE Clean(c)'
  BY DEF LeftClean
<1>1. CASE c \in {on[p], own[p]}
  BY <1>1, LeftAfterRollback
<1>2. CASE c \notin {on[p], own[p]}
  BY <1>2, CleanElsewhere DEF OthersHold, IInv, LeftClean
<1> QED
  BY <1>1, <1>2

-----------------------------------------------------------------------------

LEMMA Invariant == Spec => []IInv
<1>1. Init => IInv
  <2> SUFFICES ASSUME Init PROVE IInv
    OBVIOUS
  <2> USE ConstantsAssumption DEF Init
  <2>1. TypeOK /\ PcTyped
    <3>1. PoolTyped /\ PcTyped
      BY DEF PoolTyped, PcTyped, Pcs
    <3>2. DataTyped
      BY DEF DataTyped, Untouched
    <3>3. CallsTyped
      BY DEF CallsTyped
    <3> QED
      BY <3>1, <3>2, <3>3, TypeParts
  <2>2. PoolInv
    BY DEF PoolInv, Distinct, Stack, Accounted
  <2>3. LeftClean /\ \A p \in Calls : Holding(p)
    BY DEF LeftClean, Holding, WritePcs, DeletePcs
  <2> QED
    BY <2>1, <2>2, <2>3 DEF IInv
<1>2. IInv /\ [Next]_vars => IInv'
  <2> SUFFICES ASSUME IInv, [Next]_vars PROVE IInv'
    OBVIOUS
  <2>1. CASE UNCHANGED vars
    <3> USE <2>1 DEF vars, database, pool, locals
    <3>1. TypeOK' /\ PcTyped'
      BY DEF IInv, TypeOK, PcTyped
    <3>2. PoolInv'
      BY DEF IInv, PoolInv, Distinct, Stack, Accounted
    <3>3. LeftClean' /\ \A p \in Calls : Holding(p)'
      BY DEF IInv, LeftClean, Clean, Holding
    <3> QED
      BY <3>1, <3>2, <3>3 DEF IInv
  <2>2. ASSUME NEW p \in Calls, Act(p) PROVE IInv'
    <3>1. PoolTyped' /\ PoolInv' /\ OthersHold(p)
      BY <2>2, TypeParts, Kinds, PoolKept DEF IInv
    <3>2. DataTyped' /\ CallsTyped' /\ PcTyped'
      BY <2>2, DataStep, CallsStep
    <3>3. TypeOK'
      BY <3>1, <3>2 DEF TypeOK, PoolTyped, DataTyped, CallsTyped
    <3>4. \A q \in Calls : Holding(q)'
      BY <2>2, <3>1, HoldingStep
    <3>5. LeftClean'
      BY <2>2, <3>1, CleanStep
    <3> QED
      BY <3>1, <3>2, <3>3, <3>4, <3>5 DEF IInv
  <2> QED
    BY <2>1, <2>2 DEF Next, Act
<1> QED
  BY <1>1, <1>2, PTL DEF Spec

\* However many calls share the pool and whatever fails: the connection a call
\* holds is its own, the pool hands none out twice and forgets none, and what a
\* failed runInTransaction() or deleteDirectory() leaves open holds no
\* transaction, no lock and no changed row.
THEOREM ConnectionsKept == Spec => []PoolConsistent
<1>1. IInv => PoolConsistent
  BY DEF IInv, PoolInv, Distinct, Stack, Accounted, LeftClean, Clean, PoolConsistent
<1> QED
  BY <1>1, Invariant, PTL

-----------------------------------------------------------------------------
(* What a write() has reported stays.                                      *)

\* A call without others has its paths for itself, ...
AloneMeans ==
  \A p \in Calls : alone[p] =>
    /\ req[p] # NoReq
    /\ \A q \in Calls \ {p} : req[q] # NoReq => Touches(req[q]) \cap Touches(req[p]) = {}

\* ... so that a file is there as soon as its write() has committed, and nothing
\* that is still pending in a connection can remove it.
Stored(f) == file[f] # Absent /\ \A d \in Conns : change[d][f] = Same
Written(p) ==
  alone[p] =>
    /\ pc[p] = "commit" => Seen(on[p], req[p].path) # Absent /\ RowFree(on[p], req[p].path)
    /\ pc[p] \in {"release", "close"} => Stored(req[p].path)

\* What is said to be there is, and nobody works on it.
Reported ==
  \A f \in Paths : acked[f] = "there" =>
    Stored(f) /\ \A p \in Calls : req[p] # NoReq => f \notin Touches(req[p])

AnswersTyped == alone \in [Calls -> BOOLEAN] /\ acked \in [Paths -> {"none", "there", "gone"}]

\* A connection without a transaction has nothing pending.
Outside == \A c \in Conns : c \notin inTx => change[c] = Untouched

AckInv == AnswersTyped /\ AloneMeans /\ Outside /\ Reported /\ \A p \in Calls : Written(p)

\* A statement about one file leaves the others alone.
LEMMA PutOther ==
  ASSUME DataTyped, NEW c \in Conns, NEW f \in Paths, NEW v, Put(c, f, v),
         NEW g \in Paths, g # f
  PROVE  file'[g] = file[g] /\ \A d \in Conns : change'[d][g] = change[d][g]
BY DEF DataTyped, Put

\* A call on other paths changes nothing of f, neither in the tables, where no
\* connection but c has f pending, nor on c, which is not one of its own.
LEMMA Bystander ==
  ASSUME IInv, NEW p \in Calls, Act(p), NEW f \in Paths, NEW c,
         req[p] # NoReq => f \notin Touches(req[p]),
         c # NoConn => c \notin {on[p], own[p]},
         \A d \in Conns \ {c} : change[d][f] = Same
  PROVE  file'[f] = file[f] /\ \A d \in Conns : change'[d][f] = change[d][f]
<1> USE DEF database
<1>0. DataTyped /\ Holding(p)
  BY TypeParts DEF IInv
<1>a. pc[p] # "idle" => req[p] # NoReq /\ req[p].path \in Paths /\ f # req[p].path
  BY InCall DEF IInv, Holding, Touches
<1>b. ASSUME NEW d \in Conns, d \in {on[p], own[p]}, NEW commit \in BOOLEAN, EndTx(d, commit)
      PROVE  file'[f] = file[f] /\ \A e \in Conns : change'[e][f] = change[e][f]
  <2>1. change[d][f] = Same
    BY <1>b, ConstantsAssumption DEF IInv, TypeOK
  <2> QED
    BY <1>0, <1>b, <2>1 DEF EndTx, Seen, Untouched, DataTyped
<1>1. CASE Submit(p) \/ GetClient(p) \/ AutoPathRules(p) \/ WriteFails(p) \/ Refused(p)
           \/ Query(p) \/ DeleteLookup(p) \/ EachFile(p) \/ Release(p)
  BY <1>1
  DEF Submit, GetClient, AutoPathRules, WriteFails, Refused, Query, DeleteLookup, EachFile, Release
<1>2. CASE Open(p) \/ WriteBegin(p) \/ DeleteBegin(p)
  BY <1>2 DEF Open, WriteBegin, DeleteBegin, BeginTx
<1>3. CASE WriteLock(p) \/ DeleteLock(p)
  BY <1>3 DEF WriteLock, DeleteLock
<1>4. CASE WriteRecord(p) \/ DeleteRow(p)
  <2>1. on[p] \in Conns /\ req[p].path \in Paths /\ f # req[p].path
    BY <1>a, <1>4, InCall DEF WriteRecord, DeleteRow, WritePcs
  <2> QED
    BY <1>0, <1>4, <2>1, PutOther DEF WriteRecord, DeleteRow
<1>5. CASE WriteCommit(p) \/ WriteRollback(p)
  BY <1>5, <1>b, InCall DEF WriteCommit, CommitsOn, WriteRollback, WritePcs
<1>6. CASE CloseOwn(p)
  BY <1>0, <1>6, <1>b, InCall DEF CloseOwn, Holding
<1>7. CASE DeleteCommit(p) \/ DeleteRollback(p) \/ DeleteFails(p)
  BY <1>7, <1>b, InCall DEF DeleteCommit, DeleteRollback, DeleteFails, Undo, Discard
<1> QED
  BY <1>1, <1>2, <1>3, <1>4, <1>5, <1>6, <1>7 DEF Act, Serve

\* How a step changes the calls: one begins, one ends, or one goes on with the
\* same paths.
LEMMA RequestSteps ==
  ASSUME IInv, AnswersTyped, NEW p \in Calls, Act(p)
  PROVE  \/ Submit(p)
         \/ /\ req'[p] = NoReq /\ ~alone'[p] /\ \A q \in Calls \ {p} : alone'[q] = alone[q]
         \/ /\ req[p] # NoReq /\ req'[p] # NoReq /\ Touches(req'[p]) = Touches(req[p])
            /\ alone' = alone
<1> USE DEF IInv, TypeOK, AnswersTyped, Answer, locals, answers
<1>0. pc[p] # "idle" => req[p] # NoReq /\ req[p] \in Request
  BY InCall DEF Holding
<1>1. CASE Open(p) \/ Refused(p) \/ CloseOwn(p)
  BY <1>0, <1>1 DEF Open, Refused, CloseOwn, Remember, DeletePcs
<1>2. CASE GetClient(p) \/ WriteBegin(p) \/ WriteLock(p) \/ AutoPathRules(p) \/ WriteRecord(p)
  BY <1>0, <1>2 DEF GetClient, WriteBegin, WriteLock, AutoPathRules, WriteRecord
<1>3. CASE WriteCommit(p) \/ Release(p) \/ WriteRollback(p) \/ WriteFails(p)
  BY <1>0, <1>3 DEF WriteCommit, Release, WriteRollback, WriteFails, Remember
<1>4. CASE Query(p) \/ DeleteBegin(p) \/ DeleteLookup(p) \/ DeleteLock(p) \/ DeleteRow(p)
  BY <1>0, <1>4 DEF Query, DeleteBegin, DeleteLookup, DeleteLock, DeleteRow, DeletePcs
<1>5. CASE DeleteCommit(p) \/ DeleteRollback(p) \/ DeleteFails(p)
  BY <1>0, <1>5 DEF DeleteCommit, DeleteRollback, DeleteFails, Remember
<1>6. CASE EachFile(p)
  <2>1. CASE \E f \in todo[p] : req' = [req EXCEPT ![p].path = f] /\ UNCHANGED alone
    <3>1. req[p].op = "rmdir" /\ req[p] \in Request
      BY <1>0, <1>6 DEF EachFile, Holding
    <3>2. PICK f \in todo[p] : req' = [req EXCEPT ![p].path = f] /\ UNCHANGED alone
      BY <2>1
    <3>3. req'[p] = [req[p] EXCEPT !.path = f] /\ f \in Paths
      BY <3>2
    <3>4. req'[p] \in Request /\ req'[p].op = "rmdir"
      BY <3>1, <3>3 DEF Request
    <3> QED
      BY <1>0, <1>6, <3>1, <3>2, <3>4, ConstantsAssumption DEF EachFile, Touches
  <2>2. CASE todo[p] = {} /\ Answer(p)
    BY <2>2
  <2> QED
    BY <1>6, <2>1, <2>2 DEF EachFile
<1> QED
  BY <1>1, <1>2, <1>3, <1>4, <1>5, <1>6 DEF Act, Serve

-----------------------------------------------------------------------------
(* Every step keeps what has been said.                                    *)

LEMMA TypedStep ==
  ASSUME IInv, AnswersTyped, NEW p \in Calls, Act(p)
  PROVE  AnswersTyped'
<1> USE DEF AnswersTyped, Answer, Remember, locals, answers
<1>1. CASE Open(p) \/ Refused(p) \/ CloseOwn(p) \/ Submit(p)
  BY <1>1 DEF Open, Refused, CloseOwn, Submit
<1>2. CASE GetClient(p) \/ WriteBegin(p) \/ WriteLock(p) \/ AutoPathRules(p) \/ WriteRecord(p)
  BY <1>2 DEF GetClient, WriteBegin, WriteLock, AutoPathRules, WriteRecord
<1>3. CASE WriteCommit(p) \/ Release(p) \/ WriteRollback(p) \/ WriteFails(p)
  BY <1>3 DEF WriteCommit, Release, WriteRollback, WriteFails
<1>4. CASE Query(p) \/ DeleteBegin(p) \/ DeleteLookup(p) \/ DeleteLock(p) \/ DeleteRow(p)
  BY <1>4 DEF Query, DeleteBegin, DeleteLookup, DeleteLock, DeleteRow
<1>5. CASE DeleteCommit(p) \/ DeleteRollback(p) \/ DeleteFails(p) \/ EachFile(p)
  BY <1>5 DEF DeleteCommit, DeleteRollback, DeleteFails, EachFile
<1> QED
  BY <1>1, <1>2, <1>3, <1>4, <1>5 DEF Act, Serve

\* Two calls that are alone, or one of them, share no path.
LEMMA AloneStep ==
  ASSUME IInv, AnswersTyped, AloneMeans, NEW p \in Calls, Act(p)
  PROVE  AloneMeans'
<1>0. \A q \in Calls \ {p} : req'[q] = req[q]
  BY OthersStay
<1>1. CASE Submit(p)
  <2>1. PICK r \in Requests :
          /\ req' = [req EXCEPT ![p] = r]
          /\ alone' = [q \in Calls |-> IF q = p THEN Overlaps(p, r) = {}
                                       ELSE alone[q] /\ q \notin Overlaps(p, r)]
    BY <1>1 DEF Submit
  <2>2. req'[p] = r /\ r # NoReq
    BY <2>1, ConstantsAssumption DEF IInv, TypeOK
  <2> QED
    BY <1>0, <2>1, <2>2 DEF AloneMeans, Overlaps
<1>2. CASE ~Submit(p)
  BY <1>0, <1>2, RequestSteps DEF AloneMeans
<1> QED
  BY <1>1, <1>2

\* What is done outside a transaction is done at once: no connection without a
\* transaction has changes pending.
LEMMA OutsideStep ==
  ASSUME IInv, Outside, NEW p \in Calls, Act(p)
  PROVE  Outside'
<1> USE DEF Outside, database
<1>0. DataTyped /\ Holding(p)
  BY TypeParts DEF IInv
<1>a. ASSUME NEW c \in Conns, NEW commit, EndTx(c, commit)
      PROVE  Outside'
  BY <1>0, <1>a DEF EndTx, DataTyped
<1>b. ASSUME NEW c \in Conns, NEW f \in Paths, NEW v, Put(c, f, v), inTx' = inTx
      PROVE  Outside'
  BY <1>0, <1>b DEF Put, DataTyped
<1>1. CASE Submit(p) \/ GetClient(p) \/ AutoPathRules(p) \/ WriteFails(p) \/ Refused(p)
           \/ Query(p) \/ DeleteLookup(p) \/ EachFile(p) \/ Release(p)
  BY <1>1
  DEF Submit, GetClient, AutoPathRules, WriteFails, Refused, Query, DeleteLookup, EachFile, Release
<1>2. CASE Open(p) \/ WriteBegin(p) \/ DeleteBegin(p)
  BY <1>2 DEF Open, WriteBegin, DeleteBegin, BeginTx
<1>3. CASE WriteLock(p) \/ DeleteLock(p)
  BY <1>3 DEF WriteLock, DeleteLock
<1>4. CASE WriteRecord(p) \/ DeleteRow(p)
  <2>1. on[p] \in Conns /\ req[p].path \in Paths /\ inTx' = inTx
    BY <1>4, InCall DEF WriteRecord, DeleteRow, WritePcs
  <2> QED
    BY <1>4, <1>b, <2>1 DEF WriteRecord, DeleteRow
<1>5. CASE WriteCommit(p) \/ WriteRollback(p)
  BY <1>5, <1>a, InCall DEF WriteCommit, CommitsOn, WriteRollback, WritePcs
<1>6. CASE CloseOwn(p)
  BY <1>0, <1>6, <1>a, InCall DEF CloseOwn, Holding
<1>7. CASE DeleteCommit(p) \/ DeleteRollback(p) \/ DeleteFails(p)
  BY <1>7, <1>a, InCall DEF DeleteCommit, DeleteRollback, DeleteFails, Undo, Discard
<1> QED
  BY <1>1, <1>2, <1>3, <1>4, <1>5, <1>6, <1>7 DEF Act, Serve

\* The file of a call that is alone, while another one steps: ...
LEMMA OtherWritten ==
  ASSUME IInv, AckInv, NEW p \in Calls, Act(p), NEW q \in Calls \ {p}
  PROVE  Written(q)'
<1> SUFFICES ASSUME alone'[q], pc'[q] \in {"commit", "release", "close"} PROVE Written(q)'
  BY DEF Written
<1> DEFINE f == req[q].path
<1>1. pc'[q] = pc[q] /\ req'[q] = req[q] /\ on'[q] = on[q]
  BY OthersStay, TypeParts, Kinds, PoolKept DEF IInv, OthersHold
<1>2. alone[q]
  <2>1. CASE Submit(p)
    BY <2>1 DEF Submit
  <2> QED
    BY <2>1, RequestSteps DEF AckInv
<1>3. /\ req[q] # NoReq /\ f \in Paths /\ f \in Touches(req[q])
      /\ pc[q] = "commit" => on[q] \in Conns
  BY <1>1, InCall, ConstantsAssumption DEF Touches, WritePcs
<1>4. req[p] # NoReq => f \notin Touches(req[p])
  BY <1>2, <1>3 DEF AckInv, AloneMeans
<1>5. CASE pc[q] = "commit"
  <2> DEFINE c == on[q]
  <2>1. c \in Conns /\ Seen(c, f) # Absent /\ \A d \in Conns \ {c} : change[d][f] = Same
    BY <1>2, <1>3, <1>5 DEF AckInv, Written, RowFree
  <2>2. c \notin {on[p], own[p]}
    BY <2>1, ConstantsAssumption DEF IInv, PoolInv, Distinct
  <2>3. file'[f] = file[f] /\ \A d \in Conns : change'[d][f] = change[d][f]
    <3>1. c # NoConn => c \notin {on[p], own[p]}
      BY <2>2
    <3> HIDE DEF c, f
    <3> QED
      BY <1>3, <1>4, <2>1, <3>1, Bystander
  <2> QED
    BY <1>1, <1>5, <2>1, <2>3 DEF Written, Seen, RowFree
<1>6. CASE pc[q] \in {"release", "close"}
  <2>1. file[f] # Absent /\ \A d \in Conns : change[d][f] = Same
    BY <1>2, <1>6 DEF AckInv, Written, Stored
  <2>2. file'[f] = file[f] /\ \A d \in Conns : change'[d][f] = change[d][f]
    <3> DEFINE c == NoConn
    <3>1. /\ c # NoConn => c \notin {on[p], own[p]}
          /\ \A d \in Conns \ {c} : change[d][f] = Same
      BY <2>1
    <3> HIDE DEF c, f
    <3> QED
      BY <1>3, <1>4, <3>1, Bystander
  <2> QED
    BY <1>1, <1>6, <2>1, <2>2 DEF Written, Stored
<1> QED
  BY <1>1, <1>5, <1>6

\* ... and while it steps itself.
LEMMA OwnWritten ==
  ASSUME IInv, AckInv, NEW p \in Calls, Act(p)
  PROVE  Written(p)'
<1> DEFINE f == req[p].path
<1>0. DataTyped /\ Holding(p) /\ PcTyped
  BY TypeParts DEF IInv
<1>1. CASE WriteRecord(p)
  <2> DEFINE c == on[p]
  <2>1. c \in Conns /\ f \in Paths /\ Seen(c, f) \in Ids \cup {Absent} /\ RowFree(c, f)
    BY <1>0, <1>1, InCall, SeenTyped DEF WriteRecord, WritePcs
  <2>2. req' = req /\ on' = on /\ inTx' = inTx
    BY <1>1 DEF WriteRecord, pool, locals
  <2>3. CASE pc'[p] = "commit"
    <3>1. PICK v \in Ids : Put(c, f, v)
      BY <1>0, <1>1, <2>1, <2>3 DEF WriteRecord, Goto, PcTyped
    <3>2. v # Absent /\ v # Same
      BY ConstantsAssumption
    <3>3. Seen(c, f)' = v
      <4>1. CASE c \in inTx
        BY <1>0, <2>1, <2>2, <3>1, <3>2, <4>1 DEF Put, Seen, DataTyped
      <4>2. CASE c \notin inTx
        <5>1. change[c] = Untouched /\ change' = change
          BY <2>1, <3>1, <4>2 DEF AckInv, Outside, Put
        <5> QED
          BY <1>0, <2>1, <2>2, <3>1, <4>2, <5>1 DEF Put, Seen, DataTyped, Untouched
      <4> QED
        BY <4>1, <4>2
    <3>4. \A d \in Conns \ {c} : change'[d][f] = Same
      BY <1>0, <2>1, <3>1, PutElsewhere DEF RowFree
    <3> QED
      BY <2>2, <2>3, <3>2, <3>3, <3>4 DEF Written, RowFree, Seen
  <2>4. CASE pc'[p] # "commit"
    BY <1>0, <1>1, <2>4 DEF WriteRecord, Goto, PcTyped, Written
  <2> QED
    BY <2>3, <2>4
<1>2. CASE WriteCommit(p)
  <2> DEFINE c == on[p]
  <2>1. c \in Conns /\ f \in Paths
    BY <1>2, InCall DEF WriteCommit, WritePcs
  <2>2. /\ pc[p] = "commit" /\ EndTx(c, TRUE) /\ pc' = [pc EXCEPT ![p] = "release"]
        /\ req' = req /\ alone' = alone
    BY <1>2 DEF WriteCommit, CommitsOn, Goto, locals, answers
  <2>3. alone[p] => Seen(c, f) # Absent /\ \A d \in Conns \ {c} : change[d][f] = Same
    BY <2>2 DEF AckInv, Written, RowFree
  <2>4. alone[p] => file'[f] # Absent /\ \A d \in Conns : change'[d][f] = Same
    BY <1>0, <2>1, <2>2, <2>3 DEF EndTx, Untouched, DataTyped
  <2> QED
    BY <1>0, <2>2, <2>4 DEF Written, Stored, PcTyped
<1>3. CASE Release(p)
  <2>1. pc[p] = "release" /\ file' = file /\ change' = change
    BY <1>3 DEF Release, database
  <2>2. CASE own[p] = NoConn
    BY <1>0, <1>3, <2>2 DEF Release, Answer, Goto, Written, PcTyped
  <2>3. CASE own[p] # NoConn
    BY <1>0, <1>3, <2>1, <2>3 DEF Release, Goto, answers, AckInv, Written, Stored, PcTyped
  <2> QED
    BY <2>2, <2>3
<1>4. CASE ~(WriteRecord(p) \/ WriteCommit(p) \/ Release(p))
  <2>1. pc'[p] \notin {"commit", "release", "close"}
    <3> USE DEF PcTyped, Goto, Answer
    <3>1. CASE Open(p) \/ Refused(p) \/ CloseOwn(p) \/ Submit(p)
      BY <1>0, <3>1 DEF Open, Refused, CloseOwn, Submit, DeletePcs
    <3>2. CASE GetClient(p) \/ WriteBegin(p) \/ WriteLock(p) \/ AutoPathRules(p)
               \/ WriteRollback(p) \/ WriteFails(p)
      BY <1>0, <3>2 DEF GetClient, WriteBegin, WriteLock, AutoPathRules, WriteRollback, WriteFails
    <3>3. CASE Query(p) \/ DeleteBegin(p) \/ DeleteLookup(p) \/ DeleteLock(p) \/ DeleteRow(p)
      BY <1>0, <3>3 DEF Query, DeleteBegin, DeleteLookup, DeleteLock, DeleteRow, DeletePcs
    <3>4. CASE DeleteCommit(p) \/ DeleteRollback(p) \/ DeleteFails(p) \/ EachFile(p)
      BY <1>0, <3>4 DEF DeleteCommit, DeleteRollback, DeleteFails, EachFile
    <3> QED
      BY <1>4, <3>1, <3>2, <3>3, <3>4 DEF Act, Serve
  <2> QED
    BY <2>1 DEF Written
<1> QED
  BY <1>1, <1>2, <1>3, <1>4

\* A success is reported by write() once it has given its client back, and by
\* runInTransaction() once it has committed; nothing else says a file is there.
LEMMA Reports ==
  ASSUME IInv, AckInv, NEW p \in Calls, Act(p), NEW f \in Paths, acked'[f] = "there"
  PROVE  \/ acked[f] = "there" /\ (Submit(p) => f \notin Touches(req'[p]))
         \/ /\ alone[p] /\ pc[p] \in {"release", "close"} /\ f = req[p].path
            /\ req'[p] = NoReq
<1> USE DEF Remember, answers, AckInv, AnswersTyped
<1>0. req \in [Calls -> Request \cup {NoReq}]
  BY DEF IInv, TypeOK
<1>1. CASE Submit(p)
  BY <1>0, <1>1 DEF Submit
<1>2. CASE Release(p) \/ CloseOwn(p)
  BY <1>0, <1>2 DEF Release, CloseOwn, Answer, Submit
<1>3. CASE GetClient(p) \/ WriteBegin(p) \/ WriteLock(p) \/ AutoPathRules(p) \/ WriteRecord(p)
           \/ Open(p) \/ Refused(p)
  BY <1>3 DEF GetClient, WriteBegin, WriteLock, AutoPathRules, WriteRecord, Open, Refused,
              DeletePcs, Submit
<1>4. CASE WriteCommit(p) \/ WriteRollback(p) \/ WriteFails(p)
  BY <1>4 DEF WriteCommit, WriteRollback, WriteFails, Submit
<1>5. CASE Query(p) \/ DeleteBegin(p) \/ DeleteLookup(p) \/ DeleteLock(p) \/ DeleteRow(p)
  BY <1>5 DEF Query, DeleteBegin, DeleteLookup, DeleteLock, DeleteRow, DeletePcs, Submit
<1>6. CASE DeleteCommit(p) \/ DeleteRollback(p) \/ DeleteFails(p) \/ EachFile(p)
  BY <1>6 DEF DeleteCommit, DeleteRollback, DeleteFails, EachFile, Submit
<1> QED
  BY <1>1, <1>2, <1>3, <1>4, <1>5, <1>6 DEF Act, Serve

LEMMA AnswersLast ==
  ASSUME NEW p \in Calls, Act(p), pc[p] \in {"release", "close"}
  PROVE  Release(p) \/ CloseOwn(p)
BY DEF Act, Serve, Submit, Open, Refused, GetClient, WriteBegin, WriteLock, AutoPathRules,
       WriteRecord, WriteCommit, WriteRollback, WriteFails, Query, DeleteBegin, DeleteLookup,
       DeleteLock, DeleteRow, DeleteCommit, DeleteRollback, DeleteFails, EachFile, DeletePcs

LEMMA ReportedStep ==
  ASSUME IInv, AckInv, NEW p \in Calls, Act(p)
  PROVE  Reported'
<1> SUFFICES ASSUME NEW f \in Paths, acked'[f] = "there"
             PROVE  /\ file'[f] # Absent /\ \A d \in Conns : change'[d][f] = Same
                    /\ \A q \in Calls : req'[q] # NoReq => f \notin Touches(req'[q])
  BY DEF Reported, Stored
<1>1. \A q \in Calls \ {p} : req'[q] = req[q]
  BY OthersStay
<1>2. CASE acked[f] = "there" /\ (Submit(p) => f \notin Touches(req'[p]))
  <2>1. /\ file[f] # Absent /\ \A d \in Conns : change[d][f] = Same
        /\ \A q \in Calls : req[q] # NoReq => f \notin Touches(req[q])
    BY <1>2 DEF AckInv, Reported, Stored
  <2>2. file'[f] = file[f] /\ \A d \in Conns : change'[d][f] = change[d][f]
    BY <2>1, Bystander
  <2>3. req'[p] # NoReq => f \notin Touches(req'[p])
    BY <1>2, <2>1, RequestSteps DEF AckInv
  <2> QED
    BY <1>1, <2>1, <2>2, <2>3
<1>3. CASE /\ alone[p] /\ pc[p] \in {"release", "close"} /\ f = req[p].path
           /\ req'[p] = NoReq
  <2>1. file[f] # Absent /\ \A d \in Conns : change[d][f] = Same
    BY <1>3 DEF AckInv, Written, Stored
  <2>2. file'[f] = file[f] /\ \A d \in Conns : change'[d][f] = change[d][f]
    <3>1. CASE Release(p)
      BY <3>1 DEF Release, database
    <3>2. CASE CloseOwn(p)
      <4>1. own[p] \in Conns /\ EndTx(own[p], pc[p] = "close")
        BY <1>3, <3>2, InCall DEF CloseOwn, IInv, Holding
      <4> QED
        BY <2>1, <4>1 DEF EndTx, Seen, Untouched, IInv, TypeOK
    <3> QED
      BY <1>3, <3>1, <3>2, AnswersLast
  <2>3. \A q \in Calls \ {p} : req[q] # NoReq => f \notin Touches(req[q])
    <3>1. f \in Touches(req[p])
      BY <1>3 DEF Touches
    <3> QED
      BY <1>3, <3>1 DEF AckInv, AloneMeans
  <2> QED
    BY <1>1, <1>3, <2>1, <2>2, <2>3
<1> QED
  BY <1>2, <1>3, Reports

\* However many calls share the pool, whatever fails and whatever transactions
\* are left over in its connections: a file of which a write() or a copy has
\* reported success, with no other call on the path in between, is there until
\* the next call that may change it begins.
THEOREM WritesStay == Spec => []AckedWritesStay
<1>1. Init => AckInv
  BY ConstantsAssumption
  DEF Init, AckInv, AnswersTyped, AloneMeans, Outside, Reported, Written
<1>2. IInv /\ AckInv /\ [Next]_vars => AckInv'
  <2> SUFFICES ASSUME IInv, AckInv, [Next]_vars PROVE AckInv'
    OBVIOUS
  <2>1. CASE UNCHANGED vars
    <3>1. /\ file' = file /\ change' = change /\ inTx' = inTx /\ pc' = pc /\ req' = req
          /\ on' = on /\ alone' = alone /\ acked' = acked
      BY <2>1 DEF vars, database, locals, answers
    <3> QED
      BY <3>1 DEF AckInv, AnswersTyped, AloneMeans, Outside, Reported, Written, Stored, Seen,
                  RowFree
  <2>2. ASSUME NEW p \in Calls, Act(p) PROVE AckInv'
    <3>1. AnswersTyped' /\ AloneMeans' /\ Outside'
      BY <2>2, TypedStep, AloneStep, OutsideStep DEF AckInv
    <3>2. \A q \in Calls : Written(q)'
      BY <2>2, OtherWritten, OwnWritten
    <3>3. Reported'
      BY <2>2, ReportedStep
    <3> QED
      BY <3>1, <3>2, <3>3 DEF AckInv
  <2> QED
    BY <2>1, <2>2 DEF Next, Act
<1>3. AckInv => AckedWritesStay
  BY DEF AckInv, Reported, Stored, AckedWritesStay
<1> QED
  BY <1>1, <1>2, <1>3, Invariant, PTL DEF Spec

-----------------------------------------------------------------------------
(* What calls may wait for.                                                *)

\* Locks and changes are those of open transactions, and a write() is in one.
InBlock == \A p \in Calls : pc[p] \in {"lock", "rules", "record", "commit"} => on[p] \in inTx
Locked == \A f \in Paths : lock[f] # NoConn => lock[f] \in inTx

\* Nobody waits for the transaction runInTransaction() has open: all that
\* copyFile() does in it runs on another connection.
Bare(c) == change[c] = Untouched /\ \A f \in Paths : lock[f] # c
OwnBare ==
  /\ \A c \in Conns : conn[c] = "closed" => Bare(c)
  /\ \A p \in Calls : own[p] # NoConn => Bare(own[p])
  /\ \A p \in Calls : pc[p] = "each" => Bare(on[p])

\* The rules are read for the first file there ever is.
FirstFile ==
  ~cached => /\ \A f \in Paths : file[f] = Absent
             /\ \A c \in Conns, f \in Paths : change[c][f] \in {Absent, Same}
             /\ \A p \in Calls : pc[p] \notin {"record", "dlock", "dremove"}

WaitInv == InBlock /\ Locked /\ Outside /\ OwnBare /\ FirstFile

LEMMA InBlockStep ==
  ASSUME IInv, InBlock, NEW p \in Calls, Act(p), OthersHold(p)
  PROVE  InBlock'
<1> USE DEF InBlock, PcTyped, Goto, Answer, database, pool, locals
<1>0. PcTyped /\ DataTyped /\ Holding(p)
  BY TypeParts DEF IInv
<1>1. ASSUME NEW q \in Calls \ {p}, pc'[q] \in {"lock", "rules", "record", "commit"}
      PROVE  on'[q] \in inTx'
  <2>1. on'[q] = on[q] /\ on[q] \in inTx /\ on[q] \in Conns
    BY <1>1, OthersStay DEF OthersHold, IInv, TypeOK, DataTyped
  <2>2. on[q] \notin {on[p], own[p]}
    BY <2>1, ConstantsAssumption DEF IInv, PoolInv, Distinct
  <2>3. \A c \in inTx \ {on[p], own[p]} : c \in inTx'
    <3> USE DEF EndTx, BeginTx
    <3>1. CASE Submit(p) \/ GetClient(p) \/ AutoPathRules(p) \/ WriteFails(p) \/ Refused(p)
               \/ Query(p) \/ DeleteLookup(p) \/ EachFile(p) \/ Release(p)
      BY <3>1 DEF Submit, GetClient, AutoPathRules, WriteFails, Refused, Query, DeleteLookup,
                  EachFile, Release
    <3>2. CASE Open(p) \/ WriteBegin(p) \/ DeleteBegin(p) \/ WriteLock(p) \/ DeleteLock(p)
               \/ WriteRecord(p) \/ DeleteRow(p)
      BY <3>2 DEF Open, WriteBegin, DeleteBegin, WriteLock, DeleteLock, WriteRecord, DeleteRow
    <3>3. CASE WriteCommit(p) \/ WriteRollback(p) \/ CloseOwn(p)
      BY <3>3 DEF WriteCommit, CommitsOn, WriteRollback, CloseOwn
    <3>4. CASE DeleteCommit(p) \/ DeleteRollback(p) \/ DeleteFails(p)
      BY <3>4 DEF DeleteCommit, DeleteRollback, DeleteFails, Undo, Discard
    <3> QED
      BY <3>1, <3>2, <3>3, <3>4 DEF Act, Serve
  <2> QED
    BY <2>1, <2>2, <2>3
<1>2. ASSUME pc'[p] \in {"lock", "rules", "record", "commit"}
      PROVE  on'[p] \in inTx'
  <2>1. CASE WriteBegin(p)
    BY <1>0, <2>1 DEF WriteBegin, BeginTx
  <2>2. CASE WriteLock(p) \/ AutoPathRules(p) \/ WriteRecord(p)
    BY <1>0, <2>2 DEF WriteLock, AutoPathRules, WriteRecord, InBlock
  <2>3. CASE WriteCommit(p) \/ Release(p) \/ WriteRollback(p) \/ WriteFails(p)
    BY <1>0, <1>2, <2>3 DEF WriteCommit, Release, WriteRollback, WriteFails
  <2>4. CASE Open(p) \/ Refused(p) \/ CloseOwn(p) \/ Submit(p) \/ GetClient(p)
    BY <1>0, <1>2, <2>4 DEF Open, Refused, CloseOwn, Submit, GetClient
  <2>5. CASE Query(p) \/ DeleteBegin(p) \/ DeleteLookup(p) \/ DeleteLock(p) \/ DeleteRow(p)
    BY <1>0, <1>2, <2>5 DEF Query, DeleteBegin, DeleteLookup, DeleteLock, DeleteRow, DeletePcs
  <2>6. CASE DeleteCommit(p) \/ DeleteRollback(p) \/ DeleteFails(p) \/ EachFile(p)
    BY <1>0, <1>2, <2>6 DEF DeleteCommit, DeleteRollback, DeleteFails, EachFile
  <2> QED
    BY <2>1, <2>2, <2>3, <2>4, <2>5, <2>6 DEF Act, Serve
<1> QED
  BY <1>1, <1>2

LEMMA LockedStep ==
  ASSUME IInv, Locked, InBlock, NEW p \in Calls, Act(p)
  PROVE  Locked'
<1> USE DEF Locked, database
<1>0. DataTyped /\ Holding(p)
  BY TypeParts DEF IInv
<1>a. ASSUME NEW c, NEW commit, EndTx(c, commit)
      PROVE  Locked'
  BY <1>0, <1>a DEF EndTx, DataTyped
<1>1. CASE Submit(p) \/ GetClient(p) \/ AutoPathRules(p) \/ WriteFails(p) \/ Refused(p)
           \/ Query(p) \/ DeleteLookup(p) \/ EachFile(p) \/ Release(p)
  BY <1>1
  DEF Submit, GetClient, AutoPathRules, WriteFails, Refused, Query, DeleteLookup, EachFile, Release
<1>2. CASE Open(p) \/ WriteBegin(p) \/ DeleteBegin(p)
  BY <1>2 DEF Open, WriteBegin, DeleteBegin, BeginTx
<1>3. CASE WriteLock(p) \/ DeleteLock(p)
  BY <1>0, <1>3 DEF WriteLock, DeleteLock, InBlock, DataTyped
<1>4. CASE WriteRecord(p) \/ DeleteRow(p)
  BY <1>4 DEF WriteRecord, DeleteRow
<1>5. CASE WriteCommit(p) \/ WriteRollback(p) \/ CloseOwn(p)
  BY <1>5, <1>a DEF WriteCommit, WriteRollback, CloseOwn
<1>6. CASE DeleteCommit(p) \/ DeleteRollback(p) \/ DeleteFails(p)
  BY <1>6, <1>a DEF DeleteCommit, DeleteRollback, DeleteFails, Undo, Discard
<1> QED
  BY <1>1, <1>2, <1>3, <1>4, <1>5, <1>6 DEF Act, Serve

\* A transaction that ends leaves its connection bare and takes no other one's
\* bareness; and a call's statements touch no connection but the one it is on.
LEMMA BareEnd ==
  ASSUME DataTyped, NEW c \in Conns, NEW commit, EndTx(c, commit)
  PROVE  Bare(c)' /\ \A d \in Conns : Bare(d) => Bare(d)'
BY ConstantsAssumption DEF DataTyped, EndTx, Bare, Untouched

LEMMA BareElsewhere ==
  ASSUME IInv, NEW p \in Calls, Act(p), NEW d \in Conns, d # on[p], Bare(d)
  PROVE  Bare(d)'
<1> USE DEF Bare, database
<1>0. DataTyped /\ Holding(p)
  BY TypeParts DEF IInv
<1>1. CASE Submit(p) \/ GetClient(p) \/ AutoPathRules(p) \/ WriteFails(p) \/ Refused(p)
           \/ Query(p) \/ DeleteLookup(p) \/ EachFile(p) \/ Release(p)
  BY <1>1
  DEF Submit, GetClient, AutoPathRules, WriteFails, Refused, Query, DeleteLookup, EachFile, Release
<1>2. CASE Open(p) \/ WriteBegin(p) \/ DeleteBegin(p)
  BY <1>2 DEF Open, WriteBegin, DeleteBegin, BeginTx
<1>3. CASE WriteLock(p) \/ DeleteLock(p)
  BY <1>0, <1>3 DEF WriteLock, DeleteLock, DataTyped
<1>4. CASE WriteRecord(p) \/ DeleteRow(p)
  <2>1. on[p] \in Conns /\ req[p].path \in Paths
    BY <1>4, InCall DEF WriteRecord, DeleteRow, WritePcs
  <2>2. change'[d] = change[d]
    BY <1>0, <1>4, <2>1, PutElsewhere DEF WriteRecord, DeleteRow
  <2> QED
    BY <1>4, <2>2 DEF WriteRecord, DeleteRow
<1>5. CASE WriteCommit(p) \/ WriteRollback(p)
  BY <1>0, <1>5, InCall, BareEnd DEF WriteCommit, CommitsOn, WriteRollback, WritePcs
<1>6. CASE CloseOwn(p)
  BY <1>0, <1>6, InCall, BareEnd DEF CloseOwn, Holding
<1>7. CASE DeleteCommit(p) \/ DeleteRollback(p) \/ DeleteFails(p)
  BY <1>0, <1>7, InCall, BareEnd DEF DeleteCommit, DeleteRollback, DeleteFails, Undo, Discard
<1> QED
  BY <1>1, <1>2, <1>3, <1>4, <1>5, <1>6, <1>7 DEF Act, Serve

\* What becomes of the connections that are bare: ...
LEMMA ClosedStep ==
  ASSUME IInv, OwnBare, NEW p \in Calls, Act(p), NEW c \in Conns, conn'[c] = "closed"
  PROVE  Bare(c)'
<1> USE DEF pool, locals
<1>0. DataTyped /\ PoolTyped /\ Holding(p)
  BY TypeParts DEF IInv
<1>1. CASE conn[c] = "closed"
  <2>1. c # on[p]
    BY <1>1, ConstantsAssumption DEF IInv, PoolInv, Accounted
  <2> QED
    BY <1>1, <2>1, BareElsewhere DEF OwnBare
<1>2. CASE conn[c] # "closed"
  <2>1. CASE CloseOwn(p)
    <3>1. c = own[p]
      BY <1>0, <1>2, <2>1 DEF CloseOwn, PoolTyped
    <3> QED
      BY <1>0, <2>1, <3>1, BareEnd DEF CloseOwn
  <2>2. CASE DeleteFails(p)
    <3>1. c = on[p] /\ Discard(p)
      BY <1>0, <1>2, <2>2 DEF DeleteFails, Discard, PoolTyped
    <3> QED
      BY <1>0, <3>1, BareEnd DEF Discard
  <2>3. CASE EachFile(p)
    <3>1. c = on[p] /\ pc[p] = "each"
      BY <1>0, <1>2, <2>3 DEF EachFile, PoolTyped
    <3> QED
      BY <2>3, <3>1 DEF EachFile, OwnBare, Bare, database
  <2>4. CASE Submit(p) \/ WriteBegin(p) \/ WriteLock(p) \/ AutoPathRules(p) \/ WriteRecord(p)
             \/ WriteCommit(p) \/ WriteFails(p) \/ Refused(p)
    BY <1>2, <2>4 DEF Submit, WriteBegin, WriteLock, AutoPathRules, WriteRecord, WriteCommit,
                      WriteFails, Refused
  <2>5. CASE GetClient(p) \/ Query(p) \/ Open(p)
    BY <1>0, <1>2, <2>5 DEF GetClient, Query, Open, Take, PoolTyped
  <2>6. CASE Release(p) \/ WriteRollback(p)
    BY <1>0, <1>2, <2>6 DEF Release, WriteRollback, GiveBack, PoolTyped
  <2>7. CASE DeleteBegin(p) \/ DeleteLookup(p) \/ DeleteLock(p) \/ DeleteRow(p) \/ DeleteCommit(p)
             \/ DeleteRollback(p)
    BY <1>0, <1>2, <2>7 DEF DeleteBegin, DeleteLookup, DeleteLock, DeleteRow, DeleteCommit,
                           DeleteRollback, LeaveOpen, Done, GiveBack, PoolTyped
  <2> QED
    BY <2>1, <2>2, <2>3, <2>4, <2>5, <2>6, <2>7 DEF Act, Serve
<1> QED
  BY <1>1, <1>2

LEMMA OwnStep ==
  ASSUME IInv, OwnBare, NEW p \in Calls, Act(p), NEW q \in Calls, own'[q] # NoConn, OthersHold(p)
  PROVE  \E c \in Conns : c = own'[q] /\ Bare(c)'
<1>0. PoolTyped /\ Holding(p)
  BY TypeParts DEF IInv
<1>1. CASE own'[q] = own[q]
  <2>1. own[q] \in Conns /\ own[q] # on[p]
    BY <1>0, <1>1, ConstantsAssumption DEF IInv, PoolInv, Distinct, PoolTyped
  <2>2. PICK c \in Conns : c = own[q]
    BY <2>1
  <2>3. Bare(c)'
    BY <1>1, <2>1, <2>2, BareElsewhere DEF OwnBare
  <2> QED
    BY <1>1, <2>2, <2>3
<1>2. CASE own'[q] # own[q]
  <2>1. q = p
    BY <1>2 DEF OthersHold
  <2>2. OpensOwn(p)
    BY <1>0, <1>2, <2>1, Kinds DEF PoolStep, Keeps, Takes, Returns, OpensOn, Drops, ClosesOwn,
       PoolTyped
  <2>3. PICK c \in Conns : conn[c] = "closed" /\ own'[p] = c
    BY <1>0, <2>2 DEF OpensOwn, Closed, PoolTyped
  <2>4. c # on[p]
    BY <2>3, ConstantsAssumption DEF IInv, PoolInv, Accounted
  <2>5. Bare(c)'
    BY <2>3, <2>4, BareElsewhere DEF OwnBare
  <2> QED
    BY <2>1, <2>3, <2>5
<1> QED
  BY <1>1, <1>2

LEMMA EachStep ==
  ASSUME IInv, OwnBare, NEW p \in Calls, Act(p), NEW q \in Calls, pc'[q] = "each", OthersHold(p)
  PROVE  \E c \in Conns : c = on'[q] /\ Bare(c)'
<1>0. PoolTyped /\ DataTyped /\ PcTyped /\ Holding(p) /\ Holding(q)
  BY TypeParts DEF IInv
<1>1. CASE q # p
  <2>1. pc[q] = "each" /\ on'[q] = on[q]
    BY <1>1, OthersStay DEF OthersHold
  <2>2. on[q] \in Conns /\ on[q] # on[p]
    BY <1>0, <1>1, <2>1, InCall DEF IInv, PoolInv, Distinct, Holding
  <2>3. PICK c \in Conns : c = on[q]
    BY <2>2
  <2>4. Bare(c)'
    BY <2>1, <2>2, <2>3, BareElsewhere DEF OwnBare
  <2> QED
    BY <2>1, <2>3, <2>4
<1>2. CASE q = p
  <2> USE DEF PcTyped, Goto, Answer
  <2>1. CASE Open(p)
    <3>1. PICK c \in Conns : conn[c] = "closed" /\ on'[p] = c
      BY <1>0, <1>2, <2>1 DEF Open, Closed, PoolTyped
    <3>2. c # on[p]
      BY <3>1, ConstantsAssumption DEF IInv, PoolInv, Accounted
    <3>3. Bare(c)'
      BY <3>1, <3>2, BareElsewhere DEF OwnBare
    <3> QED
      BY <1>2, <3>1, <3>3
  <2>2. CASE DeleteCommit(p)
    <3>1. PICK c \in Conns : c = on[p]
      BY <2>2, InCall DEF DeleteCommit
    <3>2. req[p].op = "rmdir" /\ on'[p] = c
      BY <1>0, <1>2, <2>2, <3>1 DEF DeleteCommit, Done, Holding, DeletePcs
    <3>3. Bare(c)'
      BY <1>0, <2>2, <3>1, BareEnd DEF DeleteCommit
    <3> QED
      BY <1>2, <3>2, <3>3
  <2>3. CASE Submit(p) \/ GetClient(p) \/ Refused(p) \/ CloseOwn(p) \/ EachFile(p)
    BY <1>0, <1>2, <2>3 DEF Submit, GetClient, Refused, CloseOwn, EachFile
  <2>4. CASE WriteBegin(p) \/ WriteLock(p) \/ AutoPathRules(p) \/ WriteRecord(p) \/ WriteCommit(p)
             \/ Release(p) \/ WriteRollback(p) \/ WriteFails(p)
    BY <1>0, <1>2, <2>4 DEF WriteBegin, WriteLock, AutoPathRules, WriteRecord, WriteCommit, Release,
                           WriteRollback, WriteFails
  <2>5. CASE Query(p) \/ DeleteBegin(p) \/ DeleteLookup(p) \/ DeleteLock(p) \/ DeleteRow(p)
             \/ DeleteRollback(p) \/ DeleteFails(p)
    BY <1>0, <1>2, <2>5 DEF Query, DeleteBegin, DeleteLookup, DeleteLock, DeleteRow,
                           DeleteRollback, DeleteFails, DeletePcs
  <2> QED
    BY <2>1, <2>2, <2>3, <2>4, <2>5 DEF Act, Serve
<1> QED
  BY <1>1, <1>2

\* ... and, as long as no rules have been read, nothing is ever put into a row.
LEMMA FirstStep ==
  ASSUME IInv, FirstFile, NEW p \in Calls, Act(p)
  PROVE  FirstFile'
<1> SUFFICES ASSUME ~cached'
             PROVE  /\ \A f \in Paths : file'[f] = Absent
                    /\ \A c \in Conns, f \in Paths : change'[c][f] \in {Absent, Same}
                    /\ pc'[p] \notin {"record", "dlock", "dremove"}
                    /\ \A q \in Calls \ {p} : pc[q] \notin {"record", "dlock", "dremove"}
  BY OthersStay DEF FirstFile
<1> USE DEF database, PcTyped, Goto, Answer, DeletePcs
<1>0. DataTyped /\ PcTyped /\ Holding(p)
  BY TypeParts DEF IInv
<1>1. ~cached
  <2>1. CASE AutoPathRules(p)
    BY <2>1 DEF AutoPathRules
  <2>2. CASE ~AutoPathRules(p)
    BY <2>2 DEF Act, Serve, Submit, Open, Refused, CloseOwn, GetClient, WriteBegin, WriteLock,
       WriteRecord, WriteCommit, Release, WriteRollback, WriteFails, Query, DeleteBegin,
       DeleteLookup, DeleteLock, DeleteRow, DeleteCommit, DeleteRollback, DeleteFails, EachFile
  <2> QED
    BY <2>1, <2>2
<1>2. /\ \A f \in Paths : file[f] = Absent
      /\ \A c \in Conns, f \in Paths : change[c][f] \in {Absent, Same}
      /\ \A q \in Calls : pc[q] \notin {"record", "dlock", "dremove"}
  BY <1>1 DEF FirstFile
<1>3. \A c \in Conns, f \in Paths : Seen(c, f) = Absent
  BY <1>2, ConstantsAssumption DEF Seen
<1>a. ASSUME NEW c \in Conns, NEW commit, EndTx(c, commit)
      PROVE  /\ \A f \in Paths : file'[f] = Absent
             /\ \A d \in Conns, f \in Paths : change'[d][f] \in {Absent, Same}
  BY <1>0, <1>2, <1>3, <1>a DEF EndTx, Untouched, DataTyped
<1>4. CASE Submit(p) \/ GetClient(p) \/ AutoPathRules(p) \/ WriteFails(p) \/ Refused(p)
           \/ Query(p) \/ EachFile(p) \/ Release(p)
  BY <1>0, <1>1, <1>2, <1>4
  DEF Submit, GetClient, AutoPathRules, WriteFails, Refused, Query, EachFile, Release
<1>5. CASE Open(p) \/ WriteBegin(p) \/ DeleteBegin(p)
  BY <1>0, <1>2, <1>5 DEF Open, WriteBegin, DeleteBegin, BeginTx
<1>6. CASE WriteLock(p)
  BY <1>0, <1>2, <1>3, <1>6, InCall DEF WriteLock, Duplicate, WritePcs
<1>7. CASE DeleteLookup(p)
  BY <1>0, <1>2, <1>3, <1>7, InCall DEF DeleteLookup
<1>8. CASE WriteCommit(p) \/ WriteRollback(p)
  BY <1>0, <1>2, <1>8, <1>a, InCall DEF WriteCommit, CommitsOn, WriteRollback, WritePcs
<1>9. CASE CloseOwn(p)
  BY <1>0, <1>2, <1>9, <1>a, InCall DEF CloseOwn, Holding
<1>10. CASE DeleteCommit(p) \/ DeleteRollback(p)
  BY <1>0, <1>2, <1>10, <1>a, InCall DEF DeleteCommit, DeleteRollback, Undo
<1>11. CASE WriteRecord(p) \/ DeleteLock(p) \/ DeleteRow(p) \/ DeleteFails(p)
  BY <1>2, <1>11 DEF WriteRecord, DeleteLock, DeleteRow, DeleteFails
<1> QED
  BY <1>4, <1>5, <1>6, <1>7, <1>8, <1>9, <1>10, <1>11 DEF Act, Serve

\* If all calls hang and one of them waits in PostgreSQL, so does each one it
\* waits for, unless that is a connection nobody holds: they would wait in
\* circles.  If none does, all wait for a connection, and the pool is empty.
LEMMA HangReason ==
  ASSUME IInv, WaitInv
  PROVE  HangsExplained
<1> SUFFICES ASSUME Hang,
                    ~ \E p \in Calls : on[p] # NoConn /\ \E c \in Abandoned :
                        c \in inTx /\ (lock[req[p].path] = c \/ change[c][req[p].path] # Same)
             PROVE  \A c \in Pooled : \E p \in Calls : on[p] = c /\ pc[p] = "rules" /\ ~cached
  BY DEF HangsExplained
<1>0. DataTyped /\ PoolTyped /\ \A p \in Calls : Holding(p)
  BY TypeParts DEF IInv
<1> DEFINE InPg(p) == /\ pc[p] \in {"dlock", "dremove"} /\ on[p] # NoConn
                      /\ on[p] \notin limited /\ WaitsInPg(p)
           D == {p \in Calls : InPg(p)}
<1>1. ASSUME NEW q \in Calls, on[q] # NoConn
      PROVE  InPg(q) \/ (pc[q] = "rules" /\ ~cached /\ ~CanQuery /\ ~NoneLeft)
  <2>1. pc[q] # "idle"
    BY <1>0, <1>1 DEF Holding
  <2> QED
    BY <1>1, <2>1 DEF Hang, Blocked
<1>2. D = {}
  <2>1. SUFFICES ASSUME NEW p \in D
                 PROVE  \E q \in D \ {p} : on[q] # NoConn /\ WaitsFor(p, on[q])
    <3>1. ASSUME D # {} PROVE InCircles(D)
      BY <2>1, <3>1 DEF InCircles
    <3>2. ~InCircles(D)
      BY DEF Hang
    <3> QED
      BY <3>1, <3>2
  <2>2. on[p] \in Conns /\ req[p].path \in Paths
    BY InCall
  <2>3. PICK c \in Conns : /\ c # on[p] /\ WaitsFor(p, c) /\ ~Bare(c) /\ c \in inTx
                           /\ lock[req[p].path] = c \/ change[c][req[p].path] # Same
    <3>1. CASE pc[p] = "dlock"
      <4>1. lock[req[p].path] \in Conns /\ lock[req[p].path] # on[p]
        BY <1>0, <2>2, <3>1 DEF WaitsInPg, LockFree, DataTyped
      <4> QED
        BY <2>2, <3>1, <4>1, ConstantsAssumption DEF WaitsFor, Bare, WaitInv, Locked
    <3>2. CASE pc[p] = "dremove"
      <4>1. PICK c \in Conns \ {on[p]} : change[c][req[p].path] # Same
        BY <3>2 DEF WaitsInPg, RowFree
      <4>2. change[c] # Untouched
        BY <2>2, <4>1 DEF Untouched
      <4> QED
        BY <3>2, <4>1, <4>2 DEF WaitsFor, Bare, WaitInv, Outside
    <3> QED
      BY <3>1, <3>2
  <2>4. c \notin Abandoned
    BY <2>2, <2>3, ConstantsAssumption
  <2>5. PICK q \in Calls : c \in {on[q], own[q]}
    BY <2>4 DEF Abandoned
  <2>6. c # own[q]
    BY <2>3, ConstantsAssumption DEF WaitInv, OwnBare
  <2>7. on[q] = c /\ on[q] # NoConn /\ q # p
    BY <2>3, <2>5, <2>6, ConstantsAssumption
  <2>8. cached
    BY DEF WaitInv, FirstFile
  <2>9. q \in D
    BY <1>1, <2>7, <2>8
  <2> QED
    BY <2>3, <2>7, <2>9
<1>3. ASSUME NEW q \in Calls, on[q] # NoConn
      PROVE  pc[q] = "rules" /\ ~cached /\ ~CanQuery
  BY <1>1, <1>2, <1>3
<1>4. idle = << >>
  <2>1. PICK p \in Calls : pc[p] # "idle" /\ Blocked(p)
    BY DEF Hang
  <2>2. ~CanQuery
    BY <1>2, <2>1 DEF Blocked
  <2> QED
    BY <2>2 DEF CanQuery
<1>5. ASSUME NEW c \in Pooled
      PROVE  \E p \in Calls : on[p] = c /\ pc[p] = "rules" /\ ~cached
  <2>1. c \in Conns /\ conn[c] = "out"
    <3>1. {d \in Conns : conn[d] = "idle"} = {}
      BY <1>4 DEF IInv, PoolInv, Stack
    <3> QED
      BY <3>1 DEF Pooled
  <2>2. PICK p \in Calls : on[p] = c
    BY <2>1 DEF IInv, PoolInv, Accounted
  <2> QED
    BY <1>3, <2>1, <2>2, ConstantsAssumption
<1> QED
  BY <1>5

\* However many calls share however large a pool: if all of them hang, every
\* connection of the pool is with a write() that reads the auto-path rules for the
\* first time, over another one, or a deletion waits for a transaction left in a
\* connection nobody holds.
THEOREM HangReasons == Spec => []HangsExplained
<1>1. Init => WaitInv
  BY ConstantsAssumption
  DEF Init, WaitInv, InBlock, Locked, Outside, OwnBare, Bare, FirstFile, Untouched
<1>2. IInv /\ WaitInv /\ [Next]_vars => WaitInv'
  <2> SUFFICES ASSUME IInv, WaitInv, [Next]_vars PROVE WaitInv'
    OBVIOUS
  <2>1. CASE UNCHANGED vars
    <3>1. /\ file' = file /\ change' = change /\ inTx' = inTx /\ lock' = lock /\ conn' = conn
          /\ pc' = pc /\ on' = on /\ own' = own /\ cached' = cached
      BY <2>1 DEF vars, database, pool, locals
    <3> QED
      BY <3>1 DEF WaitInv, InBlock, Locked, Outside, OwnBare, Bare, FirstFile
  <2>2. ASSUME NEW p \in Calls, Act(p) PROVE WaitInv'
    <3>1. OthersHold(p)
      BY <2>2, TypeParts, Kinds, PoolKept DEF IInv
    <3>2. InBlock' /\ Locked' /\ Outside'
      BY <2>2, <3>1, InBlockStep, LockedStep, OutsideStep DEF WaitInv
    <3>3. OwnBare'
      <4>1. \A c \in Conns : conn'[c] = "closed" => Bare(c)'
        BY <2>2, ClosedStep DEF WaitInv
      <4>2. \A q \in Calls : own'[q] # NoConn => \E c \in Conns : c = own'[q] /\ Bare(c)'
        BY <2>2, <3>1, OwnStep DEF WaitInv
      <4>3. \A q \in Calls : pc'[q] = "each" => \E c \in Conns : c = on'[q] /\ Bare(c)'
        BY <2>2, <3>1, EachStep DEF WaitInv
      <4> QED
        BY <4>1, <4>2, <4>3 DEF OwnBare, Bare
    <3>4. FirstFile'
      BY <2>2, FirstStep DEF WaitInv
    <3> QED
      BY <3>2, <3>3, <3>4 DEF WaitInv
  <2> QED
    BY <2>1, <2>2 DEF Next, Act
<1> QED
  BY <1>1, <1>2, HangReason, Invariant, PTL DEF Spec
=============================================================================
