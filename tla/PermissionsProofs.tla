------------------------- MODULE PermissionsProofs -------------------------
(***************************************************************************)
(* What holds of Permissions for any accounts, directories and calls: the  *)
(* tables keep their references, nothing is granted without a reason, and  *)
(* an import that is not to merge leaves alone what it finds.              *)
(***************************************************************************)
EXTENDS Permissions, SequenceTheorems, WellFoundedInduction, TLAPS

-----------------------------------------------------------------------------
(* Paths                                                                   *)

LEMMA Part ==
  ASSUME NEW d \in Seq(STRING), NEW l \in 0..Len(d)
  PROVE  /\ SubSeq(d, 1, l) \in Seq(STRING) /\ Len(SubSeq(d, 1, l)) = l
         /\ \A i \in 1..l : SubSeq(d, 1, l)[i] = d[i]
<1>1. 1 \in Int /\ l \in Int /\ l >= 0 /\ \A i \in 1..l : d[i] \in STRING
  OBVIOUS
<1>2. /\ SubSeq(d, 1, l) \in Seq(STRING)
      /\ Len(SubSeq(d, 1, l)) = IF 1 <= l THEN l - 1 + 1 ELSE 0
      /\ \A i \in 1..(l - 1 + 1) : SubSeq(d, 1, l)[i] = d[1 + i - 1]
  BY <1>1, SubSeqProperties
<1>3. \A i \in 1..l : SubSeq(d, 1, l)[i] = d[i]
  BY <1>1, <1>2
<1> QED
  BY <1>1, <1>2, <1>3

LEMMA PathFacts ==
  ASSUME NEW d \in Dirs
  PROVE  /\ d \in Seq(STRING) /\ Len(d) \in Nat
         /\ Prefixes(d) \subseteq Dirs /\ d \in Prefixes(d) /\ Top \in Prefixes(d)
         /\ Parent(d) \in Dirs
         /\ \A e \in Prefixes(d) : Len(e) \in 0..Len(d) /\ e = SubSeq(d, 1, Len(e))
<1>1. d \in Seq(STRING) /\ Len(d) \in Nat /\ Prefixes(d) \subseteq Dirs
  BY ConstantsAssumption
<1>2. \A l \in 0..Len(d) : SubSeq(d, 1, l) \in Prefixes(d) /\ Len(SubSeq(d, 1, l)) = l
  BY <1>1, Part DEF Prefixes
<1>3. \A e \in Prefixes(d) : Len(e) \in 0..Len(d) /\ e = SubSeq(d, 1, Len(e))
  BY <1>2 DEF Prefixes
<1>4. d = SubSeq(d, 1, Len(d))
  BY <1>1
<1>5. Top = SubSeq(d, 1, 0)
  BY <1>1 DEF Top
<1>6. d \in Prefixes(d) /\ Top \in Prefixes(d)
  <2>1. Len(d) \in 0..Len(d) /\ 0 \in 0..Len(d)
    BY <1>1
  <2> QED
    BY <1>2, <1>4, <1>5, <2>1
<1>7. Parent(d) \in Dirs
  <2>1. CASE Len(d) = 0
    <3> DEFINE n == Len(d) - 1
    <3>1. n \in Int /\ 1 \in Int /\ n < 1
      BY <2>1
    <3> HIDE DEF n
    <3>2. SubSeq(d, 1, n) = << >>
      BY <3>1, SubSeqEmpty
    <3> USE DEF n
    <3>3. SubSeq(d, 1, Len(d) - 1) = << >>
      BY <3>2
    <3> QED
      BY <3>3, ConstantsAssumption DEF Top, Parent, Front
  <2>2. CASE Len(d) # 0
    <3>1. Len(d) - 1 \in 0..Len(d)
      BY <1>1, <2>2
    <3> QED
      BY <1>1, <1>2, <3>1 DEF Parent, Front
  <2> QED
    BY <2>1, <2>2
<1> QED
  BY <1>1, <1>3, <1>6, <1>7

\* Of two prefixes of one path the shorter is a prefix of the longer.
LEMMA PrefixOrder ==
  ASSUME NEW d \in Dirs, NEW e \in Prefixes(d), NEW f \in Prefixes(d), Len(e) <= Len(f)
  PROVE  IsPrefix(e, f)
<1>1. /\ d \in Seq(STRING) /\ Len(d) \in Nat
      /\ Len(e) \in 0..Len(d) /\ e = SubSeq(d, 1, Len(e))
      /\ Len(f) \in 0..Len(d) /\ f = SubSeq(d, 1, Len(f))
  BY PathFacts
<1>2. e \in Seq(STRING) /\ \A i \in 1..Len(e) : e[i] = d[i]
  BY <1>1, Part, SMTT(30)
<1>3. f \in Seq(STRING) /\ \A i \in 1..Len(f) : f[i] = d[i]
  BY <1>1, Part, SMTT(30)
<1>4. e \in Seq(STRING) /\ f \in Seq(STRING) /\ \A i \in 1..Len(e) : e[i] = d[i] /\ f[i] = d[i]
  BY <1>1, <1>2, <1>3
<1>5. SubSeq(e, 1, Len(e)) = SubSeq(f, 1, Len(e))
  <2>1. Len(e) \in 0..Len(e) /\ Len(e) \in 0..Len(f)
    BY <1>1
  <2> DEFINE x == SubSeq(e, 1, Len(e))
             y == SubSeq(f, 1, Len(e))
  <2>2. /\ x \in Seq(STRING) /\ Len(x) = Len(e) /\ \A i \in 1..Len(e) : x[i] = e[i]
        /\ y \in Seq(STRING) /\ Len(y) = Len(e) /\ \A i \in 1..Len(e) : y[i] = f[i]
    BY <1>4, <2>1, Part
  <2> QED
    BY <1>4, <2>2, SeqEqual
<1> QED
  BY <1>5 DEF IsPrefix

LEMMA LeastNatural ==
  ASSUME NEW T \in SUBSET Nat, T # {}
  PROVE  \E x \in T : \A y \in T : x <= y
<1>1. PICK x \in T : \A y \in T : ~(<<y, x>> \in OpToRel(<, Nat))
  BY NatLessThanWellFounded, WFMin
<1>2. \A y \in T : ~(y < x)
  BY <1>1 DEF OpToRel
<1> QED
  BY <1>2

\* A path has a longest prefix of any kind it has.
LEMMA LongestIsThere ==
  ASSUME NEW d \in Dirs, NEW S \in SUBSET Prefixes(d), S # {}
  PROVE  Longest(S) \in S /\ \A e \in S : Len(e) <= Len(Longest(S))
<1> DEFINE T == {Len(d) - Len(e) : e \in S}
<1>1. Len(d) \in Nat /\ \A e \in S : Len(e) \in 0..Len(d)
  BY PathFacts
<1>2. T \in SUBSET Nat /\ T # {}
  BY <1>1
<1>3. PICK x \in T : \A y \in T : x <= y
  BY <1>2, LeastNatural
<1>4. PICK e \in S : x = Len(d) - Len(e)
  BY <1>3
<1>5. ASSUME NEW f \in S PROVE Len(f) <= Len(e)
  <2>1. x <= Len(d) - Len(f)
    BY <1>3
  <2> QED
    BY <1>1, <1>4, <2>1
<1> QED
  BY <1>5 DEF Longest

-----------------------------------------------------------------------------
(* The inductive invariant                                                 *)

\* The directories of files are there, and "/" is.
Rooted == Top \in exists /\ \A f \in files : Parent(f) \in exists

ImportTyped ==
  /\ importing \in [mode : {"none", "fail", "skip", "merge"}, next : Nat \ {0},
                    step : {"off", "look", "ensure", "permit", "over"},
                    left : SUBSET (Roles \X Needs)]
  /\ importing.mode = "none" => importing.step = "off"

\* The permissions of an ACL are imported after it, for a directory that is there.
ImportPlace ==
  Importing => /\ importing.step \in {"ensure", "permit"} => Item.kind = "acl"
               /\ importing.step = "permit" => Item.dir \in exists

InCall == \A c \in Calls : pc[c] \in {"admin", "permission", "act"} => req[c] \in Request

\* What is not remembered reads as undefined, which is taken for an answer: so
\* nothing is ever remembered.
NothingCached == cache = {} /\ cacheOn \in BOOLEAN

\* A call that may act was allowed to at some moment since it began.
HadReason == \A c \in Calls : pc[c] = "act" /\ req[c].op \notin RoleOps => ever[c] # {}

\* An import that is not to merge never comes to an ACL that was there.
NotKept ==
  /\ kept \subseteq acl
  /\ Importing /\ importing.mode \in {"fail", "skip"} /\ importing.step \in {"ensure", "permit"} =>
       Item.dir \notin kept

IInv ==
  /\ TypeOK /\ Rooted /\ ImportTyped /\ ImportPlace /\ InCall
  /\ NothingCached /\ HadReason /\ NotKept

Step(c) == Submit(c) \/ CheckAdmin(c) \/ CheckPermission(c) \/ Act(c)

-----------------------------------------------------------------------------
(* The tables                                                              *)

TablesTyped ==
  /\ users \subseteq Users /\ roles \subseteq Roles /\ member \subseteq users \X roles
  /\ acl \subseteq exists /\ exists \subseteq Dirs /\ files \subseteq Dirs
  /\ public \subseteq acl /\ perms \subseteq acl \X roles \X Needs
  /\ gov \in [Dirs -> acl \cup {NoDir}]

CallsTyped ==
  /\ req \in [Calls -> Request \cup {NoReq}]
  /\ pc \in [Calls -> {"idle", "admin", "permission", "act", "denied"}]

LEMMA TypeParts == TypeOK <=> TablesTyped /\ CallsTyped
  BY DEF TypeOK, TablesTyped, CallsTyped

LEMMA HandDownTyped ==
  ASSUME NEW A, NEW g \in [Dirs -> A], NEW d, NEW a \in A
  PROVE  HandDown(g, d, a) \in [Dirs -> A]
BY DEF HandDown

\* What a call does keeps the references of the tables.
LEMMA EffectTyped ==
  ASSUME TablesTyped, Rooted, NEW r \in Request, Effect(r)
  PROVE  TablesTyped' /\ Rooted' /\ exists \subseteq exists'
<1> USE DEF TablesTyped, Rooted, accounts, tree, acls, tables
<1>0. r.path \in Dirs /\ r.user \in Users /\ r.role \in Roles /\ r.need \in Needs
  BY DEF Request
<1>1. CASE r.op = "write" /\ Write(r)
  <2>1. Parent(r.path) \in Dirs /\ Prefixes(Parent(r.path)) \subseteq Dirs
        /\ Parent(r.path) \in Prefixes(Parent(r.path))
    BY <1>0, PathFacts
  <2>2. exists \subseteq exists' /\ exists' \subseteq Dirs /\ files' \subseteq Dirs
    BY <1>0, <1>1, <2>1 DEF Write
  <2>3. \A f \in files' : Parent(f) \in exists'
    BY <1>1, <2>1 DEF Write
  <2>4. gov' \in [Dirs -> acl' \cup {NoDir}]
    BY <1>1, ConstantsAssumption DEF Write
  <2> QED
    BY <1>1, <2>2, <2>3, <2>4 DEF Write
<1>2. CASE r.op = "public" /\ SetPublic(r)
  <2>1. acl' = acl \cup {r.path} /\ gov \in [Dirs -> acl' \cup {NoDir}] /\ r.path \in exists
    BY <1>2 DEF SetPublic, EnsureRoot
  <2>2. gov' \in [Dirs -> acl' \cup {NoDir}]
    BY <1>2, <2>1, HandDownTyped DEF SetPublic
  <2> QED
    BY <1>2, <2>1, <2>2 DEF SetPublic, EnsureRoot
<1>3. CASE r.op = "permit" /\ Permit(r)
  <2>1. acl' = acl \cup {r.path} /\ gov \in [Dirs -> acl' \cup {NoDir}] /\ r.path \in exists
    BY <1>3 DEF Permit, Grant, EnsureRoot
  <2>2. gov' \in [Dirs -> acl' \cup {NoDir}]
    BY <1>3, <2>1, HandDownTyped DEF Permit
  <2> QED
    BY <1>0, <1>3, <2>1, <2>2 DEF Permit, Grant, EnsureRoot
<1>4. CASE r.op = "unset" /\ Unset(r)
  <2> DEFINE d == r.path
             freed == [e \in Dirs |-> IF gov[e] = d THEN NoDir ELSE gov[e]]
             above == (Prefixes(d) \ {d}) \cap acl
  <2>1. acl' = acl \ {d} /\ freed \in [Dirs -> acl' \cup {NoDir}]
    BY <1>4 DEF Unset, RemoveRoot
  <2>2. above # {} => Longest(above) \in acl'
    <3>1. above \in SUBSET Prefixes(d)
      OBVIOUS
    <3>2. above # {} => Longest(above) \in above
      BY <1>0, <3>1, LongestIsThere
    <3> QED
      BY <2>1, <3>2
  <2>3. gov' = IF above = {} THEN freed ELSE HandDown(freed, d, Longest(above))
    BY <1>4 DEF Unset, RemoveRoot
  <2> HIDE DEF freed, above
  <2>4. gov' \in [Dirs -> acl' \cup {NoDir}]
    BY <2>1, <2>2, <2>3, HandDownTyped
  <2> QED
    BY <1>4, <2>1, <2>4 DEF Unset, RemoveRoot
<1>5. CASE \/ r.op = "revoke" /\ Revoke(r)
           \/ r.op = "dropRole" /\ DropRole(r)
  BY <1>5 DEF Revoke, PermsWithout, DropRole, MembersWithout
<1>6. CASE \/ r.op = "addUser" /\ AddUser(r)
           \/ r.op = "addRole" /\ AddRole(r)
           \/ r.op = "addMember" /\ AddMember(r)
  BY <1>0, <1>6 DEF AddUser, AddRole, AddMember, EnsureMember, Ensure
<1>7. CASE (r.op \in {"read", "list"} /\ UNCHANGED tables) \/ Throws(r)
  BY <1>7 DEF Throws
<1> QED
  BY <1>1, <1>2, <1>3, <1>4, <1>5, <1>6, <1>7 DEF Effect

\* An item of the archive, as an import comes to it.
LEMMA ItemTyped ==
  ASSUME ImportTyped, Importing
  PROVE  /\ Item.kind \in {"role", "user", "member", "acl"}
         /\ Item.kind \in {"role", "member"} => Item.role \in Roles
         /\ Item.kind \in {"user", "member"} => Item.user \in Users
         /\ Item.kind = "acl" => Item.dir \in Dirs /\ Item.perms \subseteq Roles \X Needs
<1>1. importing.next \in 1..Len(Archive)
  BY DEF ImportTyped, Importing
<1> QED
  BY <1>1, ArchiveAssumption DEF Item

\* So does what an import does.
LEMMA ImportKeepsTables ==
  ASSUME TablesTyped, Rooted, ImportTyped, ImportPlace, Import
  PROVE  TablesTyped' /\ Rooted' /\ exists' = exists /\ UNCHANGED <<pc, req, caching>>
<1> USE DEF TablesTyped, Rooted, accounts, tree, acls, tables, caching
<1>1. CASE ImportBegin \/ ImportLook
  BY <1>1 DEF ImportBegin, ImportLook
<1>2. CASE ImportMember
  BY <1>2, ItemTyped DEF ImportMember, EnsureMember, Ensure
<1>3. CASE ImportEnsure
  BY <1>3 DEF ImportEnsure, EnsureRoot
<1>4. CASE ImportPermit
  <2>1. importing.left \subseteq Roles \X Needs
    BY <1>4 DEF ImportTyped
  <2>2. Importing /\ importing.step = "permit" => Item.dir \in exists
    BY DEF ImportPlace
  <2> QED
    BY <1>4, <2>1, <2>2 DEF ImportPermit, Grant, EnsureRoot
<1> QED
  BY <1>1, <1>2, <1>3, <1>4 DEF Import

\* The place an import is at, and what it has still to grant.
LEMMA ImportStep ==
  ASSUME TablesTyped, Rooted, ImportTyped, ImportPlace, Import
  PROVE  ImportTyped' /\ ImportPlace'
<1>0. /\ importing.next \in Nat \ {0} /\ importing.next + 1 \in Nat \ {0}
      /\ importing.mode \in {"none", "fail", "skip", "merge"}
      /\ importing.left \in SUBSET (Roles \X Needs)
  BY DEF ImportTyped
<1>1. ImportTyped'
  <2> USE DEF ImportTyped, NextItem, Stop
  <2>1. CASE ImportBegin
    BY <2>1 DEF ImportBegin
  <2>2. CASE ImportMember
    BY <2>2, <1>0 DEF ImportMember, Importing
  <2>3. CASE ImportLook
    BY <2>3, <1>0, ItemTyped DEF ImportLook, WhenThere, Importing
  <2>4. CASE ImportEnsure
    BY <2>4, <1>0 DEF ImportEnsure, Importing
  <2>5. CASE ImportPermit
    BY <2>5, <1>0 DEF ImportPermit, Importing
  <2> QED
    BY <2>1, <2>2, <2>3, <2>4, <2>5 DEF Import
<1>2. ImportPlace'
  <2> USE <1>0 DEF ImportPlace, ImportTyped, NextItem, Stop, Importing, Item, tables, tree
  <2>1. CASE ImportBegin
    BY <2>1 DEF ImportBegin
  <2>2. CASE ImportMember
    BY <2>2 DEF ImportMember
  <2>3. CASE ImportLook
    BY <2>3 DEF ImportLook, WhenThere
  <2>4. CASE ImportEnsure
    BY <2>4 DEF ImportEnsure
  <2>5. CASE ImportPermit
    BY <2>5 DEF ImportPermit
  <2> QED
    BY <2>1, <2>2, <2>3, <2>4, <2>5 DEF Import
<1> QED
  BY <1>1, <1>2

\* A call goes from one place to the next and keeps its request.
LEMMA CallStep ==
  ASSUME CallsTyped, InCall, NEW c \in Calls, Step(c)
  PROVE  /\ CallsTyped' /\ InCall' /\ UNCHANGED importing
         /\ \A d \in Calls \ {c} : pc'[d] = pc[d] /\ req'[d] = req[d]
         /\ pc'[c] = "act" => req'[c] = req[c] /\ UNCHANGED tables
         /\ UNCHANGED tables \/ (req[c] \in Request /\ Effect(req[c]))
<1> USE ConstantsAssumption DEF CallsTyped, InCall
<1>1. CASE Submit(c)
  BY <1>1 DEF Submit
<1>2. CASE CheckAdmin(c)
  BY <1>2 DEF CheckAdmin
<1>3. CASE CheckPermission(c)
  BY <1>3 DEF CheckPermission
<1>4. CASE Act(c)
  BY <1>4 DEF Act
<1> QED
  BY <1>1, <1>2, <1>3, <1>4 DEF Step

\* Nothing is ever remembered.
LEMMA CacheStep ==
  ASSUME NothingCached, NEW c \in Calls, Step(c)
  PROVE  NothingCached'
<1> USE DEF NothingCached, Remember, Got, IsAnswer, caching
<1>1. CASE Submit(c) \/ Act(c)
  BY <1>1 DEF Submit, Act
<1>2. CASE CheckAdmin(c)
  BY <1>2 DEF CheckAdmin
<1>3. CASE CheckPermission(c)
  BY <1>3 DEF CheckPermission
<1> QED
  BY <1>1, <1>2, <1>3 DEF Step

-----------------------------------------------------------------------------
(* Who is granted something has a reason                                   *)

\* An administrator has one.
LEMMA AdminReason ==
  ASSUME NEW r \in Request, NEW got \in {"undefined", "null"}, InRole(r.by, got)
  PROVE  Reasons(r) # {}
<1>1. CASE r.by = SuperAdmin
  BY <1>1 DEF Reasons
<1>2. CASE r.by # SuperAdmin
  <2>1. <<r.by, AdminRole>> \in member
    BY <1>2 DEF InRole, IsAnswer
  <2> QED
    BY <2>1, ConstantsAssumption DEF Reasons
<1> QED
  BY <1>1, <1>2

\* The ACL that is asked is the one that rules the request.
LEMMA AskedIsRuling ==
  ASSUME TablesTyped, Rooted, NEW r \in Request, r.op \notin RoleOps, Subject(r) # NoDir
  PROVE  Governing(Subject(r)) \in Ruling(r)
<1>0. r.path \in Dirs
  BY DEF Request
<1>1. CASE r.op = "write"
  <2> DEFINE there == Prefixes(r.path) \cap exists
             s == Longest(there)
  <2>1. there \in SUBSET Prefixes(r.path) /\ there # {}
    BY <1>0, PathFacts DEF Rooted
  <2>2. s \in there /\ \A e \in there : Len(e) <= Len(s)
    BY <1>0, <2>1, LongestIsThere
  <2> HIDE DEF s
  <2>3. \A x \in there : IsPrefix(x, s)
    BY <1>0, <2>2, PrefixOrder
  <2>4. Subject(r) = s
    BY <1>1 DEF Subject, Nearest, s
  <2>5. s # NoDir
    BY <2>2, ConstantsAssumption DEF TablesTyped
  <2>6. gov[s] \in Ruling(r)
    BY <1>1, <2>2, <2>3 DEF Ruling
  <2> QED
    BY <2>4, <2>5, <2>6 DEF Governing
<1>2. ASSUME NEW s \in exists, Subject(r) = s, r.op # "write",
             s = IF r.op = "read" THEN Parent(r.path) ELSE r.path,
             r.op = "read" => r.path \in files
      PROVE  Governing(Subject(r)) \in Ruling(r)
  <2>1. s \in Dirs /\ s # NoDir
    BY ConstantsAssumption DEF TablesTyped
  <2>2. s \in Prefixes(s) /\ IsPrefix(s, s)
    BY <2>1, PathFacts, PrefixOrder
  <2>3. gov[s] \in Ruling(r)
    BY <1>2, <2>2 DEF Ruling
  <2> QED
    BY <1>2, <2>1, <2>3 DEF Governing
<1>3. CASE r.op = "read"
  <2>1. r.path \in files /\ Subject(r) = Parent(r.path)
    BY <1>3 DEF Subject
  <2> QED
    BY <1>2, <1>3, <2>1 DEF Rooted
<1>4. CASE r.op \notin {"read", "write"}
  <2>1. r.path \in exists /\ Subject(r) = r.path
    BY <1>4 DEF Subject
  <2> QED
    BY <1>2, <1>4, <2>1
<1> QED
  BY <1>1, <1>3, <1>4

\* So who has the permission has a reason as well.
LEMMA PermissionReason ==
  ASSUME TablesTyped, Rooted, NEW r \in Request, r.op \notin RoleOps,
         HasPermission(r.by, Needed(r), Subject(r))
  PROVE  Reasons(r) # {}
<1> DEFINE g == Governing(Subject(r))
<1>1. g # NoDir => g \in Ruling(r)
  BY AskedIsRuling DEF Governing
<1>2. CASE r.by \in users
  <2>1. PICK ro \in RolesOf(r.by), p \in Enough(Needed(r)) : <<g, ro, p>> \in perms
    BY <1>2 DEF HasPermission
  <2>2. ro \in Roles /\ <<r.by, ro>> \in member /\ g \in acl
    BY <2>1 DEF RolesOf, TablesTyped
  <2>3. g \in Ruling(r)
    BY <1>1, <2>2, ConstantsAssumption DEF TablesTyped
  <2> HIDE DEF g
  <2>4. ro \in {x \in Roles : /\ <<r.by, x>> \in member
                              /\ x = AdminRole \/ \E h \in Ruling(r), q \in Enough(Needed(r)) : <<h, x, q>> \in perms}
    BY <2>1, <2>2, <2>3
  <2> QED
    BY <2>4 DEF Reasons
<1>3. CASE r.by \notin users
  <2>1. Needed(r) = "read" /\ g \in public
    BY <1>3 DEF HasPermission
  <2>2. g \in Ruling(r)
    BY <1>1, <2>1, ConstantsAssumption DEF TablesTyped
  <2> QED
    BY <2>1, <2>2 DEF Reasons
<1> QED
  BY <1>2, <1>3

\* A check that grants something does so for a reason.
LEMMA GrantReason ==
  ASSUME TablesTyped, Rooted, InCall, NothingCached, NEW c \in Calls,
         CheckAdmin(c) \/ CheckPermission(c), pc'[c] = "act", req[c].op \notin RoleOps,
         pc \in [Calls -> {"idle", "admin", "permission", "act", "denied"}]
  PROVE  Reasons(req[c]) # {}
<1> USE DEF NothingCached
<1>0. req[c] \in Request
  BY DEF CheckAdmin, CheckPermission, InCall
<1>1. \A key : Got(key) \subseteq {"undefined", "null"}
  BY DEF Got
<1>2. CASE CheckAdmin(c)
  <2>1. PICK got \in {"undefined", "null"} : InRole(req[c].by, got) \/ AnswerUnused(req[c])
    BY <1>1, <1>2 DEF CheckAdmin
  <2> QED
    BY <1>0, <2>1, AdminReason DEF AnswerUnused
<1>3. CASE CheckPermission(c)
  <2> DEFINE r == req[c]
  <2>1. PICK got \in {"undefined", "null"} :
          IF IsAnswer(got) THEN got = "yes" ELSE HasPermission(r.by, Needed(r), Subject(r))
    BY <1>1, <1>3 DEF CheckPermission
  <2> QED
    BY <1>0, <2>1, PermissionReason DEF IsAnswer
<1> QED
  BY <1>2, <1>3

\* What was a reason when the check granted it is remembered until the call acts.
LEMMA HadReasonStep ==
  ASSUME IInv, Track, NEW c \in Calls, Step(c)
  PROVE  HadReason'
<1>1. TablesTyped /\ CallsTyped /\ Rooted /\ InCall /\ NothingCached
  BY TypeParts DEF IInv
<1> SUFFICES ASSUME NEW d \in Calls, pc'[d] = "act", req'[d].op \notin RoleOps PROVE ever'[d] # {}
  BY DEF HadReason
<1>2. ever'[d] = ever[d] \cup Why(d)'
  BY DEF Track
<1>3. CASE pc[d] = "act" /\ req'[d] = req[d]
  BY <1>2, <1>3 DEF IInv, HadReason
<1>4. CASE d = c
  <2>1. req'[c] = req[c] /\ UNCHANGED tables
    BY <1>1, <1>4, CallStep
  <2>2. CheckAdmin(c) \/ CheckPermission(c)
    BY <1>1, <1>4 DEF Step, Submit, Act, CallsTyped
  <2>3. Reasons(req[c]) # {} /\ req[c] \in Request
    BY <1>1, <1>4, <2>1, <2>2, GrantReason DEF CallsTyped, InCall, CheckAdmin, CheckPermission
  <2>4. Reasons(req[c])' = Reasons(req[c])
    BY <2>1 DEF Reasons, Ruling, tables, accounts, tree, acls
  <2>5. Why(c)' = Reasons(req[c])'
    BY <2>1, <2>3, ConstantsAssumption DEF Why
  <2> QED
    BY <1>2, <1>4, <2>3, <2>4, <2>5
<1>5. CASE d # c
  BY <1>1, <1>3, <1>5, CallStep
<1> QED
  BY <1>4, <1>5

-----------------------------------------------------------------------------
(* An import that is not to merge                                          *)

\* It comes only to ACLs that were not there when it looked.
LEMMA NotKeptStep ==
  ASSUME IInv, Track, Import
  PROVE  NotKept'
<1> USE DEF tables, acls, Importing, Item, NextItem, Stop
<1>1. kept' \subseteq acl' /\ (importing.step # "off" => kept' \subseteq kept)
  BY DEF Track
<1>2. CASE ImportBegin
  BY <1>1, <1>2 DEF ImportBegin, NotKept
<1>3. CASE ImportMember
  BY <1>1, <1>3 DEF ImportMember, NotKept, IInv, ImportTyped
<1>4. CASE ImportLook
  BY <1>1, <1>4 DEF ImportLook, WhenThere, NotKept, IInv, ImportTyped
<1>5. CASE ImportEnsure
  BY <1>1, <1>5 DEF ImportEnsure, NotKept, IInv, ImportTyped
<1>6. CASE ImportPermit
  BY <1>1, <1>6 DEF ImportPermit, NotKept, IInv, ImportTyped
<1> QED
  BY <1>2, <1>3, <1>4, <1>5, <1>6 DEF Import

\* And what it does to the others is nothing.
LEMMA ImportSpares ==
  ASSUME IInv, Import, importing.mode \in {"fail", "skip"}, NEW d \in kept
  PROVE  /\ d \in acl' /\ (d \in public' <=> d \in public)
         /\ \A r \in Roles, n \in Needs : <<d, r, n>> \in perms' <=> <<d, r, n>> \in perms
<1> USE DEF tables, acls, tree
<1>0. d \in acl /\ (Importing /\ importing.step \in {"ensure", "permit"} => Item.dir # d)
  BY DEF IInv, NotKept
<1>1. CASE ImportBegin \/ ImportMember \/ ImportLook
  BY <1>0, <1>1 DEF ImportBegin, ImportMember, ImportLook
<1>2. CASE ImportEnsure
  BY <1>0, <1>2 DEF ImportEnsure, EnsureRoot
<1>3. CASE ImportPermit
  BY <1>0, <1>3 DEF ImportPermit, Grant, EnsureRoot
<1> QED
  BY <1>1, <1>2, <1>3 DEF Import

-----------------------------------------------------------------------------

\* The tables to start with keep their references.
LEMMA InitTyped ==
  ASSUME Init
  PROVE  TablesTyped /\ Rooted
<1>1. PICK t \in Setups :
        /\ users = {m[1] : m \in t.member}
        /\ roles = {AdminRole} \cup {m[2] : m \in t.member} \cup {p[2] : p \in t.perms}
        /\ member = t.member /\ exists = t.dirs /\ files = t.files
        /\ acl = {p[1] : p \in t.perms} /\ public = {} /\ perms = t.perms
        /\ gov = [d \in Dirs |-> NearestAcl(d, {p[1] : p \in t.perms}, t.dirs)]
  BY DEF Init
<1>2. /\ t.member \subseteq Users \X Roles /\ t.perms \subseteq t.dirs \X Roles \X Needs
      /\ Top \in t.dirs /\ t.dirs \subseteq Dirs /\ t.files \subseteq {f \in Dirs : Front(f) \in t.dirs}
  BY SetupsAssumption
<1>3. /\ users \subseteq Users /\ roles \subseteq Roles /\ acl \subseteq exists /\ public \subseteq acl
      /\ exists \subseteq Dirs /\ files \subseteq Dirs
  BY <1>1, <1>2, ConstantsAssumption
<1>4. member \subseteq users \X roles
  <2> SUFFICES ASSUME NEW m \in member PROVE m \in users \X roles
    OBVIOUS
  <2>1. m \in Users \X Roles /\ m[1] \in users /\ m[2] \in roles
    BY <1>1, <1>2
  <2> QED
    BY <2>1
<1>5. perms \subseteq acl \X roles \X Needs
  <2> SUFFICES ASSUME NEW p \in perms PROVE p \in acl \X roles \X Needs
    OBVIOUS
  <2>1. p \in t.dirs \X Roles \X Needs /\ p[1] \in acl /\ p[2] \in roles
    BY <1>1, <1>2
  <2> QED
    BY <2>1
<1>6. gov \in [Dirs -> acl \cup {NoDir}]
  <2> SUFFICES ASSUME NEW d \in Dirs PROVE NearestAcl(d, acl, exists) \in acl \cup {NoDir}
    BY <1>1
  <2>1. Prefixes(d) \cap acl \in SUBSET Prefixes(d)
    OBVIOUS
  <2>2. Prefixes(d) \cap acl # {} => Longest(Prefixes(d) \cap acl) \in Prefixes(d) \cap acl
    BY <2>1, LongestIsThere
  <2> QED
    BY <2>2 DEF NearestAcl
<1>7. Rooted
  BY <1>1, <1>2 DEF Rooted, Parent
<1> QED
  BY <1>3, <1>4, <1>5, <1>6, <1>7 DEF TablesTyped

\* Every step of a call keeps the rest of the invariant, ...
LEMMA CallKeeps ==
  ASSUME IInv, Track, NEW c \in Calls, Step(c)
  PROVE  IInv'
<1>1. TablesTyped /\ CallsTyped /\ Rooted /\ InCall /\ NothingCached
  BY TypeParts DEF IInv
<1>2. CallsTyped' /\ InCall' /\ UNCHANGED importing
  BY <1>1, CallStep
<1>3. TablesTyped' /\ Rooted' /\ exists \subseteq exists'
  <2>1. CASE UNCHANGED tables
    BY <1>1, <2>1 DEF TablesTyped, Rooted, tables, accounts, tree, acls
  <2>2. CASE req[c] \in Request /\ Effect(req[c])
    BY <1>1, <2>2, EffectTyped
  <2> QED
    BY <1>1, <2>1, <2>2, CallStep
<1>4. ImportTyped' /\ ImportPlace'
  BY <1>2, <1>3 DEF IInv, ImportTyped, ImportPlace, Importing, Item
<1>5. NotKept'
  <2>1. kept' \subseteq acl'
    BY DEF Track
  <2>2. importing.step # "off" => kept' \subseteq kept
    BY DEF Track
  <2> QED
    BY <1>2, <2>1, <2>2 DEF IInv, NotKept, Importing, Item
<1>6. NothingCached'
  BY <1>1, CacheStep
<1>7. HadReason'
  BY HadReasonStep
<1>8. TypeOK'
  BY <1>2, <1>3 DEF TypeOK, TablesTyped, CallsTyped
<1> QED
  BY <1>2, <1>3, <1>4, <1>5, <1>6, <1>7, <1>8 DEF IInv

\* ... and so does every step of an import.
LEMMA ImportStepKeeps ==
  ASSUME IInv, Track, Import
  PROVE  IInv'
<1>1. TablesTyped /\ CallsTyped
  BY TypeParts DEF IInv
<1>2. TablesTyped' /\ Rooted' /\ UNCHANGED <<pc, req, caching>>
  BY <1>1, ImportKeepsTables DEF IInv
<1>3. ImportTyped' /\ ImportPlace' /\ NotKept'
  BY <1>1, ImportStep, NotKeptStep DEF IInv
<1>4. CallsTyped' /\ InCall' /\ NothingCached'
  BY <1>1, <1>2 DEF IInv, CallsTyped, InCall, NothingCached, caching
<1>5. HadReason'
  <2> SUFFICES ASSUME NEW c \in Calls, pc'[c] = "act", req'[c].op \notin RoleOps PROVE ever'[c] # {}
    BY DEF HadReason
  <2>1. ever'[c] = ever[c] \cup Why(c)'
    BY DEF Track
  <2> QED
    BY <1>2, <2>1 DEF IInv, HadReason
<1>6. TypeOK'
  BY <1>2, <1>4 DEF TypeOK, TablesTyped, CallsTyped
<1> QED
  BY <1>2, <1>3, <1>4, <1>5, <1>6 DEF IInv

LEMMA Invariant == Spec => []IInv
<1>1. Init => IInv
  <2> SUFFICES ASSUME Init PROVE IInv
    OBVIOUS
  <2>1. TypeOK /\ Rooted
    BY InitTyped, TypeParts DEF Init, CallsTyped
  <2>2. ImportTyped /\ ImportPlace /\ NotKept
    BY DEF Init, ImportTyped, ImportPlace, NotKept, Importing
  <2>3. InCall /\ NothingCached /\ HadReason
    BY DEF Init, InCall, NothingCached, HadReason
  <2> QED
    BY <2>1, <2>2, <2>3 DEF IInv
<1>2. IInv /\ [Next]_vars => IInv'
  <2> SUFFICES ASSUME IInv, [Next]_vars PROVE IInv'
    OBVIOUS
  <2>1. CASE UNCHANGED vars
    BY <2>1
    DEF vars, tables, accounts, tree, acls, caching, IInv, TypeOK, Rooted, ImportTyped,
        ImportPlace, InCall, NothingCached, HadReason, NotKept, Importing, Item
  <2>2. CASE Next
    BY <2>2, CallKeeps, ImportStepKeeps DEF Next, Step
  <2> QED
    BY <2>1, <2>2
<1> QED
  BY <1>1, <1>2, PTL DEF Spec

\* Whoever sets and removes ACLs, roles and members while calls are checked and
\* ACLs imported: a permission is on an ACL that is there and of a role that is,
\* a membership of a user and a role that are, and a directory is governed by an
\* ACL that is there.
THEOREM ReferencesKept == Spec => []TypeOK
<1>1. IInv => TypeOK
  BY DEF IInv
<1> QED
  BY <1>1, Invariant, PTL

\* For any accounts, any tree and any number of calls, checkPermissions() lets
\* nobody do what the rules did not allow at some moment of the call.
THEOREM GrantsHaveReasons == Spec => []GrantedByRule
<1>1. IInv => GrantedByRule
  BY DEF IInv, HadReason, GrantedByRule
<1> QED
  BY <1>1, Invariant, PTL

\* An import that is to fail or to skip changes no ACL that was there when it
\* began, whatever others do while it runs.
THEOREM ImportsSpare == Spec => ImportKeeps
<1> DEFINE Spares ==
      importing' # importing /\ importing.mode \in {"fail", "skip"} =>
        \A d \in kept : /\ d \in acl' /\ (d \in public' <=> d \in public)
                        /\ \A r \in Roles, n \in Needs :
                             <<d, r, n>> \in perms' <=> <<d, r, n>> \in perms
<1>1. IInv /\ [Next]_vars => Spares
  <2> SUFFICES ASSUME IInv, [Next]_vars, importing' # importing PROVE Spares
    OBVIOUS
  <2>1. CASE Import
    BY <2>1, ImportSpares
  <2>2. ASSUME NEW c \in Calls, Step(c) PROVE Spares
    BY <2>2, CallStep, TypeParts DEF IInv
  <2> QED
    BY <2>1, <2>2 DEF Next, Step, vars
<1>2. IInv /\ [Next]_vars => [Spares]_vars
  BY <1>1
<1> QED
  BY <1>2, Invariant, PTL DEF Spec, ImportKeeps

-----------------------------------------------------------------------------
(* Who has a reason is granted it                                          *)

\* Only the ACL that is asked rules a request.
LEMMA RulingIsAsked ==
  ASSUME TablesTyped, Rooted, NEW r \in Request, NEW g \in Ruling(r)
  PROVE  Subject(r) # NoDir /\ g = Governing(Subject(r))
<1> DEFINE path == IF r.op = "read" THEN Parent(r.path) ELSE r.path
           there == {d \in Prefixes(path) \cap exists :
                       r.op = "write" \/ (d = path /\ (r.op = "read" => r.path \in files))}
<1>0. r.path \in Dirs
  BY DEF Request
<1>1. PICK e \in there : g = gov[e] /\ \A x \in there : IsPrefix(x, e)
  BY DEF Ruling
<1>2. e \in Dirs /\ e # NoDir
  BY ConstantsAssumption DEF TablesTyped
<1>3. Subject(r) = e
  <2>1. CASE r.op = "write"
    <3> DEFINE s == Longest(there)
    <3>1. there = Prefixes(r.path) \cap exists /\ there \in SUBSET Prefixes(r.path) /\ there # {}
      BY <1>0, <2>1, PathFacts DEF Rooted
    <3>2. s \in there /\ Len(e) <= Len(s)
      BY <1>0, <1>1, <3>1, LongestIsThere
    <3> HIDE DEF s
    <3>3. Len(s) <= Len(e)
      BY <1>1, <3>2 DEF IsPrefix
    <3>4. /\ Len(s) \in Nat /\ s = SubSeq(r.path, 1, Len(s))
          /\ Len(e) \in Nat /\ e = SubSeq(r.path, 1, Len(e))
      <4>1. s \in Prefixes(r.path) /\ e \in Prefixes(r.path)
        BY <3>1, <3>2
      <4> HIDE DEF there, path
      <4> QED
        BY <1>0, <4>1, PathFacts
    <3>5. Len(s) = Len(e)
      <4>1. \A m, n \in Nat : m <= n /\ n <= m => m = n
        OBVIOUS
      <4> HIDE DEF there, path
      <4>2. Len(s) \in Nat /\ Len(e) \in Nat
        BY <3>4
      <4> QED
        BY <3>2, <3>3, <4>1, <4>2
    <3>6. s = e
      BY <3>4, <3>5
    <3> QED
      BY <2>1, <3>1, <3>6 DEF Subject, Nearest, s
  <2>2. CASE r.op = "read"
    BY <1>1, <2>2 DEF Subject
  <2>3. CASE r.op \notin {"read", "write"}
    BY <1>1, <2>3 DEF Subject
  <2> QED
    BY <2>1, <2>2, <2>3
<1> QED
  BY <1>1, <1>2, <1>3 DEF Governing

\* A role somebody has, of an account.
LEMMA MemberHasAccount ==
  ASSUME TablesTyped, NEW u, NEW ro, <<u, ro>> \in member
  PROVE  u \in users /\ u # Nobody /\ ro \in RolesOf(u)
<1>1. u \in users /\ u # Nobody
  BY ConstantsAssumption DEF TablesTyped
<1>2. ro \in RolesOf(u)
  <2>1. <<u, ro>> \in {n \in member : n[1] = u}
    OBVIOUS
  <2> QED
    BY <2>1 DEF RolesOf
<1> QED
  BY <1>1, <1>2

\* Who is refused as an administrator has no reason as one, ...
LEMMA NoAdminReason ==
  ASSUME TablesTyped, NEW r \in Request, ~InRole(r.by, "null")
  PROVE  /\ r.by # SuperAdmin
         /\ \A x \in Reasons(r) : x = "public" \/ x \in Roles \ {AdminRole}
<1>1. r.by # SuperAdmin
  BY ConstantsAssumption DEF InRole
<1>2. <<r.by, AdminRole>> \notin member
  BY <1>1, MemberHasAccount DEF InRole, IsAnswer
<1> QED
  BY <1>1, <1>2 DEF Reasons

\* ... and who is refused the permission has no other role for it, and only with
\* an account the reason that the directory is public.
LEMMA NoOtherReason ==
  ASSUME TablesTyped, Rooted, NEW r \in Request, r.by # SuperAdmin,
         ~HasPermission(r.by, Needed(r), Subject(r))
  PROVE  /\ Reasons(r) \subseteq {"public", AdminRole}
         /\ r.by \notin users => Reasons(r) = {}
<1> DEFINE g == Governing(Subject(r))
<1>1. Ruling(r) \subseteq {g}
  BY RulingIsAsked
<1> HIDE DEF g
<1>2. ASSUME NEW ro \in Roles, <<r.by, ro>> \in member, ro # AdminRole
      PROVE  ~ \E h \in Ruling(r), p \in Enough(Needed(r)) : <<h, ro, p>> \in perms
  BY <1>1, <1>2, MemberHasAccount DEF HasPermission, g
<1>3. CASE r.by \in users
  BY <1>2, <1>3 DEF Reasons
<1>4. CASE r.by \notin users
  <2>1. ~(Needed(r) = "read" /\ Ruling(r) \cap public # {})
    BY <1>1, <1>4 DEF HasPermission, g
  <2>2. \A ro \in Roles : <<r.by, ro>> \notin member
    BY <1>4, MemberHasAccount
  <2> QED
    BY <1>4, <2>1, <2>2 DEF Reasons
<1> QED
  BY <1>3, <1>4

\* What is left of the reasons a call has had all the time: without the role of
\* the administrators after the first query, and after the second at most that
\* the directory is public to those without an account.
Refused ==
  \A c \in Calls : ~cacheOn =>
    /\ pc[c] = "permission" =>
         req[c].by # SuperAdmin /\ \A x \in held[c] : x = "public" \/ x \in Roles \ {AdminRole}
    /\ pc[c] = "denied" => held[c] = {} \/ (held[c] = {"public"} /\ req[c].by \in users)

\* No account goes.
LEMMA AccountsStay ==
  ASSUME IInv, Import \/ \E c \in Calls : Step(c)
  PROVE  users \subseteq users'
<1> USE DEF tables, accounts
<1>1. CASE Import
  BY <1>1 DEF Import, ImportBegin, ImportMember, ImportLook, ImportEnsure, ImportPermit, Ensure,
              EnsureMember
<1>2. ASSUME NEW c \in Calls, Step(c) PROVE users \subseteq users'
  <2>1. ASSUME NEW r, Effect(r) PROVE users \subseteq users'
    BY <2>1 DEF Effect, Write, SetPublic, Permit, Grant, Revoke, Unset, AddUser, AddRole, AddMember,
                EnsureMember, Ensure, DropRole, Throws
  <2> QED
    BY <1>2, <2>1 DEF Step, Submit, CheckAdmin, CheckPermission, Act
<1> QED
  BY <1>1, <1>2

\* The reasons a call has after a query are those it had when it asked.
LEMMA WhyAsked ==
  ASSUME IInv, Track, NEW c \in Calls, CheckAdmin(c) \/ CheckPermission(c)
  PROVE  /\ req[c] \in Request /\ req'[c] = req[c]
         /\ pc'[c] # "admin" => held'[c] = held[c] \cap Reasons(req[c])
<1>1. req[c] \in Request /\ req' = req /\ UNCHANGED tables
  BY DEF IInv, InCall, CheckAdmin, CheckPermission
<1>2. Why(c)' = Reasons(req[c])
  BY <1>1, ConstantsAssumption DEF Why, Reasons, Ruling, tables, accounts, tree, acls
<1> QED
  BY <1>1, <1>2 DEF Track

LEMMA RefusedStep ==
  ASSUME IInv, Refused, Track, Import \/ \E c \in Calls : Step(c)
  PROVE  Refused'
<1> SUFFICES ASSUME NEW d \in Calls, ~cacheOn'
             PROVE  /\ pc'[d] = "permission" =>
                         /\ req'[d].by # SuperAdmin
                         /\ \A x \in held'[d] : x = "public" \/ x \in Roles \ {AdminRole}
                    /\ pc'[d] = "denied" =>
                         held'[d] = {} \/ (held'[d] = {"public"} /\ req'[d].by \in users')
  BY DEF Refused
<1>0. TablesTyped /\ Rooted /\ CallsTyped /\ InCall
  BY TypeParts DEF IInv
<1>1. ~cacheOn /\ users \subseteq users'
  <2>1. CASE Import
    BY <1>0, <2>1, AccountsStay, ImportKeepsTables DEF IInv, caching
  <2>2. ASSUME NEW c \in Calls, Step(c) PROVE ~cacheOn /\ users \subseteq users'
    <3>1. cacheOn' = cacheOn
      BY <2>2 DEF Step, Submit, CheckAdmin, CheckPermission, Act, caching
    <3> QED
      BY <2>2, <3>1, AccountsStay
  <2> QED
    BY <2>1, <2>2
<1>2. pc'[d] # "admin" => held'[d] \subseteq held[d]
  BY DEF Track
<1>3. CASE pc'[d] = pc[d] /\ req'[d] = req[d]
  BY <1>1, <1>2, <1>3 DEF Refused
<1>4. CASE Import
  BY <1>0, <1>3, <1>4, ImportKeepsTables DEF IInv
<1>5. ASSUME NEW c \in Calls, Step(c), c # d
      PROVE  pc'[d] = pc[d] /\ req'[d] = req[d]
  BY <1>0, <1>5, CallStep
<1>6. CASE Submit(d) \/ Act(d)
  BY <1>0, <1>6 DEF Submit, Act, CallsTyped
<1>7. CASE CheckAdmin(d)
  <2>1. pc'[d] \in {"act", "permission"}
    BY <1>0, <1>7 DEF CheckAdmin, CallsTyped
  <2>2. CASE pc'[d] = "permission"
    <3>1. ~InRole(req[d].by, "null")
      BY <1>0, <1>1, <1>7, <2>2 DEF CheckAdmin, Got, CallsTyped
    <3> QED
      BY <1>0, <1>7, <2>2, <3>1, WhyAsked, NoAdminReason
  <2> QED
    BY <2>1, <2>2
<1>8. CASE CheckPermission(d)
  <2> DEFINE r == req[d]
  <2>1. pc[d] = "permission" /\ pc'[d] \in {"act", "denied"}
    BY <1>0, <1>8 DEF CheckPermission, CallsTyped
  <2>2. CASE pc'[d] = "denied"
    <3>1. ~HasPermission(r.by, Needed(r), Subject(r))
      BY <1>0, <1>1, <1>8, <2>2 DEF CheckPermission, Got, IsAnswer, CallsTyped
    <3>2. /\ r \in Request /\ req'[d] = r /\ held'[d] = held[d] \cap Reasons(r)
          /\ r.by # SuperAdmin /\ \A x \in held[d] : x = "public" \/ x \in Roles \ {AdminRole}
      BY <1>1, <1>8, <2>1, <2>2, WhyAsked DEF Refused
    <3>3. Reasons(r) \subseteq {"public", AdminRole} /\ (r.by \notin users => Reasons(r) = {})
      BY <1>0, <3>1, <3>2, NoOtherReason
    <3>4. held'[d] \subseteq {"public"} /\ (r.by \notin users => held'[d] = {})
      BY <3>2, <3>3
    <3> QED
      BY <1>1, <2>2, <3>2, <3>4
  <2> QED
    BY <2>1, <2>2
<1> QED
  BY <1>3, <1>4, <1>5, <1>6, <1>7, <1>8 DEF Step

\* A listing leaves out nothing its reader has a role for, or anybody may read.
LEMMA Listed ==
  ASSUME TablesTyped, NEW u, NEW e \in exists,
         Reasons([op |-> "list", by |-> u, path |-> e]) \ {AdminRole, SuperAdmin} # {}
  PROVE  IsListed(u, e)
<1> DEFINE r == [op |-> "list", by |-> u, path |-> e]
<1>1. r.op = "list" /\ r.by = u /\ r.path = e /\ Needed(r) = "read"
  BY DEF Needed
<1>2. Ruling(r) \subseteq {gov[e]}
  BY <1>1 DEF Ruling
<1>3. PICK x \in Reasons(r) : x \notin {AdminRole, SuperAdmin}
  OBVIOUS
<1> HIDE DEF r
<1>4. CASE Ruling(r) \cap public # {}
  BY <1>2, <1>4 DEF IsListed
<1>5. CASE /\ <<u, x>> \in member
           /\ \E g \in Ruling(r), p \in Enough(Needed(r)) : <<g, x, p>> \in perms
  <2>1. PICK p \in Needs : <<gov[e], x, p>> \in perms
    BY <1>1, <1>2, <1>5 DEF Enough, Needs
  <2>2. u \in users
    BY <1>5, MemberHasAccount
  <2> QED
    BY <2>1, <2>2 DEF IsListed
<1> QED
  BY <1>1, <1>3, <1>4, <1>5 DEF Reasons

\* For any accounts, any tree and any number of calls: nobody is refused what the
\* same rule allowed all the time of the call, but that a user with an account
\* needs a role to read what is public, and that nothing is looked up with the
\* cache on; and no directory is hidden from who may read it.
THEOREM ReasonsAreHonoured == Spec => []GrantsHonoured
<1>1. Init => Refused
  BY DEF Init, Refused
<1>2. IInv /\ Refused /\ [Next]_vars => Refused'
  <2> SUFFICES ASSUME IInv, Refused, [Next]_vars PROVE Refused'
    OBVIOUS
  <2>1. CASE UNCHANGED vars
    BY <2>1 DEF vars, tables, accounts, caching, Refused
  <2>2. CASE Next
    BY <2>2, RefusedStep DEF Next, Step
  <2> QED
    BY <2>1, <2>2
<1>3. IInv /\ Refused => GrantsHonoured
  BY Listed, TypeParts DEF IInv, Refused, GrantsHonoured
<1> QED
  BY <1>1, <1>2, <1>3, Invariant, PTL DEF Spec
=============================================================================
