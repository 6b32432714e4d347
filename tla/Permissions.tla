----------------------------- MODULE Permissions -----------------------------
(***************************************************************************)
(* Who may do what: users, their roles, the permissions of roles on        *)
(* directories, and the check every call makes before it acts.             *)
(*                                                                         *)
(* A check is two queries, whether the requestor is an administrator and   *)
(* whether a role of hers has the permission; the call acts after that, in *)
(* a transaction of its own.  Other calls, and an import of ACLs, change   *)
(* the tables in between.                                                  *)
(*                                                                         *)
(* Abstracted: the steps of a transaction (AclInheritance has those of the *)
(* recursion), and the files but for where they are.                       *)
(***************************************************************************)
EXTENDS Naturals, Sequences, FiniteSets, SequencesExt

CONSTANTS
  Users, Roles,   \* names, in the tables or not
  AdminRole,      \* config.acl.adminRole, one of Roles
  SuperAdmin,     \* config.acl.superAdminUser, one of Users
  Nobody,         \* no requestor
  Dirs,           \* paths of directories, and of files
  Setups,         \* tables to start with
  Calls, Requests,\* the calls at the same time, and what each may ask for
  Archive,        \* the items of an ACL import, in order
  MaxCalls,       \* bound on the number of calls
  NoDir, NoReq

Needs == {"read", "write", "admin"}
Top == << >>

RoleOps == {"addUser", "addRole", "addMember", "dropMember", "dropRole"}
DirOps == {"public", "permit", "revoke", "unset"}

\* Of a context: nobody unless the call, or config.acl.defaultRequestor, says who.
Requestor == Users \cup {Nobody}
Request ==
  [op : {"read", "write", "list"} \cup DirOps \cup RoleOps, by : Requestor,
   path : Dirs, user : Users, role : Roles, need : Needs, flag : {"true", "false"}]

ASSUME ConstantsAssumption ==
  /\ AdminRole \in Roles /\ SuperAdmin \in Users /\ Nobody \notin Users
  /\ Dirs \subseteq Seq(STRING) /\ Top \in Dirs /\ \A d \in Dirs : Prefixes(d) \subseteq Dirs
  /\ Requests \in [Calls -> SUBSET Request] /\ MaxCalls \in Nat
  /\ NoDir \notin Dirs /\ NoReq \notin Request

\* The tables to start with have the directories of their files and ACLs, and
\* an export has what its tables had.
ASSUME SetupsAssumption ==
  \A t \in Setups :
    /\ t.member \subseteq Users \X Roles /\ t.perms \subseteq t.dirs \X Roles \X Needs
    /\ Top \in t.dirs /\ t.dirs \subseteq Dirs /\ t.files \subseteq {f \in Dirs : Front(f) \in t.dirs}

ASSUME ArchiveAssumption ==
  \A i \in 1..Len(Archive) :
    LET item == Archive[i] IN
    /\ item.kind \in {"role", "user", "member", "acl"}
    /\ item.kind \in {"role", "member"} => item.role \in Roles
    /\ item.kind \in {"user", "member"} => item.user \in Users
    /\ item.kind = "acl" => item.dir \in Dirs /\ item.perms \subseteq Roles \X Needs

VARIABLES
  users, roles,    \* acl_user and acl_role
  member,          \* acl_role_user: pairs of a user and a role
  exists, files,   \* directories, and files
  acl,             \* root_directory_acl: the directories with an ACL of their own
  public,          \* those whose ACL says public
  perms,           \* acl_permission: triples of a directory, a role and a permission
  gov,             \* directory_acl: the directory whose ACL governs a directory
  cacheOn, cache,  \* whether answers are remembered, and which are
  pc, req,         \* of each call: "idle", "admin", "permission", "act" or "denied"
  ever, held,      \* why the call could be granted: at some time, and all the time
  calls,           \* how many there have been
  importing,       \* the ACL import: its mode, place in Archive, and step
  kept             \* the ACLs that have been there since it began

accounts == <<users, roles, member>>
tree == <<exists, files>>
acls == <<acl, public, perms, gov>>
tables == <<accounts, tree, acls>>
caching == <<cacheOn, cache>>
vars == <<tables, caching, pc, req, ever, held, calls, importing, kept>>

Parent(d) == Front(d)
Longest(S) == CHOOSE d \in S : \A e \in S : Len(e) <= Len(d)

\* Of a tree whose ACLs were set from the top down.
NearestAcl(d, own, there) ==
  LET above == Prefixes(d) \cap own IN
  IF d \in there /\ above # {} THEN Longest(above) ELSE NoDir

Init ==
  /\ \E t \in Setups :
       /\ users = {m[1] : m \in t.member} /\ roles = {AdminRole} \cup {m[2] : m \in t.member} \cup {p[2] : p \in t.perms}
       /\ member = t.member /\ exists = t.dirs /\ files = t.files
       /\ acl = {p[1] : p \in t.perms} /\ public = {} /\ perms = t.perms
       /\ gov = [d \in Dirs |-> NearestAcl(d, {p[1] : p \in t.perms}, t.dirs)]
  /\ cacheOn \in BOOLEAN /\ cache = {}
  /\ pc = [c \in Calls |-> "idle"] /\ req = [c \in Calls |-> NoReq]
  /\ ever = [c \in Calls |-> {}] /\ held = [c \in Calls |-> {}] /\ calls = 0
  /\ importing = [mode |-> "none", next |-> 1, step |-> "off", left |-> {}] /\ kept = {}

-----------------------------------------------------------------------------
(* The check.                                                              *)

\* get(): what is not remembered reads as undefined, and as null if nothing
\* ever is.  An entry goes after its time to live.
Got(key) ==
  IF cacheOn THEN {"undefined"} \cup {v \in {"yes", "no"} : <<key, v>> \in cache} ELSE {"null"}

Defined(got) == got \in {"yes", "no"}    \* mutant: undefined is not an answer
IsAnswer(got) == got # "null"

Remember(key, got, value) ==
  cache' = IF ~cacheOn \/ IsAnswer(got) THEN cache
           ELSE {e \in cache : e[1] # key} \cup {<<key, IF value THEN "yes" ELSE "no">>}

\* userInRole(): nobody is in no role, and the super user in every one.
InRole(u, got) ==
  CASE u = Nobody -> FALSE
    [] u = SuperAdmin -> TRUE
    [] OTHER -> IF IsAnswer(got) THEN got = "yes" ELSE <<u, AdminRole>> \in member

\* The directory whose ACL is asked: for a write the nearest one that exists, or
\* the path itself if that is one; for a read that of the file.
Outermost(S) == CHOOSE d \in S : \A e \in S : Len(d) <= Len(e)    \* mutant: ORDER BY ASC
Nearest(S) == Longest(S)
Subject(r) ==
  CASE r.op = "write" -> Nearest(Prefixes(r.path) \cap exists)
    [] r.op = "read" -> IF r.path \in files THEN Parent(r.path) ELSE NoDir
    [] OTHER -> IF r.path \in exists THEN r.path ELSE NoDir
Needed(r) ==
  CASE r.op \in {"read", "list"} -> "read" [] r.op = "write" -> "write" [] OTHER -> "admin"
Enough(need) ==
  CASE need = "read" -> Needs [] need = "write" -> {"write", "admin"} [] OTHER -> {"admin"}

Governing(d) == IF d = NoDir THEN NoDir ELSE gov[d]

\* get_permission(): a user that is not in the table counts as nobody.
RolesOf(u) == {m[2] : m \in {n \in member : n[1] = u}}
HasPermission(u, need, d) ==
  LET g == Governing(d) IN
  IF u \in users
  THEN \E r \in RolesOf(u), p \in Enough(need) : <<g, r, p>> \in perms
  ELSE need = "read" /\ g \in public

\* getChildDirectories(): a join that nobody else's roles are left out of.
IsListed(u, e) ==
  \/ gov[e] \in public
  \/ u \in users /\ \E p \in perms : p[1] = gov[e]

\* allowAdminAction() returns its answer, and the calls do not look at it.
AnswerUnused(r) == r.op \in RoleOps

CheckAdmin(c) ==
  /\ pc[c] = "admin"
  /\ LET key == <<req[c].by, "admin">> IN
     \E got \in Got(key) :
       LET admin == InRole(req[c].by, got) IN
       /\ IF req[c].by \in {Nobody, SuperAdmin} THEN UNCHANGED cache
          ELSE Remember(key, got, admin)
       /\ pc' = [pc EXCEPT ![c] = IF admin \/ AnswerUnused(req[c]) THEN "act" ELSE "permission"]
  /\ UNCHANGED <<tables, cacheOn, req, calls, importing>>

CheckPermission(c) ==
  /\ pc[c] = "permission"
  /\ LET r == req[c] 
         key == <<r.by, r.path, Needed(r)>> IN
     \E got \in Got(key) :
       LET may == IF IsAnswer(got) THEN got = "yes" ELSE HasPermission(r.by, Needed(r), Subject(r)) IN
       /\ IF r.by = Nobody /\ Needed(r) # "read" THEN UNCHANGED cache ELSE Remember(key, got, may)
       /\ pc' = [pc EXCEPT ![c] = IF may THEN "act" ELSE "denied"]
  /\ UNCHANGED <<tables, cacheOn, req, calls, importing>>

-----------------------------------------------------------------------------
(* What the calls do.                                                      *)

\* mkdir(): a new directory gets the ACL of "/", if that governs "/".
Write(r) ==
  LET new == Prefixes(Parent(r.path)) \ exists IN
  /\ exists' = exists \cup new /\ files' = files \cup {r.path}
  /\ gov' = [d \in Dirs |-> IF d \in new /\ gov[Top] = Top THEN Top ELSE gov[d]]
  /\ UNCHANGED <<accounts, acl, public, perms>>

\* setDirectoryAcl(): the directory, and those below it that have no ACL of
\* their own; a directory that has this one already is not looked into.
HandDown(g, d, a) ==
  [e \in Dirs |->
     IF /\ e \in exists /\ IsPrefix(d, e)
        /\ \A x \in Prefixes(e) : IsPrefix(d, x) => g[x] # a /\ (x = d \/ x \notin acl)
     THEN a ELSE g[e]]

\* ensureRootDirectoryAcl()
IsPublic(flag) == flag = "true"
EnsureRoot(d, isPublic) ==
  /\ acl' = acl \cup {d}
  /\ public' = IF isPublic THEN public \cup {d} ELSE public \ {d}

SetPublic(r) ==
  /\ r.path \in exists
  /\ EnsureRoot(r.path, IsPublic(r.flag)) /\ gov' = HandDown(gov, r.path, r.path)
  /\ UNCHANGED <<accounts, tree, perms>>

\* Which makes a public directory private.
Grant(d, role, need) ==
  /\ roles' = roles \cup {role} /\ EnsureRoot(d, FALSE)
  /\ perms' = perms \cup {<<d, role, need>>}
Permit(r) ==
  /\ r.path \in exists /\ Grant(r.path, r.role, r.need)
  /\ gov' = HandDown(gov, r.path, r.path)
  /\ UNCHANGED <<users, member, tree>>

PermsWithout(d, role, need) == perms \ {<<d, role, need>>}
Revoke(r) ==
  /\ perms' = PermsWithout(r.path, r.role, r.need)
  /\ UNCHANGED <<accounts, tree, acl, public, gov>>

\* The cascades, and then the ACL of the nearest directory above that has one.
RemoveRoot(d) ==
  LET freed == [e \in Dirs |-> IF gov[e] = d THEN NoDir ELSE gov[e]]
      above == (Prefixes(d) \ {d}) \cap acl IN
  /\ acl' = acl \ {d} /\ public' = public \ {d} /\ perms' = {p \in perms : p[1] # d}
  /\ gov' = IF above = {} THEN freed ELSE HandDown(freed, d, Longest(above))
Unset(r) == r.path \in acl /\ RemoveRoot(r.path) /\ UNCHANGED <<accounts, tree>>

\* ensureUser(), ensureRole() and ensureUserRole()
Ensure(us, rs, ms) == users' = users \cup us /\ roles' = roles \cup rs /\ member' = member \cup ms
EnsureMember(u, role) == Ensure({u}, {role}, {<<u, role>>})

AddUser(r) == Ensure({r.user}, {}, {}) /\ UNCHANGED <<tree, acls>>
AddRole(r) == Ensure({}, {r.role}, {}) /\ UNCHANGED <<tree, acls>>
AddMember(r) == EnsureMember(r.user, r.role) /\ UNCHANGED <<tree, acls>>

\* removeRole(), with the cascades.
AllMembers(role) == member    \* mutant: no ON DELETE CASCADE
MembersWithout(role) == {m \in member : m[2] # role}
DropRole(r) ==
  /\ roles' = roles \ {r.role} /\ member' = MembersWithout(r.role)
  /\ perms' = {p \in perms : p[2] # r.role}
  /\ UNCHANGED <<users, tree, acl, public, gov>>

\* What a call on a directory that is not there does, or one that removes an ACL
\* that is not there; and removeUserRole(), which is called without the role and
\* the connection it asks for.
Throws(r) ==
  /\ \/ r.op \in {"public", "permit"} /\ r.path \notin exists
     \/ r.op = "unset" /\ r.path \notin acl
     \/ r.op = "dropMember"
  /\ UNCHANGED tables

Effect(r) ==
  \/ r.op \in {"read", "list"} /\ UNCHANGED tables
  \/ r.op = "write" /\ Write(r)
  \/ r.op = "public" /\ SetPublic(r)
  \/ r.op = "permit" /\ Permit(r)
  \/ r.op = "revoke" /\ Revoke(r)
  \/ r.op = "unset" /\ Unset(r)
  \/ r.op = "addUser" /\ AddUser(r)
  \/ r.op = "addRole" /\ AddRole(r)
  \/ r.op = "addMember" /\ AddMember(r)
  \/ r.op = "dropRole" /\ DropRole(r)
  \/ Throws(r)

Submit(c) ==
  /\ pc[c] \in {"idle", "denied"} /\ calls < MaxCalls /\ calls' = calls + 1
  /\ \E r \in Requests[c] : req' = [req EXCEPT ![c] = r]
  /\ pc' = [pc EXCEPT ![c] = "admin"]
  /\ UNCHANGED <<tables, caching, importing>>

Act(c) ==
  /\ pc[c] = "act" /\ Effect(req[c])
  /\ pc' = [pc EXCEPT ![c] = "idle"] /\ req' = [req EXCEPT ![c] = NoReq]
  /\ UNCHANGED <<caching, calls, importing>>

-----------------------------------------------------------------------------
(* An import of ACLs: one statement after the other, each committed.       *)

\* The items of an export: roles, users, who has which, and the ACLs, but not
\* which directories they govern.
ExportAcl(t) ==
  SetToSeq({[kind |-> "role", role |-> r] : r \in t.roles})
  \o SetToSeq({[kind |-> "user", user |-> u] : u \in t.users})
  \o SetToSeq({[kind |-> "member", user |-> m[1], role |-> m[2]] : m \in t.member})
  \o SetToSeq({[kind |-> "acl", dir |-> d, public |-> d \in t.public,
                perms |-> {<<p[2], p[3]>> : p \in {q \in t.perms : q[1] = d}}] : d \in t.acl})

Item == Archive[importing.next]
Importing == importing.step \notin {"off", "over"} /\ importing.next <= Len(Archive)
NextItem == [importing EXCEPT !.next = @ + 1, !.step = "look"]
Stop == [importing EXCEPT !.step = "over"]

ImportBegin ==
  /\ importing.step = "off"
  /\ \E m \in {"fail", "skip", "merge"} : importing' = [importing EXCEPT !.mode = m, !.step = "look"]
  /\ UNCHANGED <<tables, caching, pc, req, calls>>

\* Roles, users, and who has which: an import that is to fail stops at the first
\* that is there.
IsThere(item) ==
  CASE item.kind = "role" -> item.role \in roles
    [] item.kind = "user" -> item.user \in users
    [] OTHER -> <<item.user, item.role>> \in member

ImportMember ==
  /\ Importing /\ Item.kind # "acl"
  /\ IF importing.mode = "fail" /\ IsThere(Item)
     THEN importing' = Stop /\ UNCHANGED accounts
     ELSE /\ importing' = NextItem
          /\ CASE Item.kind = "role" -> Ensure({}, {Item.role}, {})
               [] Item.kind = "user" -> Ensure({Item.user}, {}, {})
               [] OTHER -> EnsureMember(Item.user, Item.role)
  /\ UNCHANGED <<tree, acls, caching, pc, req, calls>>

\* mutant: an ACL that is there is added to in any mode
AlwaysMerges(d) == importing' = [importing EXCEPT !.step = "ensure", !.left = Item.perms]
WhenThere(d) ==
  importing' = CASE importing.mode = "fail" -> Stop
                 [] importing.mode = "skip" -> NextItem
                 [] OTHER -> [importing EXCEPT !.step = "ensure", !.left = Item.perms]

ImportLook ==
  /\ Importing /\ Item.kind = "acl" /\ importing.step = "look"
  /\ IF Item.dir \in acl THEN WhenThere(Item.dir)
     ELSE importing' = [importing EXCEPT !.step = "ensure", !.left = Item.perms]
  /\ UNCHANGED <<tables, caching, pc, req, calls>>

\* The ACL governs nothing: no directory_acl row is written.
ImportEnsure ==
  /\ Importing /\ importing.step = "ensure"
  /\ IF Item.dir \in exists
     THEN EnsureRoot(Item.dir, Item.public) /\ importing' = [importing EXCEPT !.step = "permit"]
     ELSE importing' = Stop /\ UNCHANGED <<acl, public>>
  /\ UNCHANGED <<accounts, tree, perms, gov, caching, pc, req, calls>>

ImportPermit ==
  /\ Importing /\ importing.step = "permit"
  /\ \/ \E p \in importing.left :
          /\ Grant(Item.dir, p[1], p[2])
          /\ importing' = [importing EXCEPT !.left = @ \ {p}]
     \/ importing.left = {} /\ importing' = NextItem /\ UNCHANGED <<roles, acl, public, perms>>
  /\ UNCHANGED <<users, member, tree, gov, caching, pc, req, calls>>

Import == ImportBegin \/ ImportMember \/ ImportLook \/ ImportEnsure \/ ImportPermit

-----------------------------------------------------------------------------
(* The rules, as docs/rbac.md has them.                                    *)

\* What governs a request: the ACL of the directory of the file that is read, if
\* there is such a file, of the directory it is about or, to write what is not
\* there, of the nearest directory above that is.
Ruling(r) ==
  LET path == IF r.op = "read" THEN Parent(r.path) ELSE r.path
      there == {d \in Prefixes(path) \cap exists :
                  r.op = "write" \/ (d = path /\ (r.op = "read" => r.path \in files))} IN
  {gov[d] : d \in {e \in there : \A x \in there : IsPrefix(x, e)}}

\* Why a request may be granted: roles of the requestor, a public directory.
Reasons(r) ==
  {s \in {SuperAdmin} : r.by = SuperAdmin}
  \cup {ro \in Roles :
          /\ <<r.by, ro>> \in member
          /\ ro = AdminRole \/ \E g \in Ruling(r), p \in Enough(Needed(r)) : <<g, ro, p>> \in perms}
  \cup {s \in {"public"} : Needed(r) = "read" /\ Ruling(r) \cap public # {}}

Why(c) == IF req[c] = NoReq THEN {} ELSE Reasons(req[c])

Track ==
  /\ ever' = [c \in Calls |-> IF pc'[c] = "admin" /\ pc[c] # "admin" THEN Why(c)' ELSE ever[c] \cup Why(c)']
  /\ held' = [c \in Calls |-> IF pc'[c] = "admin" /\ pc[c] # "admin" THEN Why(c)' ELSE held[c] \cap Why(c)']
  /\ kept' = IF importing.step = "off" THEN acl' ELSE kept \cap acl'

Next == ((\E c \in Calls : Submit(c) \/ CheckAdmin(c) \/ CheckPermission(c) \/ Act(c)) \/ Import) /\ Track

Spec == Init /\ [][Next]_vars

-----------------------------------------------------------------------------

\* The types, and the references of the tables: a permission is on an ACL that is
\* there, and of a role that is; a membership is of a user and a role.
TypeOK ==
  /\ users \subseteq Users /\ roles \subseteq Roles /\ member \subseteq users \X roles
  /\ acl \subseteq exists /\ exists \subseteq Dirs /\ files \subseteq Dirs
  /\ public \subseteq acl /\ perms \subseteq acl \X roles \X Needs
  /\ gov \in [Dirs -> acl \cup {NoDir}]
  /\ req \in [Calls -> Request \cup {NoReq}]
  /\ pc \in [Calls -> {"idle", "admin", "permission", "act", "denied"}]

\* checkPermissions() lets nobody do what the rules did not allow at some moment
\* of the call; what was revoked before the call began does not count, whatever
\* the cache remembers.
GrantedByRule ==
  \A c \in Calls : pc[c] = "act" /\ req[c].op \notin RoleOps => ever[c] # {}

\* Nobody is refused what the same rule allowed all the time of the call, and no
\* directory is hidden from someone who may read it; but that a user with an
\* account needs a role to read what is public to others, and that with the cache
\* on nothing is ever looked up.
GrantsHonoured ==
  /\ \A c \in Calls :
       pc[c] = "denied" /\ ~cacheOn =>
         held[c] = {} \/ (held[c] = {"public"} /\ req[c].by \in users)
  /\ \A u \in users \cup {Nobody}, e \in exists :
       Reasons([op |-> "list", by |-> u, path |-> e]) \ {AdminRole, SuperAdmin} # {} =>
         IsListed(u, e)

\* _importAcl(): unless it is to merge, an import leaves the ACLs alone that were
\* there when it began, though others set and remove ACLs while it runs.
ImportKeeps ==
  [][importing' # importing /\ importing.mode \in {"fail", "skip"} =>
       \A d \in kept : /\ d \in acl' /\ (d \in public' <=> d \in public)
                       /\ \A r \in Roles, n \in Needs :
                            <<d, r, n>> \in perms' <=> <<d, r, n>> \in perms]_vars
=============================================================================
