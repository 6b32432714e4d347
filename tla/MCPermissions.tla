--------------------------- MODULE MCPermissions ---------------------------
(***************************************************************************)
(* An instance of Permissions for TLC: a tree of three directories; calls  *)
(* of users at the same time as calls of an administrator and an import.   *)
(***************************************************************************)
EXTENDS Permissions

CONSTANTS c1, c2, u1, u2, root, r1, adm

a == <<"a">>
ab == <<"a", "b">>
abc == <<"a", "b", "c">>
Tree == {Top, a, ab, abc}
R(op, by, path, user, role, need, flag) ==
  [op |-> op, by |-> by, path |-> path, user |-> user, role |-> role, need |-> need, flag |-> flag]
By(op, by, path) == R(op, by, path, u1, r1, "read", "true")
Starts ==
  {[member |-> {<<u1, r1>>}, dirs |-> {Top, a}, files |-> {ab}, perms |-> {<<Top, r1, "write">>}],
   [member |-> {<<u1, adm>>}, dirs |-> {Top, a, ab}, files |-> {ab}, perms |-> {<<a, r1, "read">>}]}
Asked ==
  [c \in {c1, c2} |->
    IF c = c1
    THEN {By("read", u1, ab), By("read", u1, abc), By("write", u1, ab), By("write", u1, abc), By("write", u2, ab),
          By("read", Nobody, ab), By("write", Nobody, ab),
          By("list", u1, a), By("permit", u1, ab)}
    ELSE {By("public", root, a), R("public", root, a, u1, r1, "read", "false"),
          R("permit", root, ab, u1, r1, "admin", "true"),
          By("revoke", root, a), By("unset", root, a),
          R("addMember", u2, a, u2, r1, "read", "true"), R("addUser", root, a, u2, r1, "read", "true"),
          By("addRole", root, a),
          By("dropRole", root, a), By("dropMember", root, a)}]
Exported ==
  ExportAcl([roles |-> {r1}, users |-> {u2}, member |-> {<<u2, r1>>}, acl |-> {ab}, public |-> {ab},
             perms |-> {<<ab, r1, "write">>}])
=============================================================================
