------------------------- MODULE MCAclInheritance -------------------------
(***************************************************************************)
(* Instances of AclInheritance for TLC: a tree of five directories, three  *)
(* of which are there at the start.                                        *)
(***************************************************************************)
EXTENDS AclInheritance, TLC

CONSTANTS p1, p2

a == <<"a">>
ab == <<"a", "b">>
abc == <<"a", "b", "c">>
d == <<"d">>

Tree == {Top, a, ab, abc, d}
ThreeExist == {Top, a, ab}

Set(x) == [op |-> "set", dir |-> x]
Remove(x) == [op |-> "remove", dir |-> x]
Mkdir(x) == [op |-> "mkdir", dir |-> x]

\* One session changes the ACLs, another creates directories.
OneChanges ==
  p1 :> {Set(x) : x \in Tree} \cup {Remove(x) : x \in Tree}
  @@ p2 :> {Mkdir(abc), Mkdir(d), Mkdir(Top)}

\* One session sets an ACL and then creates a directory below.
OneDoesBoth == p1 :> {Set(a), Mkdir(abc)}
=============================================================================
