--------------------------- MODULE MCConnections ---------------------------
(***************************************************************************)
(* Instances of Connections for TLC.                                       *)
(***************************************************************************)
EXTENDS Connections, TLC

CONSTANTS f1, f2

Alike == Permutations(Calls) \cup Permutations(Conns) \cup Permutations(Ids)

Req(op, f, replace) == [op |-> op, path |-> f, replace |-> replace]

AllRequests ==
  {Req("write", f1, FALSE),
   Req("copy", f2, TRUE), Req("delete", f1, FALSE), Req("delete", f2, FALSE),
   Req("rmdir", f1, FALSE)}
=============================================================================
