---------------------------- MODULE MCCaskStore ----------------------------
(***************************************************************************)
(* Instances of CaskStore for TLC: the calls the sessions of each run may  *)
(* make.                                                                   *)
(***************************************************************************)
EXTENDS CaskStore, TLC

CONSTANTS f1, f2, h1, h2

Sessions == Permutations(Procs) \cup Permutations(FileIds)

Req(op, f, from, h, src, replace, soft) ==
  [op |-> op, path |-> f, from |-> from, hash |-> h, src |-> src,
   replace |-> replace, soft |-> soft]

Write(f, h, src, replace) == Req("write", f, f, h, src, replace, TRUE)
Delete(f, soft) == Req("delete", f, f, NoHash, "data", FALSE, soft)
Copy(from, f, replace) == Req("copy", f, from, NoHash, "hash", replace, TRUE)
Move(from, f, replace, soft) == Req("move", f, from, NoHash, "hash", replace, soft)
Gc == Req("gc", f1, f1, NoHash, "data", FALSE, FALSE)

\* Writers of every kind and soft deletes: nothing removes a hash file.  f1 is
\* linked data, and is created and deleted but not replaced or copied onto.
SoftRequests ==
  {Write(f1, h, src, FALSE) : h \in {h1, h2}, src \in {"data", "path", "hash"}}
  \cup {Write(f2, h, src, TRUE) : h \in {h1, h2}, src \in {"data", "path"}}
  \cup {Write(f2, h1, "hash", FALSE), Copy(f1, f2, TRUE), Move(f1, f2, TRUE, TRUE),
        Delete(f1, TRUE), Delete(f2, TRUE)}

\* Hard deletes and garbage collection next to writers.
HardRequests ==
  {Write(f1, h1, "data", FALSE), Write(f2, h1, "path", FALSE), Write(f1, h2, "data", TRUE),
   Move(f1, f2, TRUE, FALSE), Delete(f1, FALSE), Delete(f2, FALSE), Gc}

\* Every call but replacement and soft delete, for one session.
HardOnlyRequests ==
  {Write(f, h, src, FALSE) : f \in {f1, f2}, h \in {h1, h2}, src \in {"data", "path", "hash"}}
  \cup {Copy(f1, f2, FALSE), Move(f1, f2, FALSE, FALSE), Delete(f1, FALSE), Delete(f2, FALSE), Gc}

\* Two paths with one content, created and hard-deleted.
SharedContent ==
  {Write(f1, h1, "data", FALSE), Write(f2, h1, "data", FALSE),
   Delete(f1, FALSE), Delete(f2, FALSE)}
=============================================================================
