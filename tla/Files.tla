------------------------------- MODULE Files -------------------------------
(***************************************************************************)
(* The walks over the directories (DirectoryTree) and the requests over    *)
(* HTTP (HttpFiles), side by side.                                         *)
(***************************************************************************)
EXTENDS DirectoryTree

CONSTANTS Paths, Contents, Above, Size, Starts, Methods, Clients, PoolMax, MaxCalls, Absent

VARIABLES now, parents, stored, lock, handler, req, found, reply, ever, did, calls

httpVars == <<now, parents, stored, lock, handler, req, found, reply, ever, did, calls>>

H == INSTANCE HttpFiles WITH
       None <- Absent, files <- now, dirs <- parents, pc <- handler, seen <- found

\* The calls of methods, by name and arguments: a range starts and ends anywhere,
\* or not at all.
ASSUME HttpAssumption ==
  /\ Absent \notin Contents \cup Clients \cup Nat \cup {H!Request(m) : m \in Methods}
  /\ {PoolMax, MaxCalls} \subseteq Nat
  /\ Starts \subseteq [Paths -> Contents \cup {Absent}] /\ Size \in [Contents -> Nat]
  /\ \A p \in Paths : Above[p] \subseteq Paths
  /\ \A m \in Methods :
       /\ m[2] \in Paths
       /\ \/ m[1] \in {"metadata", "ls", "malformed"}
          \/ m[1] = "read" /\ {m[3], m[4]} \subseteq Nat \cup {Absent}
          \/ m[1] \in {"ifNoneMatch", "writeHash"} /\ m[3] \in Contents
          \/ m[1] = "write" /\ m[3] \in Contents /\ m[4] \in BOOLEAN
          \/ m[1] = "delete" /\ m[3] \in BOOLEAN
          \/ m[1] = "copy" /\ m[3] \in Paths /\ m[4] \in BOOLEAN /\ m[5] \in BOOLEAN

-----------------------------------------------------------------------------
\* The types of both, and that every file and directory lies in a directory that
\* exists, whatever is deleted and written at the same time (directory.js:124).
FilesTypeOK == TypeOK /\ H!TypeOK

\* Every answer of the server is true of the files (fs.js:61, fs.js:172, dir.js:11).
AnswersTruthful == H!AnswersTruthful

\* Every request is answered, unless its own upload was cut off, or it waits for
\* one that was (cas.js:239).
RequestsAnswered == H!RequestsAnswered
=============================================================================
