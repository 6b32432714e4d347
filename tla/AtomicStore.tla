---------------------------- MODULE AtomicStore ----------------------------
(***************************************************************************)
(* What the name space of CaskFS promises to concurrent sessions: a map    *)
(* from paths to content hashes on which every call acts at one instant.   *)
(* How the calls get there (transactions, locks, files on disk) is the     *)
(* business of CaskStore, which implements this specification.             *)
(***************************************************************************)
CONSTANTS Procs, Paths, Hashes, Requests, NoHash, NoReq

VARIABLES
  content,    \* the hash of each path, or NoHash
  pending     \* the call each session is waiting for, or NoReq

vars == <<content, pending>>

Init ==
  /\ content = [f \in Paths |-> NoHash]
  /\ pending = [p \in Procs |-> NoReq]

Submit(p) ==
  /\ pending[p] = NoReq
  /\ \E r \in Requests : pending' = [pending EXCEPT ![p] = r]
  /\ UNCHANGED content

\* A copy or a move takes the hash its source has now.
Resolve(p) ==
  /\ pending[p] # NoReq /\ pending[p].op \in {"copy", "move"} /\ pending[p].hash = NoHash
  /\ content[pending[p].from] # NoHash
  /\ pending' = [pending EXCEPT ![p].hash = content[pending[p].from]]
  /\ UNCHANGED content

\* What is left of a call once its file is written.
Rest(r) == IF r.op = "move" THEN [r EXCEPT !.op = "delete", !.path = r.from] ELSE NoReq

\* A write creates its file, or replaces one if it was asked to.
Write(p) ==
  /\ pending[p] # NoReq /\ pending[p].op \in {"write", "copy", "move"}
  /\ pending[p].hash \in Hashes
  /\ content[pending[p].path] # NoHash => pending[p].replace
  /\ content' = [content EXCEPT ![pending[p].path] = pending[p].hash]
  /\ pending' = [pending EXCEPT ![p] = Rest(pending[p])]

Remove(p) ==
  /\ pending[p] # NoReq /\ pending[p].op = "delete"
  /\ content' = [content EXCEPT ![pending[p].path] = NoHash]
  /\ pending' = [pending EXCEPT ![p] = NoReq]

\* A call may be refused, or fail, and a garbage collection has no effect
\* here.
Drop(p) ==
  /\ pending[p] # NoReq
  /\ pending' = [pending EXCEPT ![p] = NoReq]
  /\ UNCHANGED content

Next == \E p \in Procs : Submit(p) \/ Resolve(p) \/ Write(p) \/ Remove(p) \/ Drop(p)

Spec == Init /\ [][Next]_vars
=============================================================================
