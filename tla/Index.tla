------------------------------- MODULE Index -------------------------------
(***************************************************************************)
(* What files are found by: their linked data, and beside it, sharing no   *)
(* state with it, the partition keys they get from their paths.            *)
(***************************************************************************)
EXTENDS LinkedData, PartitionState

CONSTANTS KeyPaths, Keys, Regex, Manual, MaxRules, MaxCalls, Unread, Broken
VARIABLES owner, cache, known, todo, made, added, removed, left, calls

ASSUME KeysAssumption ==
  /\ MaxRules \in Nat /\ MaxCalls \in Nat /\ Manual \subseteq SUBSET Keys
  /\ \A d \in Defs, p \in KeyPaths : KeyOf[d][p] \in Keys \cup {NoKey}

K == INSTANCE PartitionKeys WITH Paths <- KeyPaths, held <- made

\* The types of both: no row of the index without its file or its URIs, and no key
\* of a file without the file or the row of the key, whatever is deleted meanwhile.
IndexTypeOK == TypeOK /\ K!TypeOK
=============================================================================
