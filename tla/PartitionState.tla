--------------------------- MODULE PartitionState ---------------------------
(***************************************************************************)
(* What a rule is for: the part of the state of PartitionKeys that says    *)
(* whether the files have the keys the rule makes of their paths.          *)
(***************************************************************************)
CONSTANTS
  Defs,            \* definitions of the rule
  KeyOf,           \* [Defs -> [paths -> a key or NoKey]]
  Servers, Tools,  \* processes
  NoRule, NoKey

\* A tool is a command of its own, and serves no requests.
ASSUME ProcessesAssumption == Servers \cap Tools = {} /\ NoRule \notin Defs

VARIABLES
  rule, version,   \* auto_path_partition, and how often it has changed
  there, keys,     \* the files, and file_partition_key
  pc, call,        \* of a process: its step, and what it does
  snap, lost,      \* of a tool: the files of the cursor, and those deleted since
  last             \* who gave a file its keys last since the rule changed

\* getRuleFromPath()
Made(def, p) == IF def = NoRule THEN NoKey ELSE KeyOf[def][p]

\* A rule reaches the files: one that was given its keys last by a process that
\* knew the rule as it is, and one that set() has gone over without an error
\* since, has the key the rule makes of its path (partition.js:24, index.js:577).
RuleReaches ==
  \A p \in there :
    LET k == Made(rule, p)
        sweptBy(t) == /\ pc[t] = "swept" /\ call[t].version = version
                      /\ p \in snap[t] \ lost[t] IN
    k # NoKey /\ (last[p] = "current" \/ (last[p] = "nobody" /\ \E t \in Tools : sweptBy(t)))
      => k \in keys[p]
=============================================================================
