---------------------------- MODULE PartitionKeys ----------------------------
(***************************************************************************)
(* Auto-path rules, and the partition keys files get from their paths.     *)
(*                                                                         *)
(* A server reads the rules once and keeps them.  A write gives its file   *)
(* the key the rule it knows makes of the path, in its transaction.  A     *)
(* tool that sets a rule does so in a statement of its own, reads the      *)
(* rules again, and then goes over all files, each a statement; it may be  *)
(* stopped.  A key is a row that all its files share.                      *)
(*                                                                         *)
(* Abstracted: one rule, by one name, whose definitions differ; buckets,   *)
(* which are read the same way and change no file.                         *)
(***************************************************************************)
EXTENDS PartitionState, Naturals, Sequences, FiniteSets

CONSTANTS
  Paths, Keys,
  Regex,           \* definitions of the rule with a regular expression
  Manual,          \* sets of keys the client may give with a write
  MaxRules,        \* bound on the changes of the rule
  MaxCalls,        \* bound on all calls
  Unread, Broken

Procs == Servers \cup Tools

VARIABLES
  owner,           \* partition_key: the rows, of the "rule" or of "none", or "absent"
  cache, known,    \* of a process: the rule as it knows it, and the version of that
  todo,            \* of a write: the keys to add, and whether the rule made them
  held,            \* of a write: the rows of keys it has made
  added, removed,  \* of a write: its changes of the keys of the file
  left,            \* of a tool: the files of the cursor it has not done
  calls            \* how many calls there have been

tables == <<rule, version, owner, there, keys>>
caches == <<cache, known>>
tx == <<todo, held, added, removed>>
sweep == <<snap, left, lost>>
vars == <<tables, caches, pc, call, tx, sweep, last, calls>>

Init ==
  /\ rule \in Defs \cup {NoRule} /\ version = 0 /\ owner = [k \in Keys |-> "absent"]
  /\ there \in {{}, IF rule = NoRule THEN Paths ELSE {}} /\ keys = [p \in Paths |-> {}]
  /\ cache = [a \in Procs |-> Unread] /\ known = [a \in Procs |-> 0]
  /\ pc = [a \in Procs |-> "idle"] /\ call = [a \in Procs |-> NoRule]
  /\ todo = [s \in Servers |-> <<>>] /\ held = [s \in Servers |-> {}]
  /\ added = [s \in Servers |-> {}] /\ removed = [s \in Servers |-> {}]
  /\ snap = [t \in Tools |-> {}] /\ left = [t \in Tools |-> {}] /\ lost = [t \in Tools |-> {}]
  /\ last = [p \in Paths |-> "nobody"] /\ calls = 0

Goto(a, step) == pc' = [pc EXCEPT ![a] = step]
Begin(a, c, step) ==
  /\ pc[a] \in {"idle", "swept"} /\ calls < MaxCalls /\ calls' = calls + 1
  /\ call' = [call EXCEPT ![a] = c] /\ Goto(a, step)

-----------------------------------------------------------------------------
(* The rules as a process knows them.                                      *)

ReadRule(a) ==
  /\ cache' = [cache EXCEPT ![a] = rule] /\ known' = [known EXCEPT ![a] = version]

\* getConfig(): not read again if it is there, unless forced.
IfUnread(a) == IF cache[a] = Unread THEN ReadRule(a) ELSE UNCHANGED caches    \* mutant: force is ignored
Reread(a) == ReadRule(a)

\* GET /auto-path/partition reads the rules again, and turns the regular
\* expressions of the very rows that are kept into strings.
Show(s) ==
  /\ calls < MaxCalls /\ calls' = calls + 1
  /\ cache' = [cache EXCEPT ![s] = IF rule \in Regex THEN Broken ELSE rule]
  /\ known' = [known EXCEPT ![s] = version]
  /\ UNCHANGED <<tables, pc, call, tx, sweep, last>>

-----------------------------------------------------------------------------
(* add_partition_key()                                                     *)

Holds(s, k) == \E o \in {"rule", "none"} : <<k, o>> \in held[s]
Holders(a, k) == {s \in Servers \ {a} : Holds(s, k)}
OwnerSeen(a, k) ==
  IF a \in Servers /\ <<k, "rule">> \in held[a] THEN "rule"
  ELSE IF a \in Servers /\ <<k, "none">> \in held[a] THEN "none" ELSE owner[k]

\* A key of the rule needs the rule, unless it is one already.
Raises(a, k, ofRule) == ofRule /\ OwnerSeen(a, k) # "rule" /\ rule = NoRule

\* The row is new here and uncommitted elsewhere.
MustWait(a, k) == OwnerSeen(a, k) = "absent" /\ Holders(a, k) # {}

NewOwner(ofRule) == IF ofRule THEN "rule" ELSE "none"
OldKeys(a, k, ofRule, ks) ==
  IF ofRule \/ OwnerSeen(a, k) = "rule" THEN {x \in ks \ {k} : OwnerSeen(a, x) = "rule"} ELSE {}

-----------------------------------------------------------------------------
(* write(), and patchMetadata(); "same" if the metadata do not change.     *)

Locked(p) == \E s \in Servers : pc[s] # "idle" /\ call[s].path = p

BeginWrite(s) ==
  /\ \E p \in Paths, m \in Manual, b \in BOOLEAN :
       /\ ~Locked(p) /\ b => p \in there
       /\ Begin(s, [path |-> p, manual |-> m, same |-> b, version |-> 0], "rules")
  /\ UNCHANGED <<tables, caches, tx, sweep, last>>

Clear(s) ==
  /\ todo' = [todo EXCEPT ![s] = <<>>] /\ held' = [held EXCEPT ![s] = {}]
  /\ added' = [added EXCEPT ![s] = {}] /\ removed' = [removed EXCEPT ![s] = {}]

EndWrite(s) == Goto(s, "idle") /\ call' = [call EXCEPT ![s] = NoRule] /\ Clear(s)

\* getAutoPathValues(): throws at a regular expression that is a string.
Rules(s) ==
  /\ pc[s] = "rules" /\ IfUnread(s)
  /\ IF cache[s] = Broken THEN EndWrite(s)
     ELSE LET k == Made(cache'[s], call[s].path)
              manual == call[s].manual
              auto == {k} \ {NoKey}
              plan == IF manual = {} THEN <<>> ELSE <<[key |-> CHOOSE m \in manual : TRUE, ofRule |-> FALSE]>>
              all == IF auto = {} THEN plan ELSE Append(plan, [key |-> k, ofRule |-> TRUE])
          IN /\ todo' = [todo EXCEPT ![s] = all]
             \* patchMetadata(): nothing to do if the keys, and the metadata, are the same
             /\ Goto(s, IF /\ call[s].same /\ call[s].path \in there
                          /\ keys[call[s].path] = manual \cup auto
                       THEN "unchanged" ELSE "clear")
             /\ call' = [call EXCEPT ![s].version = known'[s]]
             /\ UNCHANGED <<held, added, removed>>
  /\ UNCHANGED <<tables, sweep, last, calls>>

Unchanged(s) ==
  /\ pc[s] = "unchanged" /\ EndWrite(s) /\ UNCHANGED <<tables, caches, sweep, last, calls>>

\* _setPartitionKeys()
ClearKeys(s) ==
  /\ pc[s] = "clear" /\ Goto(s, "keys")
  /\ removed' = [removed EXCEPT ![s] = keys[call[s].path]]
  /\ UNCHANGED <<tables, caches, call, todo, held, added, sweep, last, calls>>

AddKey(s) ==
  LET k == Head(todo[s]).key
      ofRule == Head(todo[s]).ofRule
      mine == (keys[call[s].path] \ removed[s]) \cup added[s] IN
  /\ pc[s] = "keys" /\ todo[s] # <<>>
  /\ CASE Raises(s, k, ofRule) -> EndWrite(s)
       [] ~Raises(s, k, ofRule) /\ MustWait(s, k) ->
            Goto(s, "wait") /\ UNCHANGED <<call, tx>>
       [] OTHER ->
            /\ held' = [held EXCEPT ![s] = IF OwnerSeen(s, k) = "absent" THEN @ \cup {<<k, NewOwner(ofRule)>>} ELSE @]
            /\ removed' = [removed EXCEPT ![s] = @ \cup OldKeys(s, k, ofRule, mine)]
            /\ added' = [added EXCEPT ![s] = (@ \ OldKeys(s, k, ofRule, mine)) \cup {k}]
            /\ todo' = [todo EXCEPT ![s] = Tail(@)]
            /\ UNCHANGED <<pc, call>>
  /\ UNCHANGED <<tables, caches, sweep, last, calls>>

\* The unique value of the other transaction's row, if that commits; or the
\* lock_timeout.
Wait(s) ==
  /\ pc[s] = "wait"
  /\ LET k == Head(todo[s]).key IN
     \/ owner[k] # "absent" /\ EndWrite(s)
     \/ Holders(s, k) # {} /\ EndWrite(s)
     \/ owner[k] = "absent" /\ Holders(s, k) = {} /\ Goto(s, "keys") /\ UNCHANGED <<call, tx>>
  /\ UNCHANGED <<tables, caches, sweep, last, calls>>

Commit(s) ==
  LET p == call[s].path IN
  /\ pc[s] = "keys" /\ todo[s] = <<>>
  /\ there' = there \cup {p}
  /\ keys' = [keys EXCEPT ![p] = (@ \ removed[s]) \cup added[s]]
  /\ owner' = [k \in Keys |-> IF Holds(s, k) THEN OwnerSeen(s, k) ELSE owner[k]]
  /\ last' = [last EXCEPT ![p] = IF call[s].version = version THEN "current" ELSE "outdated"]
  /\ EndWrite(s) /\ UNCHANGED <<rule, version, caches, sweep, calls>>

DeleteFile(p) ==
  /\ p \in there /\ ~Locked(p) /\ calls < MaxCalls /\ calls' = calls + 1
  /\ there' = there \ {p} /\ keys' = [keys EXCEPT ![p] = {}]
  /\ lost' = [t \in Tools |-> lost[t] \cup ({p} \cap left[t])]
  /\ last' = [last EXCEPT ![p] = "nobody"]
  /\ UNCHANGED <<rule, version, owner, caches, pc, call, tx, snap, left>>

-----------------------------------------------------------------------------
(* The tools: auto-path set, load and remove, and the rules of an import.  *)

\* A new process, or one that has set another rule before.
BeginSet(t) ==
  /\ \E d \in Defs, m \in {"set", "load", "skip"} :
       Begin(t, [def |-> d, mode |-> m, version |-> 0, key |-> NoKey], "look")
  /\ \/ cache' = [cache EXCEPT ![t] = Unread]
     \/ cache[t] # Unread /\ UNCHANGED cache
  /\ UNCHANGED <<tables, known, tx, sweep, last>>

\* A rule that is there is skipped (or the import fails), and one that is the
\* same is left alone; a progress callback makes any two differ.
Look(t) ==
  /\ pc[t] = "look"
  /\ Goto(t, IF \/ call[t].mode = "skip" /\ rule # NoRule
                \/ call[t].mode # "set" /\ rule = call[t].def
             THEN "idle" ELSE "upsert")
  /\ UNCHANGED <<tables, caches, call, tx, sweep, last, calls>>

RuleChanges(d) ==
  /\ version < MaxRules /\ rule' = d /\ version' = version + 1
  /\ last' = [p \in Paths |-> "nobody"]

Upsert(t) ==
  /\ pc[t] = "upsert" /\ RuleChanges(call[t].def) /\ Goto(t, "refresh")
  /\ call' = [call EXCEPT ![t].version = version', ![t].mode = "set"]
  /\ UNCHANGED <<owner, there, keys, caches, tx, sweep, calls>>

Refresh(t) ==
  /\ pc[t] = "refresh" /\ Reread(t) /\ Goto(t, "open")
  /\ UNCHANGED <<tables, call, tx, sweep, last, calls>>

\* The cursor is of a connection of its own, and of one snapshot.
OpenCursor(t) ==
  /\ pc[t] = "open" /\ Goto(t, "sweep")
  /\ snap' = [snap EXCEPT ![t] = there] /\ left' = [left EXCEPT ![t] = there]
  /\ lost' = [lost EXCEPT ![t] = {}]
  /\ UNCHANGED <<tables, caches, call, tx, last, calls>>

\* A write has changed the row of the file and the key, and has not committed.
Pending(p, k) ==
  \E s \in Servers : pc[s] # "idle" /\ call[s].path = p /\ k \in added[s] \cup removed[s]

\* set() throws at a rule that is gone, at a file that is, and in add_partition_key().
SweepFails(t, p, k) ==
  cache[t] = NoRule \/ (k # NoKey /\ (Raises(t, k, TRUE) \/ p \in lost[t]))

SweepFile(t) ==
  /\ pc[t] = "sweep"
  /\ \E p \in left[t] :
       LET k == Made(cache[t], p) IN
       /\ ~SweepFails(t, p, k)
       /\ k # NoKey => ~MustWait(t, k) /\ ~Pending(p, k)
       /\ left' = [left EXCEPT ![t] = @ \ {p}]
       /\ IF k = NoKey THEN UNCHANGED <<owner, keys, last>>
          ELSE /\ owner' = [owner EXCEPT ![k] = IF @ = "absent" THEN "rule" ELSE @]
               /\ keys' = [keys EXCEPT ![p] = (@ \ OldKeys(t, k, TRUE, @)) \cup {k}]
               /\ last' = [last EXCEPT ![p] = IF call[t].version = version THEN "current" ELSE "outdated"]
  /\ UNCHANGED <<rule, version, there, caches, pc, call, tx, snap, lost, calls>>

\* The insertion waits for that of a write, and fails if that commits.
SweepBlocked(t) ==
  /\ pc[t] = "sweep"
  /\ \E p \in left[t] :
       LET k == Made(cache[t], p) IN
       /\ k # NoKey /\ ~SweepFails(t, p, k) /\ MustWait(t, k)
       /\ call' = [call EXCEPT ![t].key = k]
  /\ Goto(t, "wait") /\ UNCHANGED <<tables, caches, tx, sweep, last, calls>>

SweepWait(t) ==
  /\ pc[t] = "wait" /\ Holders(t, call[t].key) = {}
  /\ Goto(t, IF owner[call[t].key] # "absent" THEN "idle" ELSE "sweep")
  /\ UNCHANGED <<tables, caches, call, tx, sweep, last, calls>>

Swept(t) ==
  /\ pc[t] = "sweep" /\ left[t] = {} /\ Goto(t, "swept")
  /\ UNCHANGED <<tables, caches, call, tx, sweep, last, calls>>

\* An error of a statement ends the tool, as does its user.
Crash(t) ==
  /\ pc[t] \in {"refresh", "open", "sweep", "wait"} /\ Goto(t, "idle")
  /\ UNCHANGED <<tables, caches, call, tx, sweep, last, calls>>

\* The keys of the rule, and their entries at the files, are deleted with it.
OfRule == {k \in Keys : owner[k] = "rule"}
Uses(s) == added[s] \cap OfRule # {} \/ \E k \in Keys : <<k, "rule">> \in held[s]
Remove(t) ==
  /\ pc[t] \in {"idle", "swept"} /\ calls < MaxCalls /\ calls' = calls + 1
  /\ rule # NoRule /\ \A s \in Servers : ~Uses(s)
  /\ RuleChanges(NoRule)
  /\ owner' = [k \in Keys |-> IF k \in OfRule THEN "absent" ELSE owner[k]]
  /\ keys' = [p \in Paths |-> keys[p] \ OfRule]
  /\ UNCHANGED <<there, caches, pc, call, tx, sweep>>

Next ==
  \/ \E s \in Servers : Show(s) \/ BeginWrite(s) \/ Rules(s) \/ Unchanged(s) \/ ClearKeys(s)
                        \/ AddKey(s) \/ Wait(s) \/ Commit(s)
  \/ \E p \in Paths : DeleteFile(p)
  \/ \E t \in Tools : BeginSet(t) \/ Look(t) \/ Upsert(t) \/ Refresh(t) \/ OpenCursor(t)
                      \/ SweepFile(t) \/ SweepBlocked(t) \/ SweepWait(t) \/ Swept(t)
                      \/ Crash(t) \/ Remove(t)
Spec == Init /\ [][Next]_vars

-----------------------------------------------------------------------------
Rules0 == Defs \cup {NoRule}
TypeOK ==
  /\ rule \in Rules0 /\ version \in 0..MaxRules /\ owner \in [Keys -> {"rule", "none", "absent"}]
  /\ there \subseteq Paths /\ keys \in [Paths -> SUBSET Keys]
  /\ \A p \in Paths, k \in Keys : k \in keys[p] => p \in there /\ owner[k] # "absent"
  /\ cache \in [Procs -> Rules0 \cup {Unread, Broken}] /\ known \in [Procs -> 0..MaxRules]
  /\ \A t \in Tools : left[t] \subseteq snap[t] /\ lost[t] \subseteq snap[t]
  /\ last \in [Paths -> {"nobody", "current", "outdated"}] /\ calls \in 0..MaxCalls
=============================================================================
