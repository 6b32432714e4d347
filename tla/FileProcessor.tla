--------------------------- MODULE FileProcessor ---------------------------
(***************************************************************************)
(* The pool of child processes that hash the files of a bulk copy: the     *)
(* class FileProcessor of the parent, the worker processes, and the        *)
(* messages between them.                                                  *)
(*                                                                         *)
(* The parent runs one handler at a time.  A worker takes every message it *)
(* gets, answers with a hash or an error, and may die; a reply it has sent *)
(* arrives even if the worker is dead by then.                             *)
(*                                                                         *)
(* Abstracted: hashes and git information.  Items are the ids that         *)
(* _idCounter gives to the files of a batch, so no two batches share one.  *)
(***************************************************************************)
EXTENDS Integers, Sequences, FiniteSets

CONSTANTS
  Workers,      \* child processes
  WorkerCount,  \* how many of them make a pool
  Items,
  Batches,      \* what processBatch() may be called with
  Faults        \* {"exit"} when workers may die

Elems(s) == {s[i] : i \in 1..Len(s)}
NoRepeat(s) == \A i, j \in 1..Len(s) : s[i] = s[j] => i = j

ASSUME ConstantsAssumption ==
  /\ WorkerCount \in Nat \ {0}
  /\ Batches \subseteq Seq(Items) /\ \A b \in Batches : NoRepeat(b)
  /\ \A b, c \in Batches : b # c => Elems(b) \cap Elems(c) = {}
  /\ Faults \subseteq {"exit"}

Reply == [item : Items, outcome : {"ok", "error"}]

VARIABLES
  up,          \* the parent runs: no exception has ended it
  started,     \* _started
  idle,        \* _idle, as how many times each process is in it
  queue,       \* _queue
  callbacks,   \* the keys of _callbacks
  submitting,  \* the files processBatch() has still to pass to _enqueue()
  promise,     \* what has become of the promise of each item
  proc,        \* each process: not "forked", in the "pool", "killed", "exited"
  inbox,       \* the messages a process has not answered
  replies      \* the answers that have not reached the parent

pool == <<started, idle, queue, callbacks>>
vars == <<up, pool, submitting, promise, proc, inbox, replies>>

Init ==
  /\ up = TRUE /\ started = FALSE
  /\ idle = [w \in Workers |-> 0] /\ queue = << >> /\ callbacks = {}
  /\ submitting = << >> /\ promise = [i \in Items |-> "none"]
  /\ proc = [w \in Workers |-> "none"]
  /\ inbox = [w \in Workers |-> {}] /\ replies = [w \in Workers |-> {}]

-----------------------------------------------------------------------------

\* The promise of a batch, Promise.all() of those of its files.
Settled(b) ==
  \/ \A i \in Elems(b) : promise[i] = "ok"
  \/ \E i \in Elems(b) : promise[i] = "error"

\* The parent is between two handlers.
Ready == up /\ submitting = << >>

\* worker.send(): a message to a process that has died is lost, or raises an
\* error event that nobody listens to.
Dispatch(w, i) ==
  IF proc[w] = "exited"
    THEN up' \in BOOLEAN /\ UNCHANGED inbox
    ELSE inbox' = [inbox EXCEPT ![w] = @ \cup {i}] /\ UNCHANGED up

\* _ensureStarted() forks a pool of new processes.
EnsureStarted ==
  IF started THEN UNCHANGED <<started, proc, idle>>
  ELSE \E S \in SUBSET {w \in Workers : proc[w] = "none" /\ replies[w] = {}} :
         /\ Cardinality(S) = WorkerCount
         /\ started' = TRUE
         /\ proc' = [w \in Workers |-> IF w \in S THEN "pool" ELSE proc[w]]
         /\ idle' = [w \in Workers |-> IF w \in S THEN 1 ELSE idle[w]]

ProcessBatch(b) ==
  /\ Ready /\ \A i \in Elems(b) : promise[i] = "none"
  /\ EnsureStarted
  /\ submitting' = b
  /\ UNCHANGED <<up, queue, callbacks, promise, inbox, replies>>

\* _idle.pop()
Popped(w) == [idle EXCEPT ![w] = @ - 1]

\* _enqueue() of the next file.  The loop over the files is one handler.
Enqueue ==
  /\ up /\ submitting # << >>
  /\ LET i == Head(submitting) IN
     /\ promise' = [promise EXCEPT ![i] = "waiting"]
     /\ \/ \E w \in Workers :
             /\ idle[w] > 0 /\ idle' = Popped(w)
             /\ callbacks' = callbacks \cup {i} /\ Dispatch(w, i)
             /\ UNCHANGED queue
        \/ /\ \A w \in Workers : idle[w] = 0
           /\ queue' = Append(queue, i)
           /\ UNCHANGED <<up, idle, callbacks, inbox>>
  /\ submitting' = Tail(submitting)
  /\ UNCHANGED <<started, proc, replies>>

-----------------------------------------------------------------------------

\* _onResult() ignores a reply to an item without a callback.
AnyReply(m) == TRUE    \* mutant: no such check
Known(m) == m.item \in callbacks

\* Whether the worker gets the next item of the queue or becomes idle.
TakesNextIfOk(m) == queue # << >> /\ m.outcome = "ok"    \* mutant: return after reject()
TakesNext(m) == queue # << >>

\* _queue.shift()
Cleared == << >>    \* mutant: the rest of the queue is dropped
Shifted == Tail(queue)

OnResult(w) ==
  /\ Ready
  /\ \E m \in replies[w] :
       /\ replies' = [replies EXCEPT ![w] = @ \ {m}]
       /\ \/ ~Known(m) /\ UNCHANGED <<up, pool, promise, inbox>>
          \/ /\ Known(m) /\ TakesNext(m)
             /\ promise' = [promise EXCEPT ![m.item] = m.outcome]
             /\ callbacks' = (callbacks \ {m.item}) \cup {Head(queue)}
             /\ queue' = Shifted /\ Dispatch(w, Head(queue))
             /\ UNCHANGED <<started, idle>>
          \/ /\ Known(m) /\ ~TakesNext(m)
             /\ promise' = [promise EXCEPT ![m.item] = m.outcome]
             /\ callbacks' = callbacks \ {m.item}
             /\ idle' = [idle EXCEPT ![w] = @ + 1]
             /\ UNCHANGED <<up, started, queue, inbox>>
  /\ UNCHANGED <<submitting, proc>>

\* close(), which callers may call when every batch has settled.  Items of a
\* rejected batch may still be queued, or with a worker.
Close ==
  /\ Ready /\ started
  /\ \A b \in Batches : Settled(b) \/ \A i \in Elems(b) : promise[i] = "none"
  /\ started' = FALSE /\ callbacks' = {} /\ queue' = << >>
  /\ idle' = [w \in Workers |-> 0]
  /\ proc' = [w \in Workers |-> CASE proc[w] = "pool" -> "killed"
                                  [] proc[w] = "exited" -> "none"
                                  [] OTHER -> proc[w]]
  /\ UNCHANGED <<up, submitting, promise, inbox, replies>>

-----------------------------------------------------------------------------
(* The child processes                                                     *)

ReplyIfHashed(i, o) ==    \* mutant: no try around hashFile()
  IF o = "ok" THEN {[item |-> i, outcome |-> o]} ELSE {}
ReplyTo(i, o) == {[item |-> i, outcome |-> o]}

Work(w) ==
  /\ \E i \in inbox[w], o \in {"ok", "error"} :
       /\ inbox' = [inbox EXCEPT ![w] = @ \ {i}]
       /\ replies' = [replies EXCEPT ![w] = @ \cup ReplyTo(i, o)]
  /\ UNCHANGED <<up, pool, submitting, promise, proc>>

\* A process ends: by itself, which the parent does not notice, or because it
\* was killed.
Exit(w) ==
  /\ \/ "exit" \in Faults /\ proc[w] = "pool" /\ proc' = [proc EXCEPT ![w] = "exited"]
     \/ proc[w] = "killed" /\ proc' = [proc EXCEPT ![w] = "none"]
  /\ inbox' = [inbox EXCEPT ![w] = {}]
  /\ UNCHANGED <<up, pool, submitting, promise, replies>>

Next ==
  \/ \E b \in Batches : ProcessBatch(b)
  \/ Enqueue \/ Close
  \/ \E w \in Workers : OnResult(w) \/ Work(w) \/ Exit(w)

Spec == Init /\ [][Next]_vars

\* The loop of processBatch() runs to its end, messages arrive, and a worker
\* that lives gets its file hashed.
FairSpec ==
  /\ Spec /\ WF_vars(Enqueue)
  /\ \A w \in Workers : WF_vars(OnResult(w)) /\ WF_vars(Work(w))

-----------------------------------------------------------------------------
(* Properties                                                              *)

\* The values the variables take; a process is at most once in _idle.
TypeOK ==
  /\ up \in BOOLEAN /\ started \in BOOLEAN
  /\ idle \in [Workers -> {0, 1}]
  /\ queue \in Seq(Items) /\ submitting \in Seq(Items)
  /\ callbacks \subseteq Items
  /\ promise \in [Items -> {"none", "waiting", "ok", "error"}]
  /\ proc \in [Workers -> {"none", "pool", "killed", "exited"}]
  /\ inbox \in [Workers -> SUBSET Items] /\ replies \in [Workers -> SUBSET Reply]

\* What a process has been sent and the parent has no answer to.
With(w) == inbox[w] \cup {m.item : m \in replies[w]}

\* The types; and "Each worker handles one file at a time": a worker of the pool
\* is idle and has nothing, or has one item; and a late reply never makes a
\* worker of an earlier pool idle in this one.
OneAtATime ==
  /\ TypeOK
  /\ \A w \in Workers :
       /\ proc[w] = "pool" =>
            IF idle[w] = 1 THEN With(w) = {} ELSE \E i \in Items : With(w) = {i}
       /\ idle[w] = 1 => proc[w] \in {"pool", "exited"}

\* "No worker is ever starved while another idles": no item is queued while a
\* worker has nothing to do.
NoIdleWhileQueued == queue # << >> => \A w \in Workers : idle[w] = 0

\* No item is lost or done twice: as long as its batch has not settled and no
\* worker has died, an item whose promise is waiting is queued once or is with
\* one worker of the pool.
NothingLost ==
  (\A w \in Workers : proc[w] # "exited") =>
  \A b \in Batches : ~Settled(b) =>
  \A i \in Elems(b) : promise[i] = "waiting" =>
    \/ /\ \E j \in 1..Len(queue) : queue[j] = i /\ \A k \in 1..Len(queue) : queue[k] = i => k = j
       /\ \A w \in Workers : proc[w] = "pool" => i \notin With(w)
    \/ /\ i \notin Elems(queue)
       /\ \E w \in Workers : /\ proc[w] = "pool" /\ i \in With(w)
                             /\ \A v \in Workers : proc[v] = "pool" /\ i \in With(v) => v = w

\* processBatch() settles, unless a worker dies.
BatchesSettle ==
  \A b \in Batches :
    (\E i \in Elems(b) : promise[i] = "waiting")
      ~> Settled(b) \/ \E w \in Workers : proc[w] = "exited"
=============================================================================
