--------------------------- MODULE TransferProofs ---------------------------
(***************************************************************************)
(* What holds of FileProcessor for any pool and any batches, and of        *)
(* Transfer for any files, whatever fails and whoever else writes.         *)
(*                                                                         *)
(* The pool: the inductive invariant behind OneAtATime, NoIdleWhileQueued  *)
(* and NothingLost.                                                        *)
(***************************************************************************)
EXTENDS FileProcessor, TransferState, FiniteSetTheorems, SequenceTheorems,
        WellFoundedInduction, TLAPS

CONSTANT MaxMishaps
VARIABLE mishaps

T == INSTANCE Transfer

-----------------------------------------------------------------------------
\* The processes of the pool that has not been closed, dead ones included.
Live(w) == proc[w] \in {"pool", "exited"}

\* One message: the item, or the answer to it.
Holds(w, i) ==
  \/ inbox[w] = {i} /\ replies[w] = {}
  \/ inbox[w] = {} /\ \E o \in {"ok", "error"} : replies[w] = {[item |-> i, outcome |-> o]}

\* What a process has been given, and whether the parent knows it has.
WorkerOK(w) ==
  /\ With(w) = {} \/ \E i \in Items : Holds(w, i)
  /\ idle[w] = 1 => Live(w) /\ With(w) = {}
  /\ proc[w] = "pool" /\ idle[w] = 0 => With(w) # {}
  /\ proc[w] \in {"none", "exited"} => inbox[w] = {}
  /\ Live(w) => With(w) \subseteq callbacks
  /\ ~Live(w) => With(w) \cap callbacks = {}
  /\ \A i \in With(w) : promise[i] # "none" /\ i \notin Elems(queue)

\* No item is with two processes.
Apart == \A v, w \in Workers : v # w => With(v) \cap With(w) = {}

\* Each item is submitted, queued and handed out once.
Once ==
  /\ NoRepeat(queue) /\ NoRepeat(submitting)
  /\ \A i \in Elems(submitting) : promise[i] = "none"
  /\ \A i \in Elems(queue) : promise[i] = "waiting" /\ i \notin callbacks
  /\ \A i \in callbacks : promise[i] = "waiting"

\* Without a pool there is nothing to do.
Stopped == ~started => queue = << >> /\ submitting = << >> /\ \A w \in Workers : ~Live(w)

\* An item is queued, or with a worker of the pool.
Kept ==
  (\A w \in Workers : proc[w] # "exited") =>
  \A b \in Batches : ~Settled(b) =>
  \A i \in Elems(b) : promise[i] = "waiting" =>
    i \in Elems(queue) \/ \E w \in Workers : proc[w] = "pool" /\ i \in With(w)

IInv ==
  /\ TypeOK /\ (\A w \in Workers : WorkerOK(w)) /\ Apart /\ Once /\ Stopped
  /\ NoIdleWhileQueued /\ Kept

-----------------------------------------------------------------------------
(* Sequences without repetition.                                           *)

LEMMA AppendNew ==
  ASSUME NEW q \in Seq(Items), NEW i \in Items, NoRepeat(q), i \notin Elems(q)
  PROVE  /\ Append(q, i) \in Seq(Items) /\ NoRepeat(Append(q, i))
         /\ Elems(Append(q, i)) = Elems(q) \cup {i}
<1>1. /\ Len(Append(q, i)) = Len(q) + 1 /\ Len(q) \in Nat
      /\ Append(q, i)[Len(q) + 1] = i
      /\ \A k \in 1..Len(q) : Append(q, i)[k] = q[k]
  OBVIOUS
<1> QED
  BY <1>1 DEF NoRepeat, Elems

LEMMA TailOnce ==
  ASSUME NEW q \in Seq(Items), q # << >>, NoRepeat(q)
  PROVE  /\ Head(q) \in Items /\ Head(q) \in Elems(q)
         /\ Tail(q) \in Seq(Items) /\ NoRepeat(Tail(q))
         /\ Elems(Tail(q)) = Elems(q) \ {Head(q)}
<1>1. /\ Len(q) \in Nat /\ Len(q) > 0 /\ Head(q) = q[1] /\ Tail(q) \in Seq(Items)
      /\ Len(Tail(q)) = Len(q) - 1 /\ \A k \in 1..(Len(q) - 1) : Tail(q)[k] = q[k + 1]
  OBVIOUS
<1>2. NoRepeat(Tail(q))
  BY <1>1 DEF NoRepeat
<1>3. ASSUME NEW x \in Elems(Tail(q)) PROVE x \in Elems(q) \ {Head(q)}
  BY <1>1, <1>3 DEF NoRepeat, Elems
<1>4. ASSUME NEW x \in Elems(q) \ {Head(q)} PROVE x \in Elems(Tail(q))
  <2>1. PICK k \in 1..Len(q) : x = q[k]
    BY <1>4 DEF Elems
  <2>2. k - 1 \in 1..Len(Tail(q)) /\ Tail(q)[k - 1] = x
    BY <1>1, <2>1
  <2> QED
    BY <2>2 DEF Elems
<1>5. Elems(Tail(q)) = Elems(q) \ {Head(q)}
  BY <1>3, <1>4
<1>6. Head(q) \in Items /\ Head(q) \in Elems(q)
  BY <1>1 DEF Elems
<1> QED
  BY <1>1, <1>2, <1>5, <1>6

LEMMA BatchesAreSeqs == \A b \in Batches : b \in Seq(Items) /\ NoRepeat(b) /\ Elems(b) \subseteq Items
  BY ConstantsAssumption DEF ConstantsAssumption, Elems

-----------------------------------------------------------------------------
(* Promises settle once.                                                   *)

\* A step that changes only promises that are not settled keeps batches settled.
LEMMA SettledStays ==
  ASSUME \A i \in Items : promise[i] \in {"ok", "error"} => promise'[i] = promise[i],
         NEW b \in Batches, Settled(b)
  PROVE  Settled(b)'
  BY BatchesAreSeqs DEF Settled

-----------------------------------------------------------------------------

LEMMA InitIInv == Init => IInv
<1> SUFFICES ASSUME Init PROVE IInv
  OBVIOUS
<1>1. TypeOK
  <2>1. up \in BOOLEAN /\ started \in BOOLEAN
    BY DEF Init
  <2>2. queue \in Seq(Items) /\ submitting \in Seq(Items)
    BY DEF Init
  <2> QED
    BY <2>1, <2>2 DEF Init, TypeOK
<1>2. \A w \in Workers : With(w) = {}
  BY DEF Init, With
<1>3. Elems(queue) = {} /\ Elems(submitting) = {} /\ NoRepeat(queue) /\ NoRepeat(submitting)
  BY DEF Init, Elems, NoRepeat
<1>4. \A w \in Workers : WorkerOK(w)
  BY <1>2, <1>3 DEF Init, WorkerOK, Live
<1>5. Apart /\ Once /\ Stopped /\ NoIdleWhileQueued
  BY <1>2, <1>3 DEF Init, Apart, Once, Stopped, NoIdleWhileQueued, Live
<1>6. Kept
  BY BatchesAreSeqs DEF Init, Kept
<1> QED
  BY <1>1, <1>4, <1>5, <1>6 DEF IInv

\* A batch is submitted; if there is no pool, one is forked.
LEMMA ProcessBatchKeeps ==
  ASSUME IInv, NEW b \in Batches, ProcessBatch(b)
  PROVE  IInv'
<1> USE DEF IInv, ProcessBatch
<1>1. Elems(submitting') = Elems(b) /\ submitting' \in Seq(Items) /\ NoRepeat(submitting')
  BY BatchesAreSeqs
<1>2. PICK S \in SUBSET {w \in Workers : proc[w] = "none" /\ replies[w] = {}} :
        /\ S # {} => ~started
        /\ proc' = [w \in Workers |-> IF w \in S THEN "pool" ELSE proc[w]]
        /\ idle' = [w \in Workers |-> IF w \in S THEN 1 ELSE idle[w]]
        /\ started' = TRUE
  <2>1. CASE started
    <3> WITNESS {} \in SUBSET {w \in Workers : proc[w] = "none" /\ replies[w] = {}}
    <3> QED
      BY <2>1 DEF EnsureStarted, TypeOK
  <2>2. CASE ~started
    BY <2>2 DEF EnsureStarted, TypeOK
  <2> QED
    BY <2>1, <2>2 DEF TypeOK
<1>3. TypeOK'
  BY <1>1, <1>2 DEF TypeOK
<1>4. \A w \in Workers : With(w)' = With(w)
  BY DEF With
<1>5. \A w \in S : With(w) = {}
  BY <1>2 DEF WorkerOK, With
<1>6. ASSUME NEW w \in Workers PROVE WorkerOK(w)'
  <2>1. CASE w \in S
    BY <2>1, <1>2, <1>4, <1>5 DEF WorkerOK, Live, TypeOK
  <2>2. CASE w \notin S
    <3>1. proc'[w] = proc[w] /\ idle'[w] = idle[w]
      BY <2>2, <1>2
    <3> QED
      BY <3>1, <1>4 DEF WorkerOK, Live, Holds
  <2> QED
    BY <2>1, <2>2
<1>7. Apart'
  BY <1>4 DEF Apart
<1>8. Once'
  BY <1>1 DEF Once
<1>9. Stopped' /\ NoIdleWhileQueued'
  <2>1. queue # << >> => S = {}
    BY <1>2 DEF Stopped
  <2> QED
    BY <1>2, <2>1 DEF Stopped, NoIdleWhileQueued
<1>10. Kept'
  <2>1. \A w \in Workers : proc[w] # "none" => proc'[w] = proc[w]
    BY <1>2
  <2>2. \A c \in Batches : Settled(c)' = Settled(c)
    BY DEF Settled
  <2> QED
    BY <2>1, <2>2, <1>4 DEF Kept
<1> QED
  BY <1>3, <1>6, <1>7, <1>8, <1>9, <1>10

-----------------------------------------------------------------------------
(* A process is handed an item.                                            *)

LEMMA OneMessage ==
  ASSUME NEW i \in Items, NEW B, NEW R,
         \/ B = {i} /\ R = {}
         \/ B = {} /\ \E o \in {"ok", "error"} : R = {[item |-> i, outcome |-> o]}
  PROVE  B \cup {m.item : m \in R} = {i}
<1>1. CASE B = {i} /\ R = {}
  <2>1. {m.item : m \in R} = {}
    BY <1>1
  <2> QED
    BY <1>1, <2>1
<1>2. ASSUME NEW o, B = {}, R = {[item |-> i, outcome |-> o]}
      PROVE  B \cup {m.item : m \in R} = {i}
  <2>1. {m.item : m \in R} = {[item |-> i, outcome |-> o].item}
    BY <1>2
  <2> QED
    BY <1>2, <2>1
<1> QED
  BY <1>1, <1>2

LEMMA HasNothing ==
  ASSUME NEW w \in Workers, With(w) = {}
  PROVE  inbox[w] = {} /\ replies[w] = {}
<1>1. inbox[w] = {}
  BY DEF With
<1>2. ASSUME NEW m \in replies[w] PROVE FALSE
  <2>1. m.item \in With(w)
    BY DEF With
  <2> QED
    BY <2>1
<1> QED
  BY <1>1, <1>2

\* What Dispatch() does to a process that has nothing.
LEMMA Sent ==
  ASSUME TypeOK, NEW w \in Workers, NEW i \in Items, Dispatch(w, i),
         inbox[w] = {}, replies'[w] = {},
         \A v \in Workers \ {w} : replies'[v] = replies[v]
  PROVE  /\ inbox' \in [Workers -> SUBSET Items] /\ up' \in BOOLEAN
         /\ \A v \in Workers \ {w} : inbox'[v] = inbox[v] /\ With(v)' = With(v)
         /\ proc[w] = "exited" => inbox'[w] = {} /\ With(w)' = {}
         /\ proc[w] # "exited" => With(w)' = {i} /\ Holds(w, i)'
<1>1. CASE proc[w] = "exited"
  BY <1>1 DEF Dispatch, TypeOK, With
<1>2. CASE proc[w] # "exited"
  <2>1. inbox' = [inbox EXCEPT ![w] = {i}] /\ up' = up
    BY <1>2 DEF Dispatch
  <2> QED
    BY <1>2, <2>1 DEF TypeOK, With, Holds
<1> QED
  BY <1>1, <1>2

\* Processes stay as they should be when one that has nothing is handed an item
\* that is with nobody.
LEMMA HandedOver ==
  ASSUME IInv, NEW w \in Workers, NEW i \in Items, Dispatch(w, i), Live(w),
         inbox[w] = {}, replies'[w] = {},
         \A v \in Workers \ {w} : replies'[v] = replies[v] /\ idle'[v] = idle[v],
         idle'[w] = 0, UNCHANGED proc,
         i \in callbacks', i \notin Elems(queue'), promise'[i] # "none",
         Elems(queue') \subseteq Elems(queue),
         \A v \in Workers \ {w} :
           /\ i \notin With(v)
           /\ \A j \in With(v) : promise'[j] # "none" /\ (j \in callbacks' <=> j \in callbacks)
  PROVE  (\A v \in Workers : WorkerOK(v)') /\ Apart'
<1> USE DEF IInv
<1>1. /\ \A v \in Workers \ {w} : inbox'[v] = inbox[v] /\ With(v)' = With(v)
      /\ proc[w] = "exited" => inbox'[w] = {} /\ With(w)' = {}
      /\ proc[w] # "exited" => With(w)' = {i} /\ Holds(w, i)'
  BY Sent
<1>2. WorkerOK(w)'
  BY <1>1 DEF WorkerOK, Live
<1>3. ASSUME NEW v \in Workers \ {w} PROVE WorkerOK(v)'
  <2>1. WorkerOK(v) /\ With(v)' = With(v) /\ inbox'[v] = inbox[v] /\ replies'[v] = replies[v]
    BY <1>1
  <2> QED
    BY <2>1 DEF WorkerOK, Live, Holds
<1>4. Apart'
  BY <1>1 DEF Apart
<1> QED
  BY <1>2, <1>3, <1>4

LEMMA EnqueueKeeps ==
  ASSUME IInv, Enqueue
  PROVE  IInv'
<1> USE DEF IInv, Enqueue
<1> DEFINE i == Head(submitting)
<1>1. /\ i \in Items /\ promise[i] = "none" /\ i \notin callbacks /\ i \notin Elems(queue)
      /\ Tail(submitting) \in Seq(Items) /\ NoRepeat(Tail(submitting))
      /\ Elems(Tail(submitting)) = Elems(submitting) \ {i}
  BY TailOnce DEF TypeOK, Once
<1>2. \A v \in Workers : i \notin With(v)
  BY <1>1 DEF WorkerOK
<1>3. /\ promise' = [promise EXCEPT ![i] = "waiting"] /\ submitting' = Tail(submitting)
      /\ UNCHANGED <<started, proc, replies>>
  OBVIOUS
<1>4. \A j \in Items : promise[j] # "none" => promise'[j] = promise[j]
  BY <1>1, <1>3 DEF TypeOK
<1>5. promise'[i] = "waiting" /\ promise' \in [Items -> {"none", "waiting", "ok", "error"}]
  BY <1>1, <1>3 DEF TypeOK
<1>6. \A v \in Workers : With(v) \subseteq Items
  BY DEF With, TypeOK, Reply
<1>7. \A c \in Batches : Settled(c) => Settled(c)'
  BY <1>4, SettledStays
<1>8. ASSUME NEW w \in Workers, idle[w] > 0, idle' = Popped(w),
             callbacks' = callbacks \cup {i}, Dispatch(w, i), UNCHANGED queue
      PROVE  IInv'
  <2>1. idle[w] = 1 /\ Live(w) /\ With(w) = {} /\ queue = << >>
    BY <1>8 DEF TypeOK, WorkerOK, NoIdleWhileQueued
  <2>2. inbox[w] = {} /\ replies[w] = {} /\ replies'[w] = {}
    BY <2>1, <1>3, HasNothing
  <2>3. /\ idle' \in [Workers -> {0, 1}] /\ idle'[w] = 0
        /\ \A v \in Workers \ {w} : idle'[v] = idle[v]
    BY <1>8, <2>1 DEF Popped, TypeOK
  <2>4. Elems(queue) = {}
    BY <2>1 DEF Elems
  <2>5. /\ inbox' \in [Workers -> SUBSET Items] /\ up' \in BOOLEAN
        /\ \A v \in Workers \ {w} : With(v)' = With(v)
        /\ proc[w] # "exited" => With(w)' = {i}
    BY <1>8, <2>2, <1>1, <1>3, Sent
  <2>6. TypeOK'
    BY <1>1, <1>3, <1>5, <1>8, <2>3, <2>5 DEF TypeOK
  <2>7. \A v \in Workers \ {w} : \A j \in With(v) :
          promise'[j] # "none" /\ (j \in callbacks' <=> j \in callbacks)
    BY <1>2, <1>4, <1>6, <1>8 DEF WorkerOK
  <2>8. (\A v \in Workers : WorkerOK(v)') /\ Apart'
    BY <1>1, <1>2, <1>3, <1>5, <1>8, <2>1, <2>2, <2>3, <2>4, <2>7, HandedOver
  <2>9. Once'
    BY <1>1, <1>3, <1>4, <1>5, <1>8, <2>4 DEF Once, TypeOK
  <2>10. Stopped' /\ NoIdleWhileQueued'
    BY <1>3, <1>8, <2>1 DEF Stopped, NoIdleWhileQueued, Live
  <2>11. Kept'
    <3> SUFFICES ASSUME \A v \in Workers : proc'[v] # "exited",
                        NEW c \in Batches, ~Settled(c)',
                        NEW j \in Elems(c), promise'[j] = "waiting"
                 PROVE  \E v \in Workers : proc'[v] = "pool" /\ j \in With(v)'
      BY DEF Kept
    <3>1. CASE j = i
      BY <3>1, <1>3, <2>1, <2>5 DEF Live
    <3>2. CASE j # i
      <4>1. promise[j] = "waiting"
        BY <3>2, <1>3, BatchesAreSeqs DEF TypeOK
      <4>2. PICK v \in Workers : proc[v] = "pool" /\ j \in With(v)
        BY <4>1, <1>3, <1>7, <2>4 DEF Kept
      <4> QED
        BY <4>2, <1>3, <2>1, <2>5
    <3> QED
      BY <3>1, <3>2
  <2> QED
    BY <2>6, <2>8, <2>9, <2>10, <2>11
<1>9. ASSUME \A w \in Workers : idle[w] = 0, queue' = Append(queue, i),
             UNCHANGED <<up, idle, callbacks, inbox>>
      PROVE  IInv'
  <2>1. /\ queue' \in Seq(Items) /\ NoRepeat(queue') /\ Elems(queue') = Elems(queue) \cup {i}
    BY <1>1, <1>9, AppendNew DEF TypeOK, Once
  <2>2. TypeOK'
    BY <1>1, <1>3, <1>5, <1>9, <2>1 DEF TypeOK
  <2>3. \A v \in Workers : With(v)' = With(v)
    BY <1>3, <1>9 DEF With
  <2>4. ASSUME NEW v \in Workers PROVE WorkerOK(v)'
    <3>1. \A j \in With(v) : promise'[j] # "none" /\ j \notin Elems(queue')
      BY <1>2, <1>4, <1>6, <2>1 DEF WorkerOK
    <3> QED
      BY <3>1, <1>3, <1>9, <2>3 DEF WorkerOK, Live, Holds
  <2>5. Apart'
    BY <2>3 DEF Apart
  <2>6. Once'
    <3>1. \A j \in Elems(submitting') : j \in Items /\ j # i /\ promise[j] = "none"
      <4>1. Elems(submitting') = Elems(submitting) \ {i}
        BY <1>1, <1>3
      <4>2. \A j \in Elems(submitting) : j \in Items /\ promise[j] = "none"
        BY DEF Once, TypeOK, Elems
      <4> QED
        BY <4>1, <4>2
    <3>2. \A j \in Elems(queue) : j \in Items /\ promise[j] = "waiting" /\ j \notin callbacks
      BY DEF Once, TypeOK, Elems
    <3>3. \A j \in callbacks : j \in Items /\ promise[j] = "waiting"
      BY DEF Once, TypeOK
    <3>4. \A j \in Elems(submitting') : promise'[j] = "none"
      BY <3>1, <1>3 DEF TypeOK
    <3>5. \A j \in Elems(queue') : promise'[j] = "waiting" /\ j \notin callbacks'
      BY <3>2, <1>1, <1>4, <1>5, <1>9, <2>1
    <3>6. \A j \in callbacks' : promise'[j] = "waiting"
      BY <3>3, <1>4, <1>9
    <3> QED
      BY <3>4, <3>5, <3>6, <1>1, <1>3, <2>1 DEF Once
  <2>7. started
    BY DEF Stopped
  <2>8. Kept'
    <3> SUFFICES ASSUME \A v \in Workers : proc'[v] # "exited",
                        NEW c \in Batches, ~Settled(c)',
                        NEW j \in Elems(c), promise'[j] = "waiting", j # i
                 PROVE  j \in Elems(queue') \/ \E v \in Workers : proc'[v] = "pool" /\ j \in With(v)'
      BY <2>1 DEF Kept
    <3>1. promise[j] = "waiting"
      BY <1>3, BatchesAreSeqs DEF TypeOK
    <3> QED
      BY <3>1, <1>3, <1>7, <2>1, <2>3 DEF Kept
  <2> QED
    BY <2>2, <2>4, <2>5, <2>6, <2>7, <2>8, <1>3, <1>9 DEF Stopped, NoIdleWhileQueued
<1> QED
  BY <1>8, <1>9

\* A reply reaches the parent.
LEMMA OnResultKeeps ==
  ASSUME IInv, NEW w \in Workers, OnResult(w)
  PROVE  IInv'
<1> USE DEF IInv, OnResult
<1>1. PICK m \in replies[w] :
        /\ replies' = [replies EXCEPT ![w] = @ \ {m}]
        /\ \/ ~Known(m) /\ UNCHANGED <<up, pool, promise, inbox>>
           \/ /\ Known(m) /\ TakesNext(m)
              /\ promise' = [promise EXCEPT ![m.item] = m.outcome]
              /\ callbacks' = (callbacks \ {m.item}) \cup {Head(queue)}
              /\ queue' = Shifted /\ Dispatch(w, Head(queue))
              /\ UNCHANGED <<started, idle>>
           \/ /\ Known(m) /\ ~TakesNext(m)
              /\ promise' = [promise EXCEPT ![m.item] = m.outcome]
              /\ callbacks' = callbacks \ {m.item}
              /\ idle' = [idle EXCEPT ![w] = @ + 1]
              /\ UNCHANGED <<up, started, queue, inbox>>
  OBVIOUS
<1>2. submitting = << >> /\ UNCHANGED <<submitting, proc>> /\ Elems(submitting) = {}
  BY DEF Ready, Elems
<1> DEFINE i == m.item
<1>3. m \in Reply /\ i \in Items /\ m.outcome \in {"ok", "error"} /\ i \in With(w)
  BY DEF TypeOK, Reply, With
<1>4. inbox[w] = {} /\ replies[w] = {m} /\ With(w) = {i}
  <2>1. PICK j \in Items : Holds(w, j)
    BY <1>3 DEF WorkerOK
  <2>2. inbox[w] = {} /\ replies[w] = {m}
    BY <2>1 DEF Holds
  <2> QED
    BY <2>2 DEF With
<1>5. /\ replies' \in [Workers -> SUBSET Reply] /\ replies'[w] = {}
      /\ \A v \in Workers \ {w} : replies'[v] = replies[v]
  BY <1>1, <1>4 DEF TypeOK
<1>6. \A v \in Workers : With(v) \subseteq Items
  BY DEF With, TypeOK, Reply
<1>7. \A v \in Workers \ {w} : i \notin With(v)
  BY <1>3 DEF Apart
<1>8. CASE ~Known(m)
  <2>1. UNCHANGED <<up, pool, promise, inbox>>
    BY <1>1, <1>8
  <2>2. TypeOK'
    BY <1>2, <1>5, <2>1 DEF TypeOK, pool
  <2>3. ~Live(w)
    BY <1>3, <1>8 DEF Known, WorkerOK
  <2>4. With(w)' = {} /\ \A v \in Workers \ {w} : With(v)' = With(v)
    BY <1>4, <1>5, <2>1 DEF With
  <2>5. ASSUME NEW v \in Workers PROVE WorkerOK(v)'
    <3>1. CASE v = w
      BY <3>1, <1>2, <1>4, <2>1, <2>3, <2>4 DEF WorkerOK, Live, pool
    <3>2. CASE v # w
      BY <3>2, <1>2, <1>5, <2>1, <2>4 DEF WorkerOK, Live, Holds, pool
    <3> QED
      BY <3>1, <3>2
  <2>6. Apart'
    BY <2>4 DEF Apart
  <2>7. Once' /\ Stopped' /\ NoIdleWhileQueued'
    BY <1>2, <2>1 DEF Once, Stopped, NoIdleWhileQueued, Live, pool
  <2>8. Kept'
    <3>1. \A b \in Batches : Settled(b)' = Settled(b)
      BY <2>1 DEF Settled
    <3> QED
      BY <3>1, <1>2, <2>1, <2>3, <2>4 DEF Kept, Live, pool
  <2> QED
    BY <2>2, <2>5, <2>6, <2>7, <2>8
<1>9. CASE Known(m)
  <2>1. i \in callbacks /\ promise[i] = "waiting" /\ i \notin Elems(queue) /\ Live(w)
    BY <1>3, <1>9 DEF Known, Once, WorkerOK
  <2>2. promise' = [promise EXCEPT ![i] = m.outcome]
    BY <1>1, <1>9
  <2>3. /\ promise' \in [Items -> {"none", "waiting", "ok", "error"}]
        /\ promise'[i] \in {"ok", "error"} /\ \A j \in Items \ {i} : promise'[j] = promise[j]
    BY <1>3, <2>2 DEF TypeOK
  <2>4. \A b \in Batches : Settled(b) => Settled(b)'
    BY <2>1, <2>3, SettledStays
  <2>5. \A j \in Elems(queue) : j \in Items /\ promise[j] = "waiting" /\ j \notin callbacks
    BY DEF Once, TypeOK, Elems
  <2>6. \A j \in callbacks : j \in Items /\ promise[j] = "waiting"
    BY DEF Once, TypeOK
  <2>7. \A v \in Workers \ {w} : \A j \in With(v) : promise'[j] # "none"
    BY <1>6, <1>7, <2>3 DEF WorkerOK
  <2>8. idle[w] = 0
    BY <1>4 DEF WorkerOK, TypeOK
  <2>9. CASE TakesNext(m)
    <3> DEFINE n == Head(queue)
    <3>1. /\ callbacks' = (callbacks \ {i}) \cup {n} /\ queue' = Tail(queue) /\ Dispatch(w, n)
          /\ UNCHANGED <<started, idle>>
      BY <1>1, <1>9, <2>9 DEF Shifted
    <3>2. /\ queue # << >> /\ n \in Items /\ n \in Elems(queue)
          /\ queue' \in Seq(Items) /\ NoRepeat(queue') /\ Elems(queue') = Elems(queue) \ {n}
      BY <2>9, <3>1, TailOnce DEF TakesNext, TypeOK, Once
    <3>3. n # i /\ promise[n] = "waiting" /\ n \notin callbacks /\ promise'[n] = "waiting"
      BY <2>1, <2>3, <2>5, <3>2
    <3>4. \A v \in Workers : n \notin With(v)
      BY <3>2 DEF WorkerOK
    <3>5. /\ inbox' \in [Workers -> SUBSET Items] /\ up' \in BOOLEAN
          /\ \A v \in Workers \ {w} : With(v)' = With(v)
          /\ proc[w] # "exited" => With(w)' = {n}
      BY <1>4, <1>5, <3>1, <3>2, Sent
    <3>6. TypeOK'
      BY <1>2, <1>5, <2>3, <3>1, <3>2, <3>5 DEF TypeOK
    <3>7. \A v \in Workers \ {w} : \A j \in With(v) : j \in callbacks' <=> j \in callbacks
      BY <1>7, <3>1, <3>4
    <3>8. (\A v \in Workers : WorkerOK(v)') /\ Apart'
      <4>1. i \in Items /\ n \in Items /\ n \in callbacks' /\ n \notin Elems(queue')
            /\ promise'[n] # "none" /\ Elems(queue') \subseteq Elems(queue)
            /\ idle' = idle /\ UNCHANGED proc
        BY <1>2, <1>3, <3>1, <3>2, <3>3
      <4> QED
        BY <4>1, <1>4, <1>5, <2>1, <2>7, <2>8, <3>1, <3>4, <3>7, HandedOver
    <3>9. Once'
      <4>1. \A j \in Elems(queue') : promise'[j] = "waiting" /\ j \notin callbacks'
        BY <2>1, <2>3, <2>5, <3>1, <3>2
      <4>2. \A j \in callbacks' : promise'[j] = "waiting"
        BY <2>3, <2>6, <3>1, <3>3
      <4> QED
        BY <4>1, <4>2, <1>2, <3>2 DEF Once
    <3>10. Stopped' /\ NoIdleWhileQueued'
      BY <1>2, <3>1, <3>2 DEF Stopped, NoIdleWhileQueued
    <3>11. Kept'
      <4> SUFFICES ASSUME \A v \in Workers : proc'[v] # "exited",
                          NEW b \in Batches, ~Settled(b)',
                          NEW j \in Elems(b), promise'[j] = "waiting"
                   PROVE  j \in Elems(queue') \/ \E v \in Workers : proc'[v] = "pool" /\ j \in With(v)'
        BY DEF Kept
      <4>1. j \in Items /\ j # i /\ promise[j] = "waiting"
        BY <2>3, BatchesAreSeqs
      <4>2. j \in Elems(queue) \/ \E v \in Workers : proc[v] = "pool" /\ j \in With(v)
        BY <4>1, <1>2, <2>4 DEF Kept
      <4>3. proc'[w] = "pool" /\ With(w)' = {n}
        BY <1>2, <2>1, <3>5 DEF Live
      <4> QED
        BY <4>1, <4>2, <4>3, <1>2, <1>4, <3>2, <3>5
    <3> QED
      BY <3>6, <3>8, <3>9, <3>10, <3>11
  <2>10. CASE ~TakesNext(m)
    <3>1. /\ callbacks' = callbacks \ {i} /\ idle' = [idle EXCEPT ![w] = @ + 1]
          /\ UNCHANGED <<up, started, queue, inbox>> /\ queue = << >>
      BY <1>1, <1>9, <2>10 DEF TakesNext
    <3>2. /\ idle' \in [Workers -> {0, 1}] /\ idle'[w] = 1
          /\ \A v \in Workers \ {w} : idle'[v] = idle[v]
      BY <2>8, <3>1 DEF TypeOK
    <3>3. TypeOK'
      BY <1>2, <1>5, <2>3, <3>1, <3>2 DEF TypeOK
    <3>4. With(w)' = {} /\ \A v \in Workers \ {w} : With(v)' = With(v)
      BY <1>4, <1>5, <3>1 DEF With
    <3>5. WorkerOK(w)'
      BY <1>2, <1>4, <2>1, <3>1, <3>2, <3>4 DEF WorkerOK, Live
    <3>6. ASSUME NEW v \in Workers \ {w} PROVE WorkerOK(v)'
      <4>1. \A j \in With(v) : j \in callbacks' <=> j \in callbacks
        BY <1>7, <3>1
      <4> QED
        BY <4>1, <1>2, <1>5, <2>7, <3>1, <3>2, <3>4 DEF WorkerOK, Live, Holds
    <3>7. Apart'
      BY <3>4 DEF Apart
    <3>8. Once'
      <4>1. Elems(queue) = {}
        BY <3>1 DEF Elems
      <4> QED
        BY <4>1, <1>2, <2>3, <2>6, <3>1 DEF Once
    <3>9. Stopped' /\ NoIdleWhileQueued'
      BY <1>2, <3>1 DEF Stopped, NoIdleWhileQueued, Live
    <3>10. Kept'
      <4> SUFFICES ASSUME \A v \in Workers : proc'[v] # "exited",
                          NEW b \in Batches, ~Settled(b)',
                          NEW j \in Elems(b), promise'[j] = "waiting"
                   PROVE  j \in Elems(queue') \/ \E v \in Workers : proc'[v] = "pool" /\ j \in With(v)'
        BY DEF Kept
      <4>1. j \in Items /\ j # i /\ promise[j] = "waiting"
        BY <2>3, BatchesAreSeqs
      <4>2. j \in Elems(queue) \/ \E v \in Workers : proc[v] = "pool" /\ j \in With(v)
        BY <4>1, <1>2, <2>4 DEF Kept
      <4> QED
        BY <4>1, <4>2, <1>2, <1>4, <3>1, <3>4
    <3> QED
      BY <3>3, <3>5, <3>6, <3>7, <3>8, <3>9, <3>10
  <2> QED
    BY <2>9, <2>10
<1> QED
  BY <1>8, <1>9

\* The pool is closed: what its workers hold is nobody's any more.
LEMMA CloseKeeps ==
  ASSUME IInv, Close
  PROVE  IInv'
<1> USE DEF IInv, Close
<1>1. /\ \A w \in Workers : proc'[w] \in {"none", "killed"} /\ idle'[w] = 0
      /\ proc' \in [Workers -> {"none", "pool", "killed", "exited"}]
      /\ idle' \in [Workers -> {0, 1}]
  BY DEF TypeOK
<1>2. \A w \in Workers : ~Live(w)'
  BY <1>1 DEF Live
<1>3. Elems(queue') = {} /\ NoRepeat(queue') /\ queue' \in Seq(Items)
  BY DEF Elems, NoRepeat
<1>4. TypeOK'
  BY <1>1, <1>3 DEF TypeOK, Ready
<1>5. \A w \in Workers : With(w)' = With(w)
  BY DEF With
<1>6. ASSUME NEW w \in Workers PROVE WorkerOK(w)'
  <2>1. proc'[w] = "none" => proc[w] \in {"none", "exited"}
    BY DEF TypeOK
  <2> QED
    BY <2>1, <1>1, <1>2, <1>3, <1>5 DEF WorkerOK, Holds
<1>7. Apart'
  BY <1>5 DEF Apart
<1>8. Once'
  BY <1>3 DEF Once
<1>9. Stopped' /\ NoIdleWhileQueued'
  BY <1>2 DEF Stopped, NoIdleWhileQueued, Ready
<1>10. Kept'
  <2>1. \A b \in Batches : Settled(b)' = Settled(b)
    BY DEF Settled
  <2> QED
    BY <2>1 DEF Kept
<1> QED
  BY <1>4, <1>6, <1>7, <1>8, <1>9, <1>10

\* A worker answers.
LEMMA WorkKeeps ==
  ASSUME IInv, NEW w \in Workers, Work(w)
  PROVE  IInv'
<1> USE DEF IInv, Work
<1>1. PICK i \in inbox[w], o \in {"ok", "error"} :
        /\ inbox' = [inbox EXCEPT ![w] = @ \ {i}]
        /\ replies' = [replies EXCEPT ![w] = @ \cup ReplyTo(i, o)]
  OBVIOUS
<1>2. i \in Items /\ i \in With(w)
  BY DEF TypeOK, With
<1>3. inbox[w] = {i} /\ replies[w] = {}
  <2>1. PICK j \in Items : Holds(w, j)
    BY <1>2 DEF WorkerOK
  <2> QED
    BY <2>1 DEF Holds
<1>4. /\ inbox'[w] = {} /\ replies'[w] = {[item |-> i, outcome |-> o]}
      /\ \A v \in Workers \ {w} : inbox'[v] = inbox[v] /\ replies'[v] = replies[v]
      /\ inbox' \in [Workers -> SUBSET Items] /\ replies' \in [Workers -> SUBSET Reply]
  BY <1>1, <1>2, <1>3 DEF TypeOK, ReplyTo, Reply
<1>5. \A v \in Workers : With(v)' = With(v)
  <2>1. With(w) = {i} /\ With(w)' = {i}
    BY <1>2, <1>3, <1>4, OneMessage, SMTT(30) DEF With
  <2> QED
    BY <2>1, <1>4 DEF With
<1>6. TypeOK'
  BY <1>4 DEF TypeOK, pool
<1>7. ASSUME NEW v \in Workers PROVE WorkerOK(v)'
  <2>1. CASE v = w
    <3>1. Holds(w, i)'
      BY <1>4 DEF Holds
    <3>2. UNCHANGED <<proc, idle, callbacks, promise, queue>>
      BY DEF pool
    <3> QED
      BY <2>1, <3>1, <3>2, <1>2, <1>4, <1>5 DEF WorkerOK, Live
  <2>2. CASE v # w
    BY <2>2, <1>4, <1>5 DEF WorkerOK, Live, Holds, pool
  <2> QED
    BY <2>1, <2>2
<1>8. Apart' /\ Once' /\ Stopped' /\ NoIdleWhileQueued'
  BY <1>5 DEF Apart, Once, Stopped, NoIdleWhileQueued, Live, pool
<1>9. Kept'
  <2>1. \A b \in Batches : Settled(b)' = Settled(b)
    BY DEF Settled
  <2> QED
    BY <2>1, <1>5 DEF Kept, pool
<1> QED
  BY <1>6, <1>7, <1>8, <1>9

\* A process ends.
LEMMA ExitKeeps ==
  ASSUME IInv, NEW w \in Workers, Exit(w)
  PROVE  IInv'
<1> USE DEF IInv, Exit
<1>1. /\ proc' \in [Workers -> {"none", "pool", "killed", "exited"}]
      /\ \/ proc[w] = "pool" /\ proc'[w] = "exited"
         \/ proc[w] = "killed" /\ proc'[w] = "none"
      /\ \A v \in Workers \ {w} : proc'[v] = proc[v]
      /\ inbox' \in [Workers -> SUBSET Items] /\ inbox'[w] = {}
      /\ \A v \in Workers \ {w} : inbox'[v] = inbox[v]
  BY DEF TypeOK
<1>2. TypeOK'
  BY <1>1 DEF TypeOK, pool
<1>3. /\ With(w)' \subseteq With(w)
      /\ \A v \in Workers \ {w} : With(v)' = With(v)
  BY <1>1 DEF With
<1>4. With(w)' = {} \/ \E i \in Items : Holds(w, i)'
  <2>1. CASE replies[w] = {}
    BY <2>1, <1>1 DEF With
  <2>2. CASE replies[w] # {}
    <3>1. PICK m \in replies[w] : TRUE
      BY <2>2
    <3>2. m.item \in With(w)
      BY DEF With
    <3>3. PICK i \in Items : Holds(w, i)
      BY <3>2 DEF WorkerOK
    <3>4. Holds(w, i)'
      BY <2>2, <3>3, <1>1 DEF Holds
    <3> QED
      BY <3>4
  <2> QED
    BY <2>1, <2>2
<1>5. Live(w)' = Live(w) /\ \A v \in Workers \ {w} : Live(v)' = Live(v)
  BY <1>1 DEF Live
<1>6. ASSUME NEW v \in Workers PROVE WorkerOK(v)'
  <2>1. CASE v = w
    BY <2>1, <1>1, <1>3, <1>4, <1>5 DEF WorkerOK, pool
  <2>2. CASE v # w
    BY <2>2, <1>1, <1>3, <1>5 DEF WorkerOK, Holds, pool
  <2> QED
    BY <2>1, <2>2
<1>7. Apart' /\ Once' /\ Stopped' /\ NoIdleWhileQueued'
  BY <1>3, <1>5 DEF Apart, Once, Stopped, NoIdleWhileQueued, pool
<1>8. Kept'
  <2>1. \A b \in Batches : Settled(b)' = Settled(b)
    BY DEF Settled
  <2>2. CASE proc'[w] = "exited"
    BY <2>2 DEF Kept
  <2>3. CASE proc[w] = "killed"
    BY <2>1, <2>3, <1>1, <1>3 DEF Kept, pool
  <2> QED
    BY <1>1, <2>2, <2>3
<1> QED
  BY <1>2, <1>6, <1>7, <1>8

LEMMA NextIInv == IInv /\ [Next]_vars => IInv'
<1> SUFFICES ASSUME IInv, [Next]_vars PROVE IInv'
  OBVIOUS
<1>1. CASE \E b \in Batches : ProcessBatch(b)
  BY <1>1, ProcessBatchKeeps
<1>2. CASE Enqueue
  BY <1>2, EnqueueKeeps
<1>3. CASE Close
  BY <1>3, CloseKeeps
<1>4. CASE \E w \in Workers : OnResult(w)
  BY <1>4, OnResultKeeps
<1>5. CASE \E w \in Workers : Work(w)
  BY <1>5, WorkKeeps
<1>6. CASE \E w \in Workers : Exit(w)
  BY <1>6, ExitKeeps
<1>7. CASE UNCHANGED vars
  <2>1. (\A w \in Workers : With(w)' = With(w)) /\ \A b \in Batches : Settled(b)' = Settled(b)
    BY <1>7 DEF vars, With, Settled
  <2>2. TypeOK' /\ \A w \in Workers : WorkerOK(w)'
    BY <1>7, <2>1 DEF vars, pool, IInv, TypeOK, WorkerOK, Holds, Live
  <2>3. Apart' /\ Once' /\ Stopped' /\ NoIdleWhileQueued' /\ Kept'
    BY <1>7, <2>1 DEF vars, pool, IInv, Apart, Once, Stopped, Live, NoIdleWhileQueued, Kept
  <2> QED
    BY <2>2, <2>3 DEF IInv
<1> QED
  BY <1>1, <1>2, <1>3, <1>4, <1>5, <1>6, <1>7 DEF Next

LEMMA Invariant == Spec => []IInv
  BY InitIInv, NextIInv, PTL DEF Spec

-----------------------------------------------------------------------------

\* A worker of the pool has one item or is idle, and no process of an earlier
\* pool is taken for a worker of this one, whatever replies arrive late.
THEOREM WorkersHandleOne == Spec => []OneAtATime
<1>1. IInv => OneAtATime
  <2> SUFFICES ASSUME IInv, NEW w \in Workers
               PROVE  /\ proc[w] = "pool" =>
                           IF idle[w] = 1 THEN With(w) = {} ELSE \E i \in Items : With(w) = {i}
                      /\ idle[w] = 1 => proc[w] \in {"pool", "exited"}
    BY DEF OneAtATime, IInv
  <2>1. idle[w] \in {0, 1} /\ WorkerOK(w)
    BY DEF IInv, TypeOK
  <2>2. ASSUME NEW i \in Items, Holds(w, i) PROVE With(w) = {i}
    BY <2>2, OneMessage DEF Holds, With
  <2> QED
    BY <2>1, <2>2 DEF WorkerOK, Live
<1> QED
  BY <1>1, Invariant, PTL

\* The parent, the workers and the messages between them keep their types,
\* whatever replies of an earlier pool arrive late.
THEOREM PoolTypes == Spec => []TypeOK
<1>1. IInv => TypeOK
  BY DEF IInv
<1> QED
  BY <1>1, Invariant, PTL

\* No file waits in the queue while a worker has nothing to do.
THEOREM QueueDrains == Spec => []NoIdleWhileQueued
<1>1. IInv => NoIdleWhileQueued
  BY DEF IInv
<1> QED
  BY <1>1, Invariant, PTL

\* As long as no worker dies every file that has been submitted is queued once or
\* with exactly one worker, until its batch settles.
THEOREM FilesKept == Spec => []NothingLost
<1>1. IInv => NothingLost
  <2> SUFFICES ASSUME IInv, \A w \in Workers : proc[w] # "exited",
                      NEW b \in Batches, ~Settled(b),
                      NEW i \in Elems(b), promise[i] = "waiting"
               PROVE  \/ /\ \E j \in 1..Len(queue) :
                               queue[j] = i /\ \A k \in 1..Len(queue) : queue[k] = i => k = j
                         /\ \A w \in Workers : proc[w] = "pool" => i \notin With(w)
                      \/ /\ i \notin Elems(queue)
                         /\ \E w \in Workers :
                              /\ proc[w] = "pool" /\ i \in With(w)
                              /\ \A v \in Workers : proc[v] = "pool" /\ i \in With(v) => v = w
    BY DEF NothingLost
  <2>1. CASE i \in Elems(queue)
    <3>1. PICK j \in 1..Len(queue) : queue[j] = i
      BY <2>1 DEF Elems
    <3>2. \A k \in 1..Len(queue) : queue[k] = i => k = j
      BY <3>1 DEF IInv, Once, NoRepeat
    <3>3. \A w \in Workers : i \notin With(w)
      BY <2>1 DEF IInv, WorkerOK
    <3> QED
      BY <3>1, <3>2, <3>3
  <2>2. CASE i \notin Elems(queue)
    <3>1. PICK w \in Workers : proc[w] = "pool" /\ i \in With(w)
      BY <2>2 DEF IInv, Kept
    <3>2. \A v \in Workers : i \in With(v) => v = w
      BY <3>1 DEF IInv, Apart
    <3> QED
      BY <2>2, <3>1, <3>2
  <2> QED
    BY <2>1, <2>2
<1> QED
  BY <1>1, Invariant, PTL

-----------------------------------------------------------------------------
(* Exports, imports and copies: where each file of the source is, and the  *)
(* proofs of ExportFaithful, ImportComplete and UploadedOnce.              *)

Files(s) == {s[i] : i \in 1..Len(s)}
Sources == Files(source)

\* The files that are still to be written.
Pending == Files(todo) \cup Files(batch) \cup Files(missing) \cup Files(later)

Entries == [hash : Hashes, paths : SUBSET Paths]
Early == {"start", "stat", "open", "exported", "cut", "down"}
Running == {"batch", "sync", "send", "done"}

Types ==
  /\ TransferTypeOK /\ job \in Job /\ pc \in Early \cup Running
  /\ snapshot \in Seq(Entries) /\ archive \in Seq(Entries)
  /\ following \in BOOLEAN /\ uploads \in [Hashes -> Nat]
  /\ before \in [Paths -> Hashes \cup {Absent}] /\ lost \subseteq Hashes
  /\ {todo, batch, missing, later} \subseteq Seq(Sources)

\* Which part of the queue each step has emptied.
Places ==
  /\ pc \in Early => /\ source = << >> /\ sent = {}
                     /\ uploads = [h \in Hashes |-> 0]
  /\ pc = "batch" => batch = << >> /\ missing = << >>
  /\ pc = "sync" => sent = {}
  /\ pc = "send" => batch = << >>
  /\ pc = "done" => Pending = {}

\* No path is listed with two contents.
Agree(s) == \A d, e \in Files(s) : d.path = e.path => d.hash = e.hash

\* What is packed is the beginning of what was found.
Packed ==
  /\ pc = "start" => archive = << >>
  /\ Len(archive) <= Len(snapshot) /\ \A i \in 1..Len(archive) : archive[i] = snapshot[i]
  /\ pc = "open" => Len(archive) < Len(snapshot)
  /\ \A x, y \in Files(snapshot) : x.paths \cap y.paths # {} => x.hash = y.hash
  /\ ExportFaithful

\* A path that nobody else has changed has what it had, or a content it is to
\* have; the file d is as it should be when everything is over.
Ours ==
  /\ Agree(source)
  /\ \A f \in Paths \ touched :
     rows[f] = before[f] \/ \E d \in Sources : d.path = f /\ rows[f] = d.hash
Good(d) ==
  \/ rows[d.path] = d.hash
  \/ ~Replaces /\ before[d.path] # Absent /\ rows[d.path] = before[d.path]

\* Each file is still to come, or was reported or disturbed, or is good.
Handled ==
  ~Unnoticed => \A d \in Sources :
    d \in Pending \/ d.path \in touched \cup failed \cup reported \/ Good(d)

\* Why the first file of a content that is missing is not refused as a duplicate,
\* and why the files linked to it after that find the content.
Unsent ==
  job.op = "import" /\ touched = {} => \A d \in Files(missing) :
    d.hash \in sent \/ (d.hash \notin blobs /\ (job.overwrite \/ rows[d.path] = Absent))
SentStored ==
  job.op = "import" /\ job.mode = "pg" /\ touched = {} /\ failed = {} => sent \subseteq blobs

\* A content that has been sent is stored, so that sync() does not miss it again.
SentOnce ==
  job.op = "import" /\ lost = {} /\ pc \in Running =>
    /\ \A h \in Hashes : uploads[h] = 0 \/ (uploads[h] = 1 /\ h \in blobs)
    /\ \A d \in Files(missing) : uploads[d.hash] = 0 \/ d.hash \in sent

TransferInv ==
  Types /\ Places /\ Packed /\ Ours /\ Handled /\ Unsent /\ SentStored /\ SentOnce

-----------------------------------------------------------------------------
(* The order of the archive's files is a fold over its entries, of which   *)
(* only the type matters.                                                  *)

\* The files of a set, in some order.
LEMMA SeqOfSet ==
  ASSUME NEW S, IsFiniteSet(S)
  PROVE  T!SetToSeq(S) \in Seq(S)
<1>1. Cardinality(S) \in Nat /\ ExistsBijection(1..Cardinality(S), S)
  BY FS_CardinalityType
<1>2. PICK b \in Bijection(1..Cardinality(S), S) : TRUE
  BY <1>1 DEF ExistsBijection
<1>3. b \in [1..Cardinality(S) -> S] /\ IsInjective(b)
  BY <1>2 DEF Bijection, Injection
<1>4. T!SetToSeq(S) \in [1..Cardinality(S) -> S]
  <2>1. T!Cardinality(S) = Cardinality(S)
    BY DEF T!Cardinality, Cardinality
  <2> QED
    BY <1>3, <2>1 DEF T!SetToSeq, T!IsInjective, IsInjective
<1> QED
  BY <1>1, <1>4

\* The greatest of a set of positions.
LEMMA LastOf ==
  ASSUME NEW n \in Nat, NEW s \in SUBSET (1..n), s # {}
  PROVE  T!Max(s) \in s /\ \A i \in s : i <= T!Max(s)
<1> DEFINE Gaps == {n - i : i \in s}
<1>1. Gaps \subseteq Nat
  OBVIOUS
<1>0. Gaps # {}
  OBVIOUS
<1>2. PICK x \in Gaps : \A y \in Gaps : ~(<<y, x>> \in OpToRel(<, Nat))
  BY <1>0, <1>1, NatLessThanWellFounded, WFMin
<1>3. \A y \in Gaps : ~(y < x)
  BY <1>1, <1>2 DEF OpToRel
<1>4. PICK m \in s : x = n - m
  BY <1>2
<1>5. \A i \in s : m >= i
  BY <1>3, <1>4
<1> QED
  BY <1>5, Zenon DEF T!Max

\* What a fold over the positions up to n is made of.
FoldsOver(g, n, P) ==
  \A s \in SUBSET (1..n) :
    g[s] = IF s = {} THEN << >> ELSE g[s \ {T!Max(s)}] \o P[T!Max(s)]

\* There is such a fold, and it has values of the type its steps keep.
LEMMA FoldOfOneMore ==
  ASSUME NEW F, NEW N \in Nat, NEW P \in [1..N -> Seq(F)],
         NEW n \in 1..N, NEW g \in [SUBSET (1..n - 1) -> Seq(F)], FoldsOver(g, n - 1, P)
  PROVE  \E h \in [SUBSET (1..n) -> Seq(F)] : FoldsOver(h, n, P)
<1> DEFINE h == [s \in SUBSET (1..n) |-> IF n \in s THEN g[s \ {n}] \o P[n] ELSE g[s]]
<1>1. \A s \in SUBSET (1..n) : n \notin s => s \in SUBSET (1..n - 1)
  OBVIOUS
<1>2. \A s \in SUBSET (1..n) : s \ {n} \in SUBSET (1..n - 1)
  OBVIOUS
<1>3. ASSUME NEW s \in SUBSET (1..n), n \in s PROVE T!Max(s) = n
  <2>0. n \in Nat /\ s # {}
    BY <1>3
  <2>1. T!Max(s) \in s /\ \A i \in s : i <= T!Max(s)
    BY <2>0, LastOf, Zenon
  <2>2. T!Max(s) \in 1..n /\ n <= T!Max(s)
    BY <1>3, <2>1
  <2> QED
    BY <2>2
<1>4. h \in [SUBSET (1..n) -> Seq(F)]
  <2> SUFFICES ASSUME NEW s \in SUBSET (1..n)
               PROVE (IF n \in s THEN g[s \ {n}] \o P[n] ELSE g[s]) \in Seq(F)
    OBVIOUS
  <2>1. CASE n \in s
    <3>1. g[s \ {n}] \in Seq(F) /\ P[n] \in Seq(F)
      BY <1>2
    <3> QED
      BY <2>1, <3>1
  <2>2. CASE n \notin s
    BY <1>1, <2>2
  <2> QED
    BY <2>1, <2>2
<1>5. ASSUME NEW s \in SUBSET (1..n)
      PROVE  h[s] = IF s = {} THEN << >> ELSE h[s \ {T!Max(s)}] \o P[T!Max(s)]
  <2>1. CASE n \in s
    <3>1. h[s] = g[s \ {n}] \o P[n]
      BY <2>1
    <3>2. h[s \ {n}] = g[s \ {n}]
      OBVIOUS
    <3> QED
      BY <1>3, <2>1, <3>1, <3>2
  <2>2. CASE n \notin s /\ s # {}
    <3>1. s \in SUBSET (1..n - 1)
      BY <1>1, <2>2
    <3>2. h[s] = g[s] /\ h[s \ {T!Max(s)}] = g[s \ {T!Max(s)}]
      BY <2>2
    <3>3. g[s] = g[s \ {T!Max(s)}] \o P[T!Max(s)]
      BY <2>2, <3>1 DEF FoldsOver
    <3> QED
      BY <2>2, <3>2, <3>3
  <2>3. CASE s = {}
    <3>1. g[{}] = << >>
      BY DEF FoldsOver
    <3> QED
      BY <2>3, <3>1
  <2> QED
    BY <2>1, <2>2, <2>3
<1> HIDE DEF h
<1> QED
  BY <1>4, <1>5 DEF FoldsOver

LEMMA FoldExists ==
  ASSUME NEW F, NEW N \in Nat, NEW P \in [1..N -> Seq(F)]
  PROVE  \E g \in [SUBSET (1..N) -> Seq(F)] : FoldsOver(g, N, P)
<1> DEFINE Ends(n) == \E g \in [SUBSET (1..n) -> Seq(F)] : FoldsOver(g, n, P)
           Bad == {n \in Nat : n <= N /\ ~Ends(n)}
<1>1. Ends(0)
  <2> DEFINE g == [s \in SUBSET (1..0) |-> << >>]
  <2>1. g \in [SUBSET (1..0) -> Seq(F)]
    OBVIOUS
  <2>2. FoldsOver(g, 0, P)
    BY DEF FoldsOver
  <2> QED
    BY <2>1, <2>2
<1>2. ASSUME NEW n \in 1..N, Ends(n - 1) PROVE Ends(n)
  BY <1>2, FoldOfOneMore
<1> HIDE DEF Ends
<1>3. Bad = {}
  <2> SUFFICES ASSUME Bad # {} PROVE FALSE
    OBVIOUS
  <2>1. PICK x \in Bad : \A y \in Bad : ~(<<y, x>> \in OpToRel(<, Nat))
    BY NatLessThanWellFounded, WFMin
  <2>2. \A y \in Bad : ~(y < x)
    BY <2>1 DEF OpToRel
  <2>3. x \in 1..N /\ x - 1 \notin Bad
    BY <1>1, <2>2
  <2> QED
    BY <1>2, <2>3
<1>4. Ends(N)
  BY <1>3
<1> QED
  BY <1>4 DEF Ends

LEMMA FoldTyped ==
  ASSUME NEW F, NEW N \in Nat, NEW P \in [1..N -> Seq(F)], NEW f, FoldsOver(f, N, P)
  PROVE  f[1..N] \in Seq(F)
<1> DEFINE Bad == {n \in Nat : n <= N /\ f[1..n] \notin Seq(F)}
<1>1. ASSUME NEW n \in Nat, n <= N, n = 0 \/ f[1..n - 1] \in Seq(F) PROVE f[1..n] \in Seq(F)
  <2>0. 1..n \in SUBSET (1..N)
    BY <1>1
  <2>1. CASE n = 0
    <3>1. f[1..n] = << >>
      BY <2>0, <2>1, 1..0 = {} DEF FoldsOver
    <3> QED
      BY <3>1
  <2>2. CASE n # 0
    <3>0. 1..n # {} /\ 1..n \in SUBSET (1..n) /\ n \in 1..n
      BY <2>2
    <3>1. T!Max(1..n) \in 1..n /\ \A i \in 1..n : i <= T!Max(1..n)
      BY <3>0, LastOf, Zenon
    <3>2. T!Max(1..n) = n /\ (1..n) \ {n} = 1..n - 1 /\ n \in 1..N
      BY <1>1, <2>2, <3>1
    <3>3. f[1..n] = f[(1..n) \ {T!Max(1..n)}] \o P[T!Max(1..n)]
      BY <2>0, <3>0 DEF FoldsOver
    <3>4. f[1..n] = f[1..n - 1] \o P[n]
      BY <3>2, <3>3, Zenon
    <3>5. f[1..n - 1] \in Seq(F) /\ P[n] \in Seq(F)
      BY <1>1, <2>2, <3>2
    <3> QED
      BY <3>4, <3>5
  <2> QED
    BY <2>1, <2>2
<1>2. Bad = {}
  <2> SUFFICES ASSUME Bad # {} PROVE FALSE
    OBVIOUS
  <2>1. PICK x \in Bad : \A y \in Bad : ~(<<y, x>> \in OpToRel(<, Nat))
    BY NatLessThanWellFounded, WFMin
  <2>2. \A y \in Bad : ~(y < x)
    BY <2>1 DEF OpToRel
  <2>3. x = 0 \/ x - 1 \notin Bad
    BY <2>2
  <2> QED
    BY <1>1, <2>3
<1> QED
  BY <1>2

\* _extractAndScan() goes over files of the archive.
LEMMA Packing ==
  ASSUME NEW F, archive \in Seq(Entries),
         \A i \in 1..Len(archive) : T!FilesIn(archive[i]) \in Seq(F)
  PROVE  T!Contents \in Seq(F)
<1> DEFINE It(g) == g = [s \in SUBSET (DOMAIN archive) |->
                      IF s = {} THEN << >> ELSE g[s \ {T!Max(s)}] \o T!FilesIn(archive[T!Max(s)])]
           iter == CHOOSE g : It(g)
<1>1. T!Contents = iter[DOMAIN archive]
  BY DEF T!Contents, T!FoldLeft, T!MapThenFoldSet
<1>2. PICK N \in Nat : N = Len(archive) /\ DOMAIN archive = 1..N
  OBVIOUS
<1>3. PICK P : P = [i \in 1..N |-> T!FilesIn(archive[i])]
  OBVIOUS
<1>4. P \in [1..N -> Seq(F)]
  BY <1>2, <1>3
<1>5. PICK g \in [SUBSET (1..N) -> Seq(F)] : FoldsOver(g, N, P)
  BY <1>4, FoldExists
<1>6. It(g)
  <2>1. ASSUME NEW s \in SUBSET (1..N), s # {} PROVE P[T!Max(s)] = T!FilesIn(archive[T!Max(s)])
    BY <1>3, <2>1, LastOf
  <2>2. ASSUME NEW s \in SUBSET (1..N)
        PROVE  g[s] = IF s = {} THEN << >> ELSE g[s \ {T!Max(s)}] \o T!FilesIn(archive[T!Max(s)])
    BY <1>5, <2>1 DEF FoldsOver
  <2> QED
    BY <1>2, <2>2
<1>7. It(iter)
  BY <1>6
<1> HIDE DEF iter
<1>8. \A s \in SUBSET (1..N) :
         iter[s] = IF s = {} THEN << >> ELSE iter[s \ {T!Max(s)}] \o P[T!Max(s)]
  <2> SUFFICES ASSUME NEW s \in SUBSET (1..N)
               PROVE iter[s] = IF s = {} THEN << >> ELSE iter[s \ {T!Max(s)}] \o P[T!Max(s)]
    OBVIOUS
  <2>1. iter[s] = IF s = {} THEN << >> ELSE iter[s \ {T!Max(s)}] \o T!FilesIn(archive[T!Max(s)])
    BY <1>2, <1>7
  <2> QED
    BY <1>3, <2>1, LastOf
<1>9. iter[1..N] \in Seq(F)
  BY <1>4, <1>8, FoldTyped DEF FoldsOver
<1> QED
  BY <1>1, <1>2, <1>9

-----------------------------------------------------------------------------
(* What is in a sequence.                                                  *)

LEMMA EmptyFiles == Files(<< >>) = {} /\ \A S : << >> \in Seq(S)
  BY DEF Files

LEMMA TypedFiles ==
  ASSUME NEW S, NEW s \in Seq(S)
  PROVE  /\ Files(s) \subseteq S /\ s \in Seq(Files(s))
         /\ \A U : Files(s) \subseteq U => s \in Seq(U)
         /\ s # << >> => Files(s) # {}
<1>1. s \in [1..Len(s) -> S] /\ Len(s) \in Nat
  OBVIOUS
<1>2. \A i \in 1..Len(s) : s[i] \in S /\ s[i] \in Files(s)
  BY <1>1 DEF Files
<1>3. Files(s) \subseteq S
  BY <1>2 DEF Files
<1>4. ASSUME NEW U, Files(s) \subseteq U PROVE s \in Seq(U)
  BY <1>1, <1>2, <1>4
<1>5. ASSUME s # << >> PROVE 1 \in 1..Len(s)
  BY <1>1, <1>5
<1> QED
  BY <1>2, <1>3, <1>4, <1>5

LEMMA TailFiles ==
  ASSUME NEW S, NEW s \in Seq(S), s # << >>
  PROVE  /\ Head(s) \in S /\ Tail(s) \in Seq(S)
         /\ Files(s) = {Head(s)} \cup Files(Tail(s))
<1>1. /\ Len(s) \in Nat \ {0} /\ Head(s) = s[1] /\ Tail(s) \in Seq(S) /\ Len(Tail(s)) = Len(s) - 1
      /\ \A i \in 1..Len(s) - 1 : Tail(s)[i] = s[i + 1]
      /\ \A i \in 1..Len(s) : s[i] \in S
  OBVIOUS
<1>2. ASSUME NEW d \in Files(s) PROVE d = Head(s) \/ d \in Files(Tail(s))
  <2>1. PICK i \in 1..Len(s) : d = s[i]
    BY DEF Files
  <2>2. i = 1 \/ (i - 1 \in 1..Len(Tail(s)) /\ Tail(s)[i - 1] = s[i])
    BY <1>1
  <2> QED
    BY <1>1, <2>1, <2>2 DEF Files
<1>3. ASSUME NEW d \in Files(Tail(s)) PROVE d \in Files(s)
  <2>1. PICK i \in 1..Len(s) - 1 : d = Tail(s)[i]
    BY <1>1 DEF Files
  <2>2. d = s[i + 1] /\ i + 1 \in 1..Len(s)
    BY <1>1, <2>1
  <2> QED
    BY <2>2 DEF Files
<1>4. Head(s) \in Files(s)
  BY <1>1 DEF Files
<1> QED
  BY <1>1, <1>2, <1>3, <1>4

LEMMA AppendFiles ==
  ASSUME NEW S, NEW s \in Seq(S), NEW d \in S
  PROVE  Append(s, d) \in Seq(S) /\ Files(Append(s, d)) = Files(s) \cup {d}
<1>1. /\ Append(s, d) \in Seq(S) /\ Len(Append(s, d)) = Len(s) + 1 /\ Len(s) \in Nat
      /\ Append(s, d)[Len(s) + 1] = d /\ \A i \in 1..Len(s) : Append(s, d)[i] = s[i]
  OBVIOUS
<1>2. ASSUME NEW e \in Files(Append(s, d)) PROVE e = d \/ e \in Files(s)
  <2>1. PICK i \in 1..Len(s) + 1 : e = Append(s, d)[i]
    BY <1>1 DEF Files
  <2>2. i = Len(s) + 1 \/ i \in 1..Len(s)
    BY <1>1
  <2> QED
    BY <1>1, <2>1, <2>2 DEF Files
<1>3. d \in Files(Append(s, d)) /\ \A e \in Files(s) : e \in Files(Append(s, d))
  BY <1>1 DEF Files
<1> QED
  BY <1>1, <1>2, <1>3

LEMMA SplitFiles ==
  ASSUME NEW S, NEW s \in Seq(S), NEW n \in 0..Len(s)
  PROVE  /\ SubSeq(s, 1, n) \in Seq(S) /\ SubSeq(s, n + 1, Len(s)) \in Seq(S)
         /\ Files(s) = Files(SubSeq(s, 1, n)) \cup Files(SubSeq(s, n + 1, Len(s)))
<1>1. /\ Len(s) \in Nat /\ n \in Nat /\ n <= Len(s) /\ \A i \in 1..Len(s) : s[i] \in S
  OBVIOUS
<1>2. /\ SubSeq(s, 1, n) \in Seq(S) /\ Len(SubSeq(s, 1, n)) = n
      /\ \A i \in 1..n : SubSeq(s, 1, n)[i] = s[i]
  BY <1>1
<1>3. /\ SubSeq(s, n + 1, Len(s)) \in Seq(S) /\ Len(SubSeq(s, n + 1, Len(s))) = Len(s) - n
      /\ \A i \in 1..Len(s) - n : SubSeq(s, n + 1, Len(s))[i] = s[n + i]
  BY <1>1
<1>4. ASSUME NEW d \in Files(s)
      PROVE  d \in Files(SubSeq(s, 1, n)) \cup Files(SubSeq(s, n + 1, Len(s)))
  <2>1. PICK i \in 1..Len(s) : d = s[i]
    BY DEF Files
  <2>2. CASE i <= n
    BY <1>1, <1>2, <2>1, <2>2 DEF Files
  <2>3. CASE i > n
    <3>1. i - n \in 1..Len(s) - n /\ n + (i - n) = i
      BY <1>1, <2>3
    <3> QED
      BY <1>3, <2>1, <3>1 DEF Files
  <2> QED
    BY <1>1, <2>2, <2>3
<1>5. Files(SubSeq(s, 1, n)) \subseteq Files(s)
  BY <1>1, <1>2 DEF Files
<1>6. ASSUME NEW d \in Files(SubSeq(s, n + 1, Len(s))) PROVE d \in Files(s)
  <2>1. PICK i \in 1..Len(s) - n : d = SubSeq(s, n + 1, Len(s))[i]
    BY <1>3 DEF Files
  <2>2. d = s[n + i] /\ n + i \in 1..Len(s)
    BY <1>1, <1>3, <2>1
  <2> QED
    BY <2>2 DEF Files
<1> QED
  BY <1>2, <1>3, <1>4, <1>5, <1>6

-----------------------------------------------------------------------------
(* The export.                                                             *)

LEMMA InitialInv == T!Init => TransferInv
<1> SUFFICES ASSUME T!Init PROVE TransferInv
  OBVIOUS
<1>0. Sources = {} /\ Pending = {} /\ Files(missing) = {} /\ Files(snapshot) = {}
  BY EmptyFiles DEF T!Init, Sources, Pending
<1>1. Types
  <2>1. rows \in [Paths -> Hashes \cup {Absent}] /\ blobs \subseteq Hashes
        /\ \A f \in Paths : rows[f] = Absent \/ rows[f] \in blobs
    BY DEF T!Init, T!InitialRows
  <2>2. job \in Job
    BY TransferAssumption DEF T!Init
  <2> QED
    BY <2>1, <2>2, EmptyFiles DEF T!Init, Types, TransferTypeOK, Early
<1>2. Places
  BY DEF T!Init, Places, Early
<1>3. Packed
  BY <1>0 DEF T!Init, Packed, ExportFaithful
<1>4. Ours
  BY <1>0 DEF T!Init, Ours, Agree, Sources
<1>5. Handled /\ Unsent /\ SentStored
  BY <1>0 DEF T!Init, Handled, Unsent, SentStored
<1>6. SentOnce
  BY DEF T!Init, SentOnce, Running
<1> QED
  BY <1>1, <1>2, <1>3, <1>4, <1>5, <1>6 DEF TransferInv

\* Each content is listed once, with the files that have it.
LEMMA Snapshots ==
  ASSUME Types, NEW S, S = {T!Entry(h) : h \in {g \in Hashes : T!FilesOf(g) # {}}}
  PROVE  /\ T!SetToSeq(S) \in Seq(S) /\ S \subseteq Entries
         /\ \A x, y \in S : x.paths \cap y.paths # {} => x.hash = y.hash
<1> DEFINE H == {g \in Hashes : T!FilesOf(g) # {}}
           f == [h \in H |-> T!Entry(h)]
<1>1. IsFiniteSet(H)
  BY FS_Subset, TransferAssumption
<1>2. f \in Surjection(H, S)
  BY DEF Surjection
<1>3. IsFiniteSet(S)
  BY <1>1, <1>2, FS_Surjection
<1>4. \A x \in S : x.hash \in Hashes /\ x.paths = T!FilesOf(x.hash) /\ x \in Entries
  BY DEF T!Entry, Entries, T!FilesOf
<1>5. \A x, y \in S : x.paths \cap y.paths # {} => x.hash = y.hash
  BY <1>4 DEF T!FilesOf
<1> QED
  BY <1>3, <1>4, <1>5, SeqOfSet

\* The steps of an export touch only what it has listed and packed.
LEMMA WhileExporting ==
  ASSUME TransferInv, pc \in Early, pc' \in Early, 
         UNCHANGED <<T!server, job, T!queue, T!result, before, T!others>>,
         snapshot' \in Seq(Entries), archive' \in Seq(Entries), Packed'
  PROVE  TransferInv'
<1>1. Sources' = Sources /\ Pending' = Pending
  BY DEF T!queue, Sources, Pending
<1>2. Types'
  BY <1>1 DEF TransferInv, Types, TransferTypeOK, T!server, T!queue, T!result, T!others
<1>3. Places'
  BY DEF TransferInv, Places, Early, T!queue, T!result
<1>4. Ours' /\ Handled' /\ Unsent' /\ SentStored'
  BY <1>1
  DEF TransferInv, Ours, Handled, Unsent, SentStored, Good, Replaces, Unnoticed, Agree, T!server, T!queue, T!result, T!others
<1>5. SentOnce'
  BY DEF SentOnce, Early, Running
<1> QED
  BY <1>2, <1>3, <1>4, <1>5 DEF TransferInv

LEMMA QueryStep == ASSUME TransferInv, T!Query PROVE TransferInv'
<1>1. PICK S : S = {T!Entry(h) : h \in {g \in Hashes : T!FilesOf(g) # {}}}
  OBVIOUS
<1>2. snapshot' = T!SetToSeq(S)
  BY <1>1 DEF T!Query
<1>3. /\ T!SetToSeq(S) \in Seq(S) /\ S \subseteq Entries
      /\ \A x, y \in S : x.paths \cap y.paths # {} => x.hash = y.hash
  BY <1>1, Snapshots DEF TransferInv
<1>4. snapshot' \in Seq(Entries) /\ Files(snapshot') \subseteq S
  BY <1>2, <1>3, TypedFiles
<1>5. archive' = << >> /\ pc' = "stat"
  BY DEF T!Query, TransferInv, Packed
<1>6. Packed'
  <2>1. Len(archive') = 0 /\ Len(snapshot') \in Nat
    BY <1>4, <1>5
  <2> QED
    BY <1>3, <1>4, <1>5, <2>1 DEF Packed, ExportFaithful
<1> QED
  BY <1>4, <1>5, <1>6, WhileExporting, EmptyFiles DEF T!Query, Early

LEMMA StatStep == ASSUME TransferInv, T!Stat PROVE TransferInv'
<1>1. /\ pc = "stat" /\ pc' \in {"open", "exported", "cut"}
      /\ pc' = "exported" => job.mode = "http"
      /\ UNCHANGED <<job, T!export>>
  BY DEF T!Stat
<1>2. snapshot \in Seq(Entries) /\ archive \in Seq(Entries)
  BY DEF TransferInv, Types
<1>3. Len(archive) < Len(snapshot)
  BY <1>2 DEF T!Stat, T!Rest, TransferInv, Packed
<1>4. Packed'
  BY <1>1, <1>3 DEF TransferInv, Packed, ExportFaithful, T!export
<1> QED
  BY <1>1, <1>2, <1>4, WhileExporting DEF T!Stat, Early, T!export

LEMMA OpenStep == ASSUME TransferInv, T!Open PROVE TransferInv'
<1>1. /\ snapshot \in Seq(Entries) /\ archive \in Seq(Entries) /\ snapshot' = snapshot
      /\ pc = "open"
      /\ Len(archive) < Len(snapshot) /\ pc' \in {"stat", "down"} /\ UNCHANGED job
  BY DEF TransferInv, Types, Packed, T!Open
<1>2. CASE archive' = archive
  <2>1. Packed'
    BY <1>1, <1>2 DEF TransferInv, Packed, ExportFaithful
  <2> QED
    BY <1>1, <1>2, <2>1, WhileExporting DEF T!Open, Early
<1>3. CASE archive' = Append(archive, Head(T!Rest))
  <2>1. Head(T!Rest) = snapshot[Len(archive) + 1] /\ snapshot[Len(archive) + 1] \in Entries
    BY <1>1, HeadTailOfSubSeq DEF T!Rest
  <2>2. /\ archive' \in Seq(Entries) /\ Len(archive') = Len(archive) + 1
        /\ archive'[Len(archive) + 1] = snapshot[Len(archive) + 1]
        /\ \A i \in 1..Len(archive) : archive'[i] = archive[i]
    BY <1>1, <1>3, <2>1
  <2>3. \A i \in 1..Len(archive') : archive'[i] = snapshot[i]
    BY <1>1, <2>2 DEF TransferInv, Packed
  <2>4. Packed'
    BY <1>1, <2>2, <2>3 DEF TransferInv, Packed, ExportFaithful
  <2> QED
    BY <1>1, <2>2, <2>4, WhileExporting DEF T!Open, Early
<1> QED
  BY <1>2, <1>3 DEF T!Open

LEMMA ExportedStep == ASSUME TransferInv, T!Exported PROVE TransferInv'
<1>1. /\ pc = "stat" /\ pc' = "exported" /\ UNCHANGED <<job, T!export>> /\ T!Rest = << >>
  BY DEF T!Exported
<1>2. snapshot \in Seq(Entries) /\ archive \in Seq(Entries)
  BY DEF TransferInv, Types
<1>3. Len(archive) = Len(snapshot)
  <2>1. Len(archive) <= Len(snapshot) /\ Len(archive) \in Nat /\ Len(snapshot) \in Nat
    BY <1>2 DEF TransferInv, Packed
  <2>2. Len(T!Rest) = IF Len(archive) + 1 <= Len(snapshot) THEN Len(snapshot) - Len(archive) ELSE 0
    BY <1>2, <2>1 DEF T!Rest
  <2> QED
    BY <1>1, <2>1, <2>2
<1>4. archive = snapshot
  BY <1>2, <1>3, SeqEqual DEF TransferInv, Packed
<1>5. Packed'
  BY <1>1, <1>4 DEF TransferInv, Packed, ExportFaithful, T!export
<1> QED
  BY <1>1, <1>2, <1>5, WhileExporting DEF T!Exported, Early, T!export

-----------------------------------------------------------------------------
(* The queue of an import or a copy.                                       *)

\* Everything is still to be written.
LEMMA BeginStep ==
  ASSUME TransferInv, pc \in Early, NEW files, files \in Seq(File), Agree(files), T!Begin(files)
  PROVE  TransferInv'
<1>1. /\ sent = {} /\ missing = << >> /\ batch = << >> /\ later = << >>
      /\ uploads = [h \in Hashes |-> 0]
  <2>1. sent = {} /\ uploads = [h \in Hashes |-> 0] /\ Sources = {}
    BY EmptyFiles DEF TransferInv, Places, Sources
  <2>2. batch \in Seq(Sources) /\ missing \in Seq(Sources) /\ later \in Seq(Sources)
    BY DEF TransferInv, Types
  <2> QED
    BY <2>1, <2>2
<1>0. /\ source' = files /\ todo' = files /\ batch' = << >> /\ missing' = << >> /\ later' = << >>
  BY <1>1 DEF T!Begin
<1>2. Sources' = Files(files) /\ Pending' = Files(files) /\ Files(missing) = {}
  <2>1. Sources' = Files(files)
    BY <1>0 DEF Sources
  <2>2. Pending' = Files(files) \cup Files(<< >>)
    BY <1>0, Zenon DEF Pending
  <2> QED
    BY <1>1, <2>1, <2>2, EmptyFiles
<1>3. Types'
  <2>1. files \in Seq(Files(files))
    BY TypedFiles
  <2> QED
    BY <1>1, <1>2, <2>1, EmptyFiles
    DEF TransferInv, Types, TransferTypeOK, T!Begin, T!server, T!export, T!result, Running
<1>4. Places'
  BY <1>1 DEF Places, T!Begin, Early
<1>5. Packed'
  BY DEF TransferInv, Packed, ExportFaithful, T!Begin, T!export
<1>6. Ours'
  BY DEF Ours, T!Begin, Agree, T!server
<1>7. Handled' /\ Unsent' /\ SentStored'
  BY <1>1, <1>2 DEF Handled, Unsent, SentStored, T!Begin, T!server
<1>8. SentOnce'
  BY <1>1, <1>2 DEF TransferInv, Types, SentOnce, T!Begin, T!result
<1> QED
  BY <1>3, <1>4, <1>5, <1>6, <1>7, <1>8 DEF TransferInv

\* The files of the archive are those of the snapshot, of which each path is
\* listed with one content.
LEMMA ContentsTyped ==
  ASSUME TransferInv
  PROVE  T!Contents \in Seq(File) /\ Agree(T!Contents)
<1> DEFINE F == {d \in File : \E x \in Files(snapshot) : d.path \in x.paths /\ d.hash = x.hash}
<1>1. snapshot \in Seq(Entries) /\ archive \in Seq(Entries)
  BY DEF TransferInv, Types
<1>2. ASSUME NEW i \in 1..Len(archive) PROVE T!FilesIn(archive[i]) \in Seq(F)
  <2>1. PICK x : x = archive[i]
    OBVIOUS
  <2>2. x \in Entries /\ x \in Files(snapshot)
    BY <1>1, <2>1 DEF TransferInv, Packed, Files
  <2>3. PICK S : S = {[path |-> f, hash |-> x.hash] : f \in x.paths}
    OBVIOUS
  <2>4. S \subseteq F
    BY <2>2, <2>3 DEF Entries, File
  <2>5. IsFiniteSet(S)
    <3> DEFINE g == [f \in x.paths |-> [path |-> f, hash |-> x.hash]]
    <3>1. IsFiniteSet(x.paths)
      BY <2>2, FS_Subset, TransferAssumption DEF Entries
    <3>2. g \in Surjection(x.paths, S)
      BY <2>3 DEF Surjection
    <3> QED
      BY <3>1, <3>2, FS_Surjection
  <2>6. T!SetToSeq(S) \in Seq(S)
    BY <2>5, SeqOfSet
  <2>7. T!SetToSeq(S) \in Seq(F)
    BY <2>4, <2>6, SeqMonotonic
  <2> QED
    BY <2>1, <2>3, <2>7 DEF T!FilesIn
<1>3. T!Contents \in Seq(F)
  BY <1>1, <1>2, Packing
<1>4. Files(T!Contents) \subseteq F /\ T!Contents \in Seq(File)
  BY <1>3, TypedFiles
<1>5. ASSUME NEW d \in F, NEW e \in F, d.path = e.path PROVE d.hash = e.hash
  BY <1>5 DEF TransferInv, Packed
<1> QED
  BY <1>4, <1>5 DEF Agree

LEMMA LocalsTyped ==
  ASSUME NEW files \in Locals
  PROVE  files \in Seq(File) /\ Agree(files)
  BY TransferAssumption DEF Consistent, Agree, Files

LEMMA ScanStep == ASSUME TransferInv, T!Scan PROVE TransferInv'
  BY ContentsTyped, BeginStep DEF T!Scan, Early

LEMMA CrawlStep == ASSUME TransferInv, T!Crawl PROVE TransferInv'
<1>1. PICK files \in Locals : T!Begin(files)
  BY DEF T!Crawl
<1> QED
  BY <1>1, LocalsTyped, BeginStep DEF T!Crawl, Early

\* Steps that move files from one part of the queue to the next.
LEMMA WhileQueueing ==
  ASSUME TransferInv, pc \in Running, pc' \in Running,
         UNCHANGED <<T!server, job, T!export, source, T!result, before, T!others>>,
         following' \in BOOLEAN,
         {todo', batch', missing', later'} \subseteq Seq(Sources),
         Pending' = Pending,
         Files(missing') = Files(missing),
         sent' = sent \/ (sent' = {} /\ Files(missing) = {}),
         Places'
  PROVE  TransferInv'
<1>1. Sources' = Sources /\ sent' \subseteq sent
  BY DEF Sources
<1>2. Types'
  <2>1. {todo', batch', missing', later'} \subseteq Seq(File)
    <3>1. source \in Seq(File)
      BY DEF TransferInv, Types, TransferTypeOK
    <3>2. Sources \subseteq File
      BY <3>1, TypedFiles DEF Sources
    <3> QED
      BY <3>2, SeqMonotonic
  <2> QED
    BY <1>1, <2>1 DEF TransferInv, Types, TransferTypeOK, T!server, T!export, T!result, T!others
<1>3. Packed'
  BY DEF TransferInv, Packed, ExportFaithful, T!export, Running
<1>4. Ours'
  BY <1>1 DEF TransferInv, Ours, Agree, T!server, T!others
<1>5. Handled'
  BY <1>1 DEF TransferInv, Handled, Good, Replaces, Unnoticed, T!server, T!result, T!others
<1>6. Unsent'
  BY DEF TransferInv, Unsent, T!server, T!others
<1>7. SentStored'
  BY <1>1 DEF TransferInv, SentStored, T!server, T!result, T!others
<1>8. SentOnce'
  BY DEF TransferInv, SentOnce, T!server, T!result, T!others
<1> QED
  BY <1>2, <1>3, <1>4, <1>5, <1>6, <1>7, <1>8 DEF TransferInv

LEMMA NextBatchStep == ASSUME TransferInv, T!NextBatch PROVE TransferInv'
<1>0. /\ {todo, batch, missing, later} \subseteq Seq(Sources) /\ pc = "batch"
      /\ batch = << >> /\ missing = << >>
  BY DEF TransferInv, Types, Places, T!NextBatch
<1>1. PICK n : n = IF Len(todo) < BatchSize THEN Len(todo) ELSE BatchSize
  OBVIOUS
<1>2. n \in 0..Len(todo)
  BY <1>0, <1>1, TransferAssumption
<1>3. batch' = SubSeq(todo, 1, n) /\ todo' = SubSeq(todo, n + 1, Len(todo))
  BY <1>1 DEF T!NextBatch
<1>4. /\ batch' \in Seq(Sources) /\ todo' \in Seq(Sources)
      /\ Files(todo) = Files(batch') \cup Files(todo')
  BY <1>0, <1>2, <1>3, SplitFiles
<1>5. Pending' = Pending
  BY <1>0, <1>4, EmptyFiles DEF Pending, T!NextBatch
<1>6. Places'
  BY DEF Places, T!NextBatch, Early
<1> QED
  BY <1>0, <1>4, <1>5, <1>6, EmptyFiles, WhileQueueing DEF T!NextBatch, Running, TransferInv, Types

LEMMA FollowUpStep == ASSUME TransferInv, T!FollowUp PROVE TransferInv'
<1>0. {todo, batch, missing, later} \subseteq Seq(Sources) /\ pc = "batch"
  BY DEF TransferInv, Types, T!FollowUp
<1>1. Pending' = Pending
  BY EmptyFiles DEF Pending, T!FollowUp
<1>2. Places'
  BY DEF TransferInv, Places, T!FollowUp, Early
<1> QED
  BY <1>0, <1>1, <1>2, EmptyFiles, WhileQueueing DEF T!FollowUp, Running, TransferInv, Types

LEMMA FinishStep == ASSUME TransferInv, T!Finish PROVE TransferInv'
<1>0. {todo, batch, missing, later} \subseteq Seq(Sources) /\ following \in BOOLEAN
  BY DEF TransferInv, Types
<1>1. Pending' = Pending
  BY DEF Pending, T!Finish, T!queue
<1>2. Pending = {}
  BY EmptyFiles DEF TransferInv, Places, Pending, T!Finish
<1>3. Places'
  BY <1>1, <1>2 DEF Places, T!Finish, Early
<1> QED
  BY <1>0, <1>1, <1>3, WhileQueueing DEF T!Finish, Running, T!queue

LEMMA SentStep == ASSUME TransferInv, T!Sent PROVE TransferInv'
<1>0. {todo, batch, missing, later} \subseteq Seq(Sources) /\ following \in BOOLEAN
  BY DEF TransferInv, Types
<1>1. Pending' = Pending
  BY DEF Pending, T!Sent, T!queue
<1>2. Places'
  BY DEF TransferInv, Places, T!Sent, Early, T!queue
<1> QED
  BY <1>0, <1>1, <1>2, WhileQueueing DEF T!Sent, Running, T!queue

-----------------------------------------------------------------------------
(* The files that are written.                                             *)

\* A path that is there, and is not to be replaced, is as it should be.
LEMMA DuplicateGood ==
  ASSUME TransferInv, NEW d \in Sources, NEW r \in BOOLEAN, T!Duplicate(d, r), Replaces => r
  PROVE  d.path \in touched \/ Good(d)
<1>1. d \in File
  <2>1. source \in Seq(File)
    BY DEF TransferInv, Types, TransferTypeOK
  <2> QED
    BY <2>1, TypedFiles DEF Sources
<1>2. d.path \in Paths /\ rows[d.path] # Absent /\ ~Replaces
  BY <1>1 DEF T!Duplicate, File
<1>3. \A e \in Sources : e.path = d.path => e.hash = d.hash
  BY DEF TransferInv, Ours, Agree, Sources
<1> QED
  BY <1>2, <1>3 DEF TransferInv, Ours, Good

\* A file that is written keeps every other as good as it was.
LEMMA PutGood ==
  ASSUME TransferInv, NEW d \in Sources, rows' = [rows EXCEPT ![d.path] = d.hash],
         UNCHANGED <<job, source, before, touched>>
  PROVE  Ours' /\ Good(d)' /\ \A e \in Sources : Good(e) => Good(e)'
<1>1. Sources \subseteq File
  <2>1. source \in Seq(File)
    BY DEF TransferInv, Types, TransferTypeOK
  <2> QED
    BY <2>1, TypedFiles DEF Sources
<1>2. rows \in [Paths -> Hashes \cup {Absent}] /\ d.path \in Paths
  BY <1>1 DEF TransferInv, Types, TransferTypeOK, File
<1>3. rows'[d.path] = d.hash /\ \A f \in Paths : f # d.path => rows'[f] = rows[f]
  BY <1>2
<1>4. \A e \in Sources : e.path = d.path => e.hash = d.hash
  BY DEF TransferInv, Ours, Agree, Sources
<1>5. \A e \in Sources : e.path \in Paths
  BY <1>1 DEF File
<1>6. Replaces' = Replaces /\ Sources' = Sources
  BY DEF Replaces, Sources
<1>7. Ours'
  <2>1. Agree(source)'
    BY DEF TransferInv, Ours, Agree
  <2>2. ASSUME NEW f \in Paths \ touched
        PROVE  rows'[f] = before[f] \/ \E e \in Sources : e.path = f /\ rows'[f] = e.hash
    BY <1>3 DEF TransferInv, Ours
  <2> QED
    BY <1>6, <2>1, <2>2 DEF Ours
<1>8. ASSUME NEW e \in Sources, Good(e) PROVE Good(e)'
  <2>1. CASE e.path = d.path
    BY <1>3, <1>4, <2>1 DEF Good
  <2>2. CASE e.path # d.path
    BY <1>3, <1>5, <1>6, <1>8, <2>2 DEF Good
  <2> QED
    BY <2>1, <2>2
<1> QED
  BY <1>3, <1>7, <1>8 DEF Good

\* The next file is dealt with, and the others are as they were.
LEMMA NextHandled ==
  ASSUME Handled, NEW d \in Sources, UNCHANGED source, Unnoticed => Unnoticed',
         Pending \subseteq Pending' \cup {d},
         \A e \in Sources : Good(e) => Good(e)',
         touched \cup failed \cup reported \subseteq touched' \cup failed' \cup reported',
         ~Unnoticed' => d \in Pending' \/ d.path \in touched' \cup failed' \cup reported' \/ Good(d)'
  PROVE  Handled'
<1>1. Sources' = Sources
  BY DEF Sources
<1>2. SUFFICES ASSUME ~Unnoticed', NEW e \in Sources
               PROVE  e \in Pending' \/ e.path \in touched' \cup failed' \cup reported' \/ Good(e)'
  BY <1>1 DEF Handled
<1>3. CASE e = d
  BY <1>2, <1>3
<1>4. CASE e # d
  BY <1>2, <1>4 DEF Handled
<1> QED
  BY <1>3, <1>4

LEMMA SyncFileStep == ASSUME TransferInv, T!SyncFile PROVE TransferInv'
<1>0. /\ pc = "sync" /\ pc' = "sync" /\ batch # << >> /\ sent = {} /\ batch' = Tail(batch)
      /\ UNCHANGED <<blobs, job, T!export, source, todo, sent, later, following, reported, uploads,
                     before, T!others>>
  BY DEF TransferInv, Places, T!SyncFile
<1>1. PICK d : d = Head(batch)
  OBVIOUS
<1>2. {todo, batch, missing, later} \subseteq Seq(Sources)
  BY DEF TransferInv, Types
<1>3. d \in Sources /\ batch' \in Seq(Sources) /\ Files(batch) = {d} \cup Files(batch')
  BY <1>0, <1>1, <1>2, TailFiles
<1>4. Sources \subseteq File
  <2>1. source \in Seq(File)
    BY DEF TransferInv, Types, TransferTypeOK
  <2> QED
    BY <2>1, TypedFiles DEF Sources
<1>5. d.path \in Paths /\ d.hash \in Hashes
  BY <1>3, <1>4 DEF File
<1>6. Sources' = Sources /\ Replaces' = Replaces
  BY <1>0 DEF Sources, Replaces
<1>7. Places' /\ Packed'
  BY <1>0 DEF TransferInv, Places, Packed, ExportFaithful, Early, T!export
<1>8. SUFFICES /\ rows' \in [Paths -> Hashes \cup {Absent}] /\ missing' \in Seq(Sources)
               /\ failed' \subseteq Paths
               /\ \A f \in Paths : rows'[f] = Absent \/ rows'[f] \in blobs
               /\ Ours' /\ Handled' /\ Unsent' /\ failed \subseteq failed'
               /\ \A e \in Files(missing') : e \in Files(missing) \/ e.hash \notin blobs
  <2>1. Types'
    <3>1. {todo', batch', missing', later'} \subseteq Seq(File)
      BY <1>0, <1>2, <1>3, <1>4, <1>8, SeqMonotonic
    <3> QED
      BY <1>0, <1>2, <1>3, <1>6, <1>8, <3>1
      DEF TransferInv, Types, TransferTypeOK, T!export, T!others
  <2>2. SentStored'
    BY <1>0, <1>8 DEF SentStored
  <2>3. SentOnce'
    <3>1. \A e \in Files(missing') : e.hash \in Hashes
      BY <1>4, <1>8, TypedFiles DEF File
    <3> QED
      BY <1>0, <1>8, <3>1 DEF TransferInv, SentOnce, T!others
  <2> QED
    BY <1>7, <1>8, <2>1, <2>2, <2>3 DEF TransferInv
<1>9. /\ rows \in [Paths -> Hashes \cup {Absent}] /\ failed \subseteq Paths
      /\ \A f \in Paths : rows[f] = Absent \/ rows[f] \in blobs
  BY DEF TransferInv, Types, TransferTypeOK
<1>10. ASSUME UNCHANGED rows PROVE Ours' /\ \A e \in Sources : Good(e) => Good(e)'
  BY <1>0, <1>6, <1>10 DEF TransferInv, Ours, Agree, Good, T!others
<1>11. ASSUME failed \subseteq failed' PROVE Unnoticed => Unnoticed'
  BY <1>0, <1>11 DEF Unnoticed, T!others
<1>12. CASE T!Duplicate(d, Replaces) /\ UNCHANGED <<rows, missing, failed, mishaps>>
  <2>1. Pending \subseteq Pending' \cup {d}
    BY <1>0, <1>3, <1>12 DEF Pending
  <2>2. d.path \in touched \/ Good(d)
    BY <1>3, <1>12, DuplicateGood DEF Replaces, TransferInv, Types, Job
  <2>3. Handled'
    BY <1>0, <1>3, <1>10, <1>11, <1>12, <2>1, <2>2, NextHandled DEF TransferInv, T!others
  <2>4. Unsent'
    BY <1>0, <1>12 DEF TransferInv, Unsent, T!others
  <2> QED
    BY <1>2, <1>9, <1>10, <1>12, <2>3, <2>4
<1>13. CASE /\ ~T!Duplicate(d, Replaces) /\ ~T!Known(d.hash)
            /\ missing' = Append(missing, d) /\ UNCHANGED <<rows, failed, mishaps>>
  <2>1. missing' \in Seq(Sources) /\ Files(missing') = Files(missing) \cup {d}
    BY <1>2, <1>3, <1>13, AppendFiles
  <2>2. Pending \subseteq Pending' \cup {d} /\ d \in Pending'
    BY <1>0, <1>3, <1>13, <2>1 DEF Pending
  <2>3. Handled'
    BY <1>0, <1>3, <1>10, <1>11, <1>13, <2>2, NextHandled DEF TransferInv, T!others
  <2>4. Unsent'
    <3>1. d.hash \notin blobs /\ (job.overwrite \/ rows[d.path] = Absent)
      BY <1>13 DEF T!Known, T!Duplicate, Replaces
    <3> QED
      BY <1>0, <1>13, <2>1, <3>1 DEF TransferInv, Unsent, T!others
  <2> QED
    BY <1>9, <1>10, <1>13, <2>1, <2>3, <2>4 DEF T!Known
<1>14. CASE /\ ~T!Duplicate(d, Replaces) /\ T!Known(d.hash)
            /\ rows' = [rows EXCEPT ![d.path] = d.hash] /\ UNCHANGED <<missing, failed, mishaps>>
  <2>1. Pending \subseteq Pending' \cup {d}
    BY <1>0, <1>3, <1>14 DEF Pending
  <2>2. Ours' /\ Good(d)' /\ \A e \in Sources : Good(e) => Good(e)'
    BY <1>0, <1>3, <1>14, PutGood DEF T!others
  <2>3. Handled'
    BY <1>0, <1>3, <1>11, <1>14, <2>1, <2>2, NextHandled DEF TransferInv, T!others
  <2>4. Unsent'
    <3> SUFFICES ASSUME job.op = "import", touched = {}, NEW e \in Files(missing)
                 PROVE  e.hash \notin blobs /\ (job.overwrite \/ rows'[e.path] = Absent)
      BY <1>0, <1>14 DEF Unsent, T!others
    <3>1. e.hash \notin blobs /\ (job.overwrite \/ rows[e.path] = Absent)
      BY <1>0 DEF TransferInv, Unsent
    <3>2. e \in Sources
      BY <1>2, TypedFiles
    <3>3. e.path # d.path
      BY <1>3, <1>14, <3>1, <3>2 DEF TransferInv, Ours, Agree, Sources, T!Known
    <3> QED
      BY <1>9, <1>5, <1>14, <3>1, <3>3
  <2>5. /\ rows' \in [Paths -> Hashes \cup {Absent}]
        /\ \A f \in Paths : rows'[f] = Absent \/ rows'[f] \in blobs
    BY <1>5, <1>9, <1>14 DEF T!Known
  <2> QED
    BY <1>2, <1>9, <1>14, <2>2, <2>3, <2>4, <2>5
<1>15. CASE T!Mishap /\ failed' = failed \cup {d.path} /\ UNCHANGED <<rows, missing>>
  <2>1. Pending \subseteq Pending' \cup {d}
    BY <1>0, <1>3, <1>15 DEF Pending
  <2>2. Handled'
    BY <1>0, <1>3, <1>10, <1>11, <1>15, <2>1, NextHandled DEF TransferInv, T!others
  <2>3. Unsent'
    BY <1>0, <1>15 DEF TransferInv, Unsent, T!others
  <2> QED
    BY <1>2, <1>5, <1>9, <1>10, <1>15, <2>2, <2>3
<1> QED
  BY <1>1, <1>12, <1>13, <1>14, <1>15 DEF T!SyncFile, T!Replaces, Replaces

LEMMA SyncedStep == ASSUME TransferInv, T!Synced PROVE TransferInv'
<1>0. /\ pc = "sync" /\ batch = << >> /\ sent = {}
      /\ UNCHANGED <<T!server, job, T!export, source, todo, batch, sent, later, following, failed, uploads,
                     before, T!others>>
  BY DEF TransferInv, Places, T!Synced
<1>1. {todo, batch, missing, later} \subseteq Seq(Sources) /\ following \in BOOLEAN
  BY DEF TransferInv, Types
<1>2. CASE ~following
  <2>1. pc' = "send" /\ UNCHANGED <<reported, missing>>
    BY <1>2 DEF T!Synced
  <2>2. Places' /\ Pending' = Pending
    BY <1>0, <2>1 DEF Places, Pending, Early
  <2> QED
    BY <1>0, <1>1, <2>1, <2>2, WhileQueueing DEF Running, T!result, T!Synced
<1>3. CASE following
  <2>1. /\ reported' = reported \cup {missing[i].path : i \in 1..Len(missing)}
        /\ missing' = << >> /\ pc' = "batch"
    BY <1>3 DEF T!Synced
  <2>2. reported' = reported \cup {e.path : e \in Files(missing)}
    BY <2>1 DEF Files
  <2>3. Sources \subseteq File /\ Sources' = Sources /\ Files(missing) \subseteq Sources
    <3>1. source \in Seq(File)
      BY DEF TransferInv, Types, TransferTypeOK
    <3> QED
      BY <1>0, <1>1, <3>1, TypedFiles DEF Sources
  <2>4. Types'
    <3>1. reported' \subseteq Paths
      BY <2>2, <2>3 DEF File, TransferInv, Types, TransferTypeOK
    <3> QED
      BY <1>0, <2>1, <2>3, <3>1, EmptyFiles
      DEF TransferInv, Types, TransferTypeOK, Running, T!server, T!export, T!others
  <2>5. Places'
    BY <1>0, <2>1 DEF Places, Early
  <2>6. Packed' /\ Ours' /\ SentStored'
    BY <1>0, <2>1, <2>3
    DEF TransferInv, Packed, ExportFaithful, Ours, Agree, SentStored, T!server, T!export, T!others
  <2>7. Handled'
    <3> SUFFICES ASSUME ~Unnoticed, NEW d \in Sources
                 PROVE  d \in Pending' \/ d.path \in touched \cup failed \cup reported' \/ Good(d)
      BY <1>0, <2>3 DEF Handled, Good, Replaces, Unnoticed, T!server, T!others
    <3>1. CASE d \in Files(missing)
      BY <2>2, <3>1
    <3>2. CASE d \notin Files(missing)
      <4>1. d \in Pending => d \in Pending'
        BY <1>0, <3>2 DEF Pending
      <4> QED
        BY <2>2, <4>1 DEF TransferInv, Handled
    <3> QED
      BY <3>1, <3>2
  <2>8. Unsent' /\ SentOnce'
    BY <1>0, <2>1, EmptyFiles DEF TransferInv, Unsent, SentOnce, Running, T!server, T!others
  <2> QED
    BY <2>4, <2>5, <2>6, <2>7, <2>8 DEF TransferInv
<1> QED
  BY <1>1, <1>2, <1>3

-----------------------------------------------------------------------------
(* The contents that are sent.                                             *)

LEMMA SendFileStep == ASSUME TransferInv, T!SendFile PROVE TransferInv'
<1>0. /\ pc = "send" /\ missing # << >> /\ missing' = Tail(missing) /\ batch = << >>
      /\ UNCHANGED <<job, pc, T!export, source, todo, batch, following, before, T!others>>
  BY DEF TransferInv, Places, T!SendFile
<1>1. PICK d : d = Head(missing)
  OBVIOUS
<1>2. {todo, batch, missing, later} \subseteq Seq(Sources)
  BY DEF TransferInv, Types
<1>3. d \in Sources /\ missing' \in Seq(Sources) /\ Files(missing) = {d} \cup Files(missing')
  BY <1>0, <1>1, <1>2, TailFiles
<1>4. Sources \subseteq File
  <2>1. source \in Seq(File)
    BY DEF TransferInv, Types, TransferTypeOK
  <2> QED
    BY <2>1, TypedFiles DEF Sources
<1>5. d.path \in Paths /\ d.hash \in Hashes /\ Files(missing) \subseteq Sources
  BY <1>2, <1>3, <1>4, TypedFiles DEF File
<1>6. Sources' = Sources /\ Replaces' = Replaces /\ job \in Job
  BY <1>0 DEF Sources, Replaces, TransferInv, Types
<1>7. Places' /\ Packed'
  BY <1>0 DEF TransferInv, Places, Packed, ExportFaithful, Early, T!export
<1>8. /\ rows \in [Paths -> Hashes \cup {Absent}] /\ failed \subseteq Paths /\ reported \subseteq Paths
      /\ \A f \in Paths : rows[f] = Absent \/ rows[f] \in blobs
      /\ blobs \subseteq Hashes /\ sent \subseteq Hashes /\ uploads \in [Hashes -> Nat]
  BY DEF TransferInv, Types, TransferTypeOK
<1>9. SUFFICES /\ rows' \in [Paths -> Hashes \cup {Absent}] /\ blobs' \subseteq Hashes
               /\ \A f \in Paths : rows'[f] = Absent \/ rows'[f] \in blobs'
               /\ later' \in Seq(Sources) /\ sent' \subseteq Hashes
               /\ failed' \subseteq Paths /\ reported' \subseteq Paths /\ uploads' \in [Hashes -> Nat]
               /\ Ours' /\ Handled' /\ Unsent' /\ SentStored' /\ SentOnce'
  <2>1. Types'
    <3>1. {todo', batch', missing', later'} \subseteq Seq(File)
      BY <1>0, <1>2, <1>3, <1>4, <1>9, SeqMonotonic
    <3> QED
      BY <1>0, <1>2, <1>3, <1>6, <1>9, <3>1
      DEF TransferInv, Types, TransferTypeOK, T!export, T!others
  <2> QED
    BY <1>7, <1>9, <2>1 DEF TransferInv
<1>10. ASSUME UNCHANGED rows PROVE Ours' /\ \A e \in Sources : Good(e) => Good(e)'
  BY <1>0, <1>6, <1>10 DEF TransferInv, Ours, Agree, Good, T!others
<1>11. ASSUME failed \subseteq failed' PROVE Unnoticed => Unnoticed'
  BY <1>0, <1>11 DEF Unnoticed, T!others
<1>12. CASE /\ job.op = "cp" \/ ~T!AlreadySent(d.hash)
            /\ T!Send(d) /\ sent' = sent \cup {d.hash} /\ UNCHANGED later
  <2>0. later' \in Seq(Sources) /\ sent' \subseteq Hashes /\ Pending \subseteq Pending' \cup {d}
    BY <1>0, <1>2, <1>3, <1>5, <1>8, <1>12 DEF Pending
  <2>2. CASE /\ T!Duplicate(d, job.overwrite) /\ T!Report(d)
             /\ UNCHANGED <<T!server, failed, uploads, mishaps>>
    <3>1. reported' \subseteq Paths /\ reported \subseteq reported'
      BY <1>5, <1>8, <2>2 DEF T!Report
    <3>2. d.path \in touched \/ Good(d)
      BY <1>3, <1>6, <2>2, DuplicateGood DEF Replaces, Job
    <3>3. Ours' /\ \A e \in Sources : Good(e) => Good(e)'
      BY <1>10, <2>2 DEF T!server
    <3>4. Handled'
      BY <1>0, <1>3, <1>11, <2>0, <2>2, <3>1, <3>2, <3>3, NextHandled DEF TransferInv, T!others
    <3>5. Unsent'
      BY <1>0, <1>3, <1>12, <2>2 DEF TransferInv, Unsent, T!server, T!others
    <3>6. SentStored'
      <4> SUFFICES ASSUME job.op = "import", job.mode = "pg", touched = {}, failed = {} PROVE FALSE
        BY <1>0, <2>2 DEF SentStored, T!server, T!others
      <4>1. job.overwrite \/ rows[d.path] = Absent
        BY <1>3, <1>12 DEF TransferInv, Unsent, T!AlreadySent
      <4> QED
        BY <2>2, <4>1 DEF T!Duplicate
    <3>7. SentOnce'
      BY <1>0, <1>3, <1>12, <2>2 DEF TransferInv, SentOnce, T!server, T!others
    <3> QED
      BY <1>8, <2>0, <2>2, <3>1, <3>3, <3>4, <3>5, <3>6, <3>7 DEF T!server
  <2>3. CASE /\ ~T!Duplicate(d, job.overwrite)
             /\ rows' = [rows EXCEPT ![d.path] = d.hash] /\ blobs' = blobs \cup {d.hash}
             /\ uploads' = [uploads EXCEPT ![d.hash] = @ + 1]
             /\ UNCHANGED <<reported, failed, mishaps>>
    <3>1. /\ rows' \in [Paths -> Hashes \cup {Absent}] /\ blobs' \subseteq Hashes
          /\ \A f \in Paths : rows'[f] = Absent \/ rows'[f] \in blobs'
          /\ uploads' \in [Hashes -> Nat]
      BY <1>5, <1>8, <2>3
    <3>2. Ours' /\ Good(d)' /\ \A e \in Sources : Good(e) => Good(e)'
      BY <1>0, <1>3, <2>3, PutGood DEF T!others
    <3>3. Handled'
      BY <1>0, <1>3, <1>11, <2>0, <2>3, <3>2, NextHandled DEF TransferInv, T!others
    <3>4. Unsent'
      <4> SUFFICES ASSUME job.op = "import", touched = {}, NEW e \in Files(missing')
                   PROVE  \/ e.hash \in sent'
                          \/ e.hash \notin blobs' /\ (job.overwrite \/ rows'[e.path] = Absent)
        BY <1>0 DEF Unsent, T!others
      <4>1. e \in Sources /\ e.path \in Paths
        BY <1>3, <1>4, <1>5 DEF File
      <4>2. e.hash \in sent \/ (e.hash \notin blobs /\ (job.overwrite \/ rows[e.path] = Absent))
        BY <1>3 DEF TransferInv, Unsent
      <4>3. e.path = d.path => e.hash = d.hash
        BY <1>3, <4>1 DEF TransferInv, Ours, Agree, Sources
      <4> QED
        BY <1>5, <1>8, <1>12, <2>3, <4>1, <4>2, <4>3
    <3>5. SentStored'
      BY <1>0, <1>12, <2>3 DEF TransferInv, SentStored, T!others
    <3>6. SentOnce'
      <4> SUFFICES ASSUME job.op = "import", lost = {}
                   PROVE  /\ \A h \in Hashes : uploads'[h] = 0 \/ (uploads'[h] = 1 /\ h \in blobs')
                          /\ \A e \in Files(missing') : uploads'[e.hash] = 0 \/ e.hash \in sent'
        BY <1>0 DEF SentOnce, T!others
      <4>1. /\ \A h \in Hashes : uploads[h] = 0 \/ (uploads[h] = 1 /\ h \in blobs)
            /\ \A e \in Files(missing) : uploads[e.hash] = 0 \/ e.hash \in sent
        BY <1>0 DEF TransferInv, SentOnce, Running
      <4>2. uploads[d.hash] = 0
        BY <1>3, <1>12, <4>1 DEF T!AlreadySent
      <4>3. /\ uploads'[d.hash] = 1 /\ \A h \in Hashes : h # d.hash => uploads'[h] = uploads[h]
        BY <1>5, <1>8, <2>3, <4>2
      <4>4. \A e \in Files(missing) : e.hash \in Hashes
        BY <1>4, <1>5 DEF File
      <4> QED
        BY <1>3, <1>12, <2>3, <4>1, <4>3, <4>4
    <3> QED
      BY <1>8, <2>0, <2>3, <3>1, <3>2, <3>3, <3>4, <3>5, <3>6
  <2>4. CASE /\ T!Mishap /\ failed' = failed \cup {d.path} /\ T!Report(d)
             /\ UNCHANGED <<T!server, uploads>>
    <3>1. reported' \subseteq Paths /\ reported \subseteq reported' /\ failed' \subseteq Paths
      BY <1>5, <1>8, <2>4 DEF T!Report
    <3>2. Ours' /\ \A e \in Sources : Good(e) => Good(e)'
      BY <1>10, <2>4 DEF T!server
    <3>3. Handled'
      BY <1>0, <1>3, <1>11, <2>0, <2>4, <3>1, <3>2, NextHandled DEF TransferInv, T!others
    <3>4. Unsent'
      BY <1>0, <1>3, <1>12, <2>4 DEF TransferInv, Unsent, T!server, T!others
    <3>5. SentStored'
      BY <2>4 DEF SentStored
    <3>6. SentOnce'
      BY <1>0, <1>3, <1>12, <2>4 DEF TransferInv, SentOnce, T!server, T!others
    <3> QED
      BY <1>8, <2>0, <2>4, <3>1, <3>2, <3>3, <3>4, <3>5, <3>6 DEF T!server
  <2> QED
    BY <1>12, <2>2, <2>3, <2>4 DEF T!Send
<1>13. CASE /\ job.op = "import" /\ T!AlreadySent(d.hash) /\ job.mode = "http"
            /\ later' = Append(later, d) /\ UNCHANGED <<T!server, T!result, sent, mishaps>>
  <2>1. later' \in Seq(Sources) /\ Files(later') = Files(later) \cup {d}
    BY <1>2, <1>3, <1>13, AppendFiles
  <2>2. Pending' = Pending
    BY <1>0, <1>3, <2>1 DEF Pending
  <2>3. Ours' /\ \A e \in Sources : Good(e) => Good(e)'
    BY <1>10, <1>13 DEF T!server
  <2>4. Handled'
    BY <1>0, <1>6, <1>13, <2>2
    DEF TransferInv, Handled, Good, Unnoticed, T!server, T!result, T!others
  <2>5. Unsent' /\ SentStored' /\ SentOnce'
    BY <1>0, <1>3, <1>13 DEF TransferInv, Unsent, SentStored, SentOnce, T!server, T!result, T!others
  <2> QED
    BY <1>8, <1>13, <2>1, <2>3, <2>4, <2>5 DEF T!server, T!result
<1>14. CASE /\ job.op = "import" /\ T!AlreadySent(d.hash) /\ job.mode = "pg"
            /\ T!Link(d) /\ UNCHANGED <<sent, later>>
  <2>0. /\ UNCHANGED <<blobs, T!result, mishaps, sent, later>> /\ d.hash \in sent
        /\ Pending \subseteq Pending' \cup {d}
    BY <1>0, <1>3, <1>14 DEF T!Link, T!AlreadySent, Pending
  <2>1. SentStored' /\ SentOnce'
    BY <1>0, <1>3, <2>0 DEF TransferInv, SentStored, SentOnce, T!result, T!others
  <2>2. CASE (T!Duplicate(d, job.overwrite) \/ ~T!Known(d.hash)) /\ UNCHANGED rows
    <3>1. ~Unnoticed => d.path \in touched \/ Good(d)
      <4>1. CASE T!Duplicate(d, job.overwrite)
        BY <1>3, <1>6, <4>1, DuplicateGood DEF Replaces, Job
      <4>2. CASE ~T!Known(d.hash)
        BY <1>14, <2>0, <4>2 DEF T!Known, Unnoticed, TransferInv, SentStored
      <4> QED
        BY <2>2, <4>1, <4>2
    <3>2. Ours' /\ \A e \in Sources : Good(e) => Good(e)'
      BY <1>10, <2>2
    <3>3. Unnoticed' = Unnoticed
      BY <1>0, <2>0 DEF Unnoticed, T!result, T!others
    <3>4. Handled'
      BY <1>0, <1>3, <2>0, <3>1, <3>2, <3>3, NextHandled DEF TransferInv, T!result, T!others
    <3>5. Unsent'
      BY <1>0, <1>3, <2>0, <2>2 DEF TransferInv, Unsent, T!others
    <3> QED
      BY <1>2, <1>8, <2>0, <2>1, <2>2, <3>2, <3>4, <3>5 DEF T!result
  <2>3. CASE T!Known(d.hash) /\ rows' = [rows EXCEPT ![d.path] = d.hash]
    <3>1. /\ rows' \in [Paths -> Hashes \cup {Absent}]
          /\ \A f \in Paths : rows'[f] = Absent \/ rows'[f] \in blobs
      BY <1>5, <1>8, <2>3 DEF T!Known
    <3>2. Ours' /\ Good(d)' /\ \A e \in Sources : Good(e) => Good(e)'
      BY <1>0, <1>3, <2>3, PutGood DEF T!others
    <3>3. Handled'
      BY <1>0, <1>3, <1>11, <2>0, <3>2, NextHandled DEF TransferInv, T!result, T!others
    <3>4. Unsent'
      <4> SUFFICES ASSUME job.op = "import", touched = {}, NEW e \in Files(missing')
                   PROVE  \/ e.hash \in sent
                          \/ e.hash \notin blobs /\ (job.overwrite \/ rows'[e.path] = Absent)
        BY <1>0, <2>0 DEF Unsent, T!others
      <4>1. e \in Sources /\ e.path \in Paths
        BY <1>3, <1>4, <1>5 DEF File
      <4>2. e.hash \in sent \/ (e.hash \notin blobs /\ (job.overwrite \/ rows[e.path] = Absent))
        BY <1>3 DEF TransferInv, Unsent
      <4>3. e.path = d.path => e.hash = d.hash
        BY <1>3, <4>1 DEF TransferInv, Ours, Agree, Sources
      <4> QED
        BY <1>5, <1>8, <2>0, <2>3, <4>1, <4>2, <4>3
    <3> QED
      BY <1>2, <1>8, <2>0, <2>1, <3>1, <3>2, <3>3, <3>4 DEF T!result
  <2> QED
    BY <1>14, <2>2, <2>3 DEF T!Link
<1> QED
  BY <1>1, <1>12, <1>13, <1>14 DEF T!SendFile

-----------------------------------------------------------------------------
(* A restart, and the other clients.                                       *)

LEMMA AgainStep == ASSUME TransferInv, T!Again PROVE TransferInv'
<1>0. /\ pc \in Running /\ pc' = "batch" /\ todo' = source
      /\ batch' = << >> /\ missing' = << >> /\ later' = << >>
      /\ sent' = {} /\ following' = FALSE /\ reported' = {} /\ failed' = {}
      /\ UNCHANGED <<T!server, job, T!export, source, uploads, before, T!others>>
  BY DEF T!Again, Running
<1>1. Sources' = Sources /\ Sources \subseteq Pending' /\ Files(missing') = {}
  BY <1>0, EmptyFiles DEF Sources, Pending
<1>2. source \in Seq(File) /\ source \in Seq(Sources)
  BY TypedFiles DEF TransferInv, Types, TransferTypeOK, Sources
<1>3. Types'
  BY <1>0, <1>1, <1>2, EmptyFiles
  DEF TransferInv, Types, TransferTypeOK, Running, T!server, T!export, T!others
<1>4. Places'
  BY <1>0 DEF Places, Early
<1>5. Packed' /\ Ours'
  BY <1>0, <1>1 DEF TransferInv, Packed, ExportFaithful, Ours, Agree, T!server, T!export, T!others
<1>6. Handled' /\ Unsent' /\ SentStored'
  BY <1>0, <1>1 DEF Handled, Unsent, SentStored
<1>7. SentOnce'
  BY <1>0, <1>1 DEF TransferInv, SentOnce, T!server, T!others
<1> QED
  BY <1>3, <1>4, <1>5, <1>6, <1>7 DEF TransferInv

\* What others change is remembered.
LEMMA WhileOthers ==
  ASSUME TransferInv, UNCHANGED <<job, pc, T!export, T!queue, T!result, before>>,
         NEW f \in Paths, NEW v \in Hashes \cup {Absent}, rows' = [rows EXCEPT ![f] = v],
         touched' = touched \cup {f}, blobs' \subseteq Hashes, lost' \subseteq Hashes,
         lost \subseteq lost', lost' = {} => blobs \subseteq blobs',
         \A g \in Paths : rows'[g] = Absent \/ rows'[g] \in blobs'
  PROVE  TransferInv'
<1>1. Sources' = Sources /\ Pending' = Pending /\ Replaces' = Replaces
  BY DEF T!queue, Sources, Pending, Replaces
<1>2. /\ rows' \in [Paths -> Hashes \cup {Absent}]
      /\ \A g \in Paths \ touched' : rows'[g] = rows[g]
  BY DEF TransferInv, Types, TransferTypeOK
<1>3. Types' /\ Places' /\ Packed'
  BY <1>1, <1>2
  DEF TransferInv, Types, TransferTypeOK, Places, Packed, ExportFaithful, T!export, T!queue, T!result
<1>4. Ours'
  BY <1>1, <1>2 DEF TransferInv, Ours, Agree, T!queue
<1>5. Handled'
  <2> SUFFICES ASSUME ~Unnoticed', NEW d \in Sources
               PROVE  d \in Pending \/ d.path \in touched' \cup failed \cup reported \/ Good(d)'
    BY <1>1 DEF Handled, T!result
  <2>1. ~Unnoticed
    BY DEF Unnoticed, T!result
  <2>2. d \in File
    <3>1. source \in Seq(File)
      BY DEF TransferInv, Types, TransferTypeOK
    <3> QED
      BY <3>1, TypedFiles DEF Sources
  <2>3. d.path \notin touched' => rows'[d.path] = rows[d.path]
    BY <1>2, <2>2 DEF File
  <2> QED
    BY <1>1, <2>1, <2>3 DEF TransferInv, Handled, Good
<1>6. Unsent' /\ SentStored'
  BY DEF Unsent, SentStored
<1>7. SentOnce'
  BY DEF TransferInv, SentOnce, T!queue, T!result
<1> QED
  BY <1>3, <1>4, <1>5, <1>6, <1>7 DEF TransferInv

LEMMA WriteStep == ASSUME TransferInv, T!Write PROVE TransferInv'
<1>1. PICK f \in Paths, h \in Hashes :
        /\ rows' = [rows EXCEPT ![f] = h] /\ blobs' = blobs \cup {h}
        /\ touched' = touched \cup {f}
  BY DEF T!Write
<1>2. /\ rows \in [Paths -> Hashes \cup {Absent}] /\ blobs \subseteq Hashes
      /\ \A g \in Paths : rows[g] = Absent \/ rows[g] \in blobs
      /\ lost \subseteq Hashes /\ lost' = lost
  BY DEF TransferInv, Types, TransferTypeOK, T!Write
<1>3. \A g \in Paths : rows'[g] = Absent \/ rows'[g] \in blobs'
  BY <1>1, <1>2
<1> QED
  BY <1>1, <1>2, <1>3, WhileOthers DEF T!Write

LEMMA DeleteStep == ASSUME TransferInv, T!Delete PROVE TransferInv'
<1>1. PICK f \in {g \in Paths : rows[g] # Absent} :
        LET unused == IF T!FilesOf(rows[f]) = {f} THEN {rows[f]} ELSE {} IN
        /\ rows' = [rows EXCEPT ![f] = Absent]
        /\ blobs' = blobs \ unused /\ lost' = lost \cup unused
        /\ touched' = touched \cup {f}
  BY DEF T!Delete
<1>2. PICK unused : unused = IF T!FilesOf(rows[f]) = {f} THEN {rows[f]} ELSE {}
  OBVIOUS
<1>3. /\ rows' = [rows EXCEPT ![f] = Absent] /\ f \in Paths /\ rows[f] # Absent
      /\ blobs' = blobs \ unused /\ lost' = lost \cup unused /\ touched' = touched \cup {f}
  BY <1>1, <1>2
<1>4. /\ rows \in [Paths -> Hashes \cup {Absent}] /\ blobs \subseteq Hashes
      /\ \A g \in Paths : rows[g] = Absent \/ rows[g] \in blobs
      /\ lost \subseteq Hashes
  BY DEF TransferInv, Types, TransferTypeOK
<1>5. unused \subseteq Hashes
  BY <1>2, <1>3, <1>4
<1>6. \A g \in Paths : rows'[g] = Absent \/ rows'[g] \in blobs'
  <2> SUFFICES ASSUME NEW g \in Paths, g # f, rows[g] # Absent PROVE rows[g] \in blobs \ unused
    BY <1>3, <1>4
  <2>1. rows[g] = rows[f] => T!FilesOf(rows[f]) # {f}
    BY DEF T!FilesOf
  <2> QED
    BY <1>2, <1>4, <2>1
<1> QED
  BY <1>3, <1>4, <1>5, <1>6, WhileOthers DEF T!Delete

-----------------------------------------------------------------------------

LEMMA NextInv == ASSUME TransferInv, [T!Next]_(T!vars) PROVE TransferInv'
<1>1. CASE UNCHANGED T!vars
  <2>1. Sources' = Sources /\ Pending' = Pending
    BY <1>1 DEF T!vars, T!queue, Sources, Pending
  <2> QED
    BY <1>1, <2>1
    DEF T!vars, T!server, T!export, T!queue, T!result, T!others, TransferInv, Types, TransferTypeOK, Places, Packed,
        ExportFaithful, Ours, Agree, Handled, Good, Replaces, Unnoticed, Unsent, SentStored, SentOnce
<1>2. CASE T!Run
  BY <1>2, QueryStep, StatStep, OpenStep, ExportedStep, ScanStep, CrawlStep, NextBatchStep,
     FollowUpStep, FinishStep, SyncFileStep, SyncedStep, SendFileStep, SentStep DEF T!Run
<1> QED
  BY <1>1, <1>2, AgainStep, WriteStep, DeleteStep DEF T!Next, T!Over

LEMMA TransferInductive == T!Spec => []TransferInv
<1>1. T!Init => TransferInv
  BY InitialInv
<1>2. TransferInv /\ [T!Next]_(T!vars) => TransferInv'
  BY NextInv
<1> QED
  BY <1>1, <1>2, PTL DEF T!Spec

\* The rows of others and of this job have their content throughout, and the
\* queue only ever holds files of the source.
THEOREM TransferTypes == T!Spec => []TransferTypeOK
<1>1. TransferInv => TransferTypeOK
  BY DEF TransferInv, Types
<1> QED
  BY <1>1, TransferInductive, PTL

\* An export to a local file that reports success has every content it found,
\* whatever is deleted while it packs.
THEOREM ExportsFaithful == T!Spec => []ExportFaithful
<1>1. TransferInv => ExportFaithful
  BY DEF TransferInv, Packed
<1> QED
  BY <1>1, TransferInductive, PTL

\* However the files are batched, whatever fails and is run again, an import or
\* copy that ends leaves each file it has not reported as it is to be.
THEOREM ImportsComplete == T!Spec => []ImportComplete
<1>1. TransferInv => ImportComplete
  BY DEF TransferInv, Places, Handled, Good, Sources, Files, ImportComplete
<1> QED
  BY <1>1, TransferInductive, PTL

\* No content is sent twice, in one run or several, unless it was deleted.
THEOREM UploadsOnce == T!Spec => []UploadedOnce
<1>1. TransferInv => UploadedOnce
  <2> SUFFICES ASSUME TransferInv, job.op = "import", lost = {}, NEW h \in Hashes
               PROVE uploads[h] <= 1
    BY DEF UploadedOnce
  <2>1. CASE pc \in Running
    BY <2>1 DEF TransferInv, SentOnce
  <2>2. CASE pc \in Early
    BY <2>2 DEF TransferInv, Places
  <2> QED
    BY <2>1, <2>2 DEF TransferInv, Types
<1> QED
  BY <1>1, TransferInductive, PTL
=============================================================================
