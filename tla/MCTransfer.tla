----------------------------- MODULE MCTransfer -----------------------------
(***************************************************************************)
(* Instances of FileProcessor and Transfer for TLC, side by side: a pool   *)
(* of two processes, a third that can take the place of one that was       *)
(* killed, and two batches; exports, imports and copies of three files.    *)
(* Each behaviour is one of one of them, and the other stands still.       *)
(***************************************************************************)
EXTENDS FileProcessor, TransferState, TLC

CONSTANTS i1, i2, i3, i4, i5, f1, f2, f3, h1, h2, MaxMishaps

VARIABLE mishaps

transferVars ==
  <<rows, blobs, job, pc, snapshot, archive, source, todo, batch, missing, sent, later,
    following, reported, failed, uploads, before, touched, lost, mishaps>>

TwoBatches == {<<i1, i2, i3>>, <<i4, i5>>}

\* Two local files of the same content, and one of another.
TwoAlike == {<<[path |-> f1, hash |-> h1], [path |-> f2, hash |-> h1], [path |-> f3, hash |-> h2]>>}

T == INSTANCE Transfer

TransferOver ==
  /\ rows = [f \in Paths |-> Absent] /\ blobs = {} /\ snapshot = << >> /\ archive = << >>
  /\ job = [op |-> "cp", mode |-> "pg", overwrite |-> FALSE] /\ pc = "down"
  /\ source = << >> /\ todo = << >> /\ batch = << >> /\ missing = << >> /\ later = << >>
  /\ sent = {} /\ following = FALSE
  /\ reported = {} /\ failed = {} /\ uploads = [h \in Hashes |-> 0]
  /\ before = rows /\ touched = {} /\ lost = {} /\ mishaps = MaxMishaps
PoolOver ==
  /\ up = FALSE /\ started = FALSE
  /\ idle = [w \in Workers |-> 0] /\ queue = << >> /\ callbacks = {}
  /\ submitting = << >> /\ promise = [i \in Items |-> "none"]
  /\ proc = [w \in Workers |-> "none"]
  /\ inbox = [w \in Workers |-> {}] /\ replies = [w \in Workers |-> {}]

OfPool(A) == A /\ UNCHANGED transferVars
OfTransfer(A) == A /\ UNCHANGED vars
everything == <<vars, transferVars>>

TransferInit ==
  \/ Init /\ TransferOver
  \/ PoolOver /\ T!Init
TransferNext ==
  \/ \E b \in Batches : OfPool(ProcessBatch(b))
  \/ OfPool(Enqueue) \/ OfPool(Close)
  \/ \E w \in Workers : OfPool(OnResult(w)) \/ OfPool(Work(w)) \/ OfPool(Exit(w))
  \/ OfTransfer(T!Query) \/ OfTransfer(T!Stat) \/ OfTransfer(T!Open) \/ OfTransfer(T!Exported)
  \/ OfTransfer(T!Scan) \/ OfTransfer(T!Crawl) \/ OfTransfer(T!NextBatch)
  \/ OfTransfer(T!FollowUp) \/ OfTransfer(T!Finish) \/ OfTransfer(T!SyncFile)
  \/ OfTransfer(T!Synced) \/ OfTransfer(T!SendFile) \/ OfTransfer(T!Sent)
  \/ OfTransfer(T!Again) \/ OfTransfer(T!Write) \/ OfTransfer(T!Delete) \/ OfTransfer(T!Over)
TransferSpec ==
  /\ TransferInit /\ [][TransferNext]_everything /\ WF_everything(OfPool(Enqueue))
  /\ \A w \in Workers : WF_everything(OfPool(OnResult(w))) /\ WF_everything(OfPool(Work(w)))
=============================================================================
