------------------------------ MODULE Transfer ------------------------------
(***************************************************************************)
(* Moving many files at once: export to an archive, import of an archive,  *)
(* and `cask cp` of a local directory; straight into PostgreSQL or through *)
(* the HTTP API, while others write and delete.                            *)
(*                                                                         *)
(* All three spare the transfer of content that is there already: the      *)
(* files are first written by their hash, in batches, and only those whose *)
(* hash is not known are sent.                                             *)
(*                                                                         *)
(* Abstracted: metadata, partition keys and ACLs of the files, and the     *)
(* steps inside a write(), which is one transaction.                       *)
(***************************************************************************)
EXTENDS TransferState, SequencesExt

CONSTANT MaxMishaps  \* bound on other clients' calls, failed writes and restarts
VARIABLE mishaps

server == <<rows, blobs>>
export == <<snapshot, archive>>
queue == <<source, todo, batch, missing, sent, later, following>>
result == <<reported, failed, uploads>>
others == <<touched, lost>>
vars == <<server, job, pc, export, queue, result, before, others, mishaps>>

\* A row has its content.
InitialRows == {r \in [Paths -> Hashes \cup {Absent}] : \E f \in Paths : r[f] = Absent}

Init ==
  /\ rows \in InitialRows /\ blobs = {rows[f] : f \in Paths} \ {Absent}
  /\ job \in Jobs /\ pc = "start"
  /\ snapshot = << >> /\ archive = << >>
  /\ source = << >> /\ todo = << >> /\ batch = << >> /\ missing = << >> /\ later = << >>
  /\ sent = {} /\ following = FALSE
  /\ reported = {} /\ failed = {} /\ uploads = [h \in Hashes |-> 0]
  /\ before = rows /\ touched = {} /\ lost = {} /\ mishaps = 0

Mishap == mishaps < MaxMishaps /\ mishaps' = mishaps + 1

-----------------------------------------------------------------------------
(* export(): the archive has each content once, with the files that have it. *)

FilesOf(h) == {f \in Paths : rows[f] = h}
Entry(h) == [hash |-> h, paths |-> FilesOf(h)]
Query ==
  /\ pc = "start" /\ job.op = "import"
  /\ snapshot' = SetToSeq({Entry(h) : h \in {g \in Hashes : FilesOf(g) # {}}})
  /\ pc' = "stat" /\ UNCHANGED <<server, job, archive, queue, result, before, others, mishaps>>

Rest == SubSeq(snapshot, Len(archive) + 1, Len(snapshot))

\* stat() of content that has been deleted ends the export.  The archive is
\* closed all the same; whoever asks over HTTP is not told.
\* mutant: an archive that is cut off counts as a success
StatAtMost ==
  /\ pc = "stat" /\ Rest # << >>
  /\ pc' = IF Head(Rest).hash \in blobs THEN "open" ELSE "exported"
  /\ UNCHANGED <<server, job, export, queue, result, before, others, mishaps>>
Stat ==
  /\ pc = "stat" /\ Rest # << >>
  /\ pc' = IF Head(Rest).hash \in blobs THEN "open"
           ELSE IF job.mode = "http" THEN "exported" ELSE "cut"
  /\ UNCHANGED <<server, job, export, queue, result, before, others, mishaps>>

\* The stream is opened later, and nobody listens to its errors.
Open ==
  /\ pc = "open"
  /\ \/ /\ Head(Rest).hash \in blobs /\ archive' = Append(archive, Head(Rest)) /\ pc' = "stat"
     \/ /\ Head(Rest).hash \notin blobs /\ pc' = "down" /\ UNCHANGED archive
  /\ UNCHANGED <<server, job, snapshot, queue, result, before, others, mishaps>>

Exported ==
  /\ pc = "stat" /\ Rest = << >> /\ pc' = "exported"
  /\ UNCHANGED <<server, job, export, queue, result, before, others, mishaps>>

-----------------------------------------------------------------------------
(* Import, and `cask cp`.                                                  *)

\* _extractAndScan(): the archive entry by entry.
FilesIn(entry) == SetToSeq({[path |-> f, hash |-> entry.hash] : f \in entry.paths})
Contents == FoldLeft(LAMBDA fs, e : fs \o FilesIn(e), << >>, archive)

Begin(files) ==
  /\ source' = files /\ todo' = files /\ before' = rows /\ touched' = {} /\ lost' = {} /\ pc' = "batch"
  /\ UNCHANGED <<server, job, export, batch, missing, sent, later, following, result, mishaps>>

Scan == pc \in {"exported", "cut"} /\ Begin(Contents)
Crawl == pc = "start" /\ job.op = "cp" /\ \E files \in Locals : Begin(files)

NextBatch ==
  /\ pc = "batch" /\ todo # << >>
  /\ LET n == IF Len(todo) < BatchSize THEN Len(todo) ELSE BatchSize IN
     batch' = SubSeq(todo, 1, n) /\ todo' = SubSeq(todo, n + 1, Len(todo))
  /\ sent' = {} /\ pc' = "sync"
  /\ UNCHANGED <<server, job, export, source, missing, later, following, result, before, others,
                 mishaps>>

\* The follow-up batches of an import over HTTP.
FollowUp ==
  /\ pc = "batch" /\ todo = << >> /\ later # << >>
  /\ todo' = later /\ later' = << >> /\ following' = TRUE
  /\ UNCHANGED <<server, job, pc, export, source, batch, missing, sent, result, before, others, mishaps>>

\* mutant: without the follow-up
FinishEarly ==
  /\ pc = "batch" /\ todo = << >> /\ pc' = "done"
  /\ UNCHANGED <<server, job, export, queue, result, before, others, mishaps>>
Finish ==
  /\ pc = "batch" /\ todo = << >> /\ later = << >> /\ pc' = "done"
  /\ UNCHANGED <<server, job, export, queue, result, before, others, mishaps>>

Duplicate(d, replace) == rows[d.path] # Absent /\ ~replace

Trusted(h) == TRUE    \* mutant: whatever hash is given
Known(h) == h \in blobs

\* write() of a hash that is known, or found missing.  Any other error stays
\* in the context that it returns, and sync() counts the file as unchanged.
SyncFile ==
  /\ pc = "sync" /\ batch # << >>
  /\ LET d == Head(batch) IN
     \/ /\ Duplicate(d, Replaces) /\ UNCHANGED <<rows, missing, failed, mishaps>>
     \/ /\ ~Duplicate(d, Replaces) /\ ~Known(d.hash)
        /\ missing' = Append(missing, d) /\ UNCHANGED <<rows, failed, mishaps>>
     \/ /\ ~Duplicate(d, Replaces) /\ Known(d.hash)
        /\ rows' = [rows EXCEPT ![d.path] = d.hash] /\ UNCHANGED <<missing, failed, mishaps>>
     \/ /\ Mishap /\ failed' = failed \cup {d.path} /\ UNCHANGED <<rows, missing>>
  /\ batch' = Tail(batch)
  /\ UNCHANGED <<blobs, job, pc, export, source, todo, sent, later, following, reported, uploads,
                 before, others>>

\* What a follow-up batch does not find is an error.
Synced ==
  /\ pc = "sync" /\ batch = << >>
  /\ IF following
     THEN /\ reported' = reported \cup {missing[i].path : i \in 1..Len(missing)}
          /\ missing' = << >> /\ pc' = "batch"
     ELSE pc' = "send" /\ UNCHANGED <<reported, missing>>
  /\ UNCHANGED <<server, job, export, source, todo, batch, sent, later, following, failed, uploads,
                 before, others, mishaps>>

\* write() with the content.  Over HTTP its errors are answers and reported;
\* without, they stay in the context and nobody looks.
Report(d) == reported' = IF job.mode = "http" THEN reported \cup {d.path} ELSE reported
Send(d) ==
  \/ /\ Duplicate(d, job.overwrite) /\ Report(d)
     /\ UNCHANGED <<server, failed, uploads, mishaps>>
  \/ /\ ~Duplicate(d, job.overwrite)
     /\ rows' = [rows EXCEPT ![d.path] = d.hash] /\ blobs' = blobs \cup {d.hash}
     /\ uploads' = [uploads EXCEPT ![d.hash] = @ + 1]
     /\ UNCHANGED <<reported, failed, mishaps>>
  \/ /\ Mishap /\ failed' = failed \cup {d.path} /\ Report(d)
     /\ UNCHANGED <<server, uploads>>

\* write() with the hash of what has just been sent.
Link(d) ==
  /\ IF Duplicate(d, job.overwrite) \/ ~Known(d.hash)
     THEN UNCHANGED rows
     ELSE rows' = [rows EXCEPT ![d.path] = d.hash]
  /\ UNCHANGED <<blobs, result, mishaps>>

IsSent(h) == FALSE    \* mutant: every file is sent
AlreadySent(h) == h \in sent

\* Files of one hash: the first is sent; the others follow in a later batch
\* over HTTP, and are linked without.
SendFile ==
  /\ pc = "send" /\ missing # << >> /\ missing' = Tail(missing)
  /\ LET d == Head(missing) IN
     \/ /\ job.op = "cp" \/ ~AlreadySent(d.hash)
        /\ Send(d) /\ sent' = sent \cup {d.hash} /\ UNCHANGED later
     \/ /\ job.op = "import" /\ AlreadySent(d.hash) /\ job.mode = "http"
        /\ later' = Append(later, d) /\ UNCHANGED <<server, result, sent, mishaps>>
     \/ /\ job.op = "import" /\ AlreadySent(d.hash) /\ job.mode = "pg"
        /\ Link(d) /\ UNCHANGED <<sent, later>>
  /\ UNCHANGED <<job, pc, export, source, todo, batch, following, before, others>>

Sent ==
  /\ pc = "send" /\ missing = << >> /\ pc' = "batch"
  /\ UNCHANGED <<server, job, export, queue, result, before, others, mishaps>>

\* The process is stopped, and run again on the same files.
Again ==
  /\ pc \in {"batch", "sync", "send"} /\ Mishap
  /\ todo' = source /\ batch' = << >> /\ missing' = << >> /\ later' = << >>
  /\ sent' = {} /\ following' = FALSE /\ reported' = {} /\ failed' = {} /\ pc' = "batch"
  /\ UNCHANGED <<server, job, export, source, uploads, before, others>>

Run ==
  \/ Query \/ Stat \/ Open \/ Exported \/ Scan \/ Crawl \/ NextBatch \/ FollowUp \/ Finish
  \/ SyncFile \/ Synced \/ SendFile \/ Sent

-----------------------------------------------------------------------------
(* The other clients.                                                      *)

Write ==
  /\ Mishap
  /\ \E f \in Paths, h \in Hashes :
       /\ rows' = [rows EXCEPT ![f] = h] /\ blobs' = blobs \cup {h}
       /\ touched' = touched \cup {f}
  /\ UNCHANGED <<job, pc, export, queue, result, before, lost>>

\* deleteFile() removes content that no other row has.
Delete ==
  /\ Mishap
  /\ \E f \in {g \in Paths : rows[g] # Absent} :
       LET unused == IF FilesOf(rows[f]) = {f} THEN {rows[f]} ELSE {} IN
       /\ rows' = [rows EXCEPT ![f] = Absent]
       /\ blobs' = blobs \ unused /\ lost' = lost \cup unused
       /\ touched' = touched \cup {f}
  /\ UNCHANGED <<job, pc, export, queue, result, before>>

Over == pc \in {"done", "down"} /\ UNCHANGED vars

Next == Run \/ Again \/ Write \/ Delete \/ Over

Spec == Init /\ [][Next]_vars
=============================================================================
