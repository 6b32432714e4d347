----------------------------- MODULE WebClient -----------------------------
(***************************************************************************)
(* One browser tab of the web user interface: the uploads of FsModel, the  *)
(* upload tracker with its toasts, the cached directory listings, and the  *)
(* delete form.                                                            *)
(*                                                                         *)
(* The browser runs one handler at a time: an answer, a timer, a click,    *)
(* and before the next one what the handler left to promises, the end of   *)
(* an upload() and a getContents() that has begun.  Requests are answered  *)
(* in any order, and an answer may be lost after the server has acted.     *)
(* Other clients write and delete meanwhile.                               *)
(***************************************************************************)
EXTENDS WebState, SequencesExt

Unasked == [state |-> "none", rows |-> {}, old |-> FALSE]

Init ==
  /\ stored \in Starts
  /\ records = [k \in Calls |-> <<>>] /\ queue = [k \in Calls |-> {}]
  /\ attempt = [k \in Calls |-> 0] /\ xhr = [k \in Calls |-> "none"] /\ lru = <<>>
  /\ since = 0 /\ timer = FALSE /\ visible = FALSE /\ told = {}
  /\ cwd \in Dirs /\ loads = TRUE
  /\ cache = [d \in Dirs |-> Unasked] /\ lists = {}
  /\ removal = NoCall
  /\ put = [k \in Calls |-> {}] /\ unsure = [k \in Calls |-> {}] /\ acked = {} /\ gone = {}
  /\ events = 0

Event == events < MaxEvents /\ events' = events + 1

-----------------------------------------------------------------------------
(* FsModel.upload().                                                       *)

\* LruStore.set(): a record becomes the newest, and the oldest may go.
Newest(s) == IF Len(s) > EntryLimit THEN SubSeq(s, Len(s) - EntryLimit + 1, Len(s)) ELSE s
Without(s, e) ==
  IF \E i \in DOMAIN s : s[i] = e THEN RemoveAt(s, CHOOSE i \in DOMAIN s : s[i] = e) ELSE s
Keep(kept, e) == Newest(Append(Without(kept, e), e))

\* The files of a folder are sent without the hidden ones.
Files(entry) == {n \in DOMAIN entry.files : entry.folder => entry.files[n] \notin Hidden}

\* The files to send, by entry and then by their order in it.
Before(p, q) == p.entry < q.entry \/ (p.entry = q.entry /\ p.place < q.place)
First(Q) == CHOOSE p \in Q : \A q \in Q : q = p \/ Before(p, q)

\* uploadInProgress: of the records kept, one is loading.
InProgress(kept, recs) == \E i \in DOMAIN kept : recs[kept[i][1]][kept[i][2]].state = "loading"

\* mutant: the tracker remembers the latest upload instead of the first
SinceLatest(k) == k

\* scheduleToastIfHidden(), for an event of an upload that began as the k-th.
Since(k) == IF since = 0 THEN k ELSE since

\* upload(): a record for each file or folder dropped, the tracker told of each,
\* and the first request sent.
Upload(k) ==
  /\ records[k] = <<>> /\ \A j \in 1 .. k - 1 : records[j] # <<>>
  /\ \E offer \in Offers[cwd] :
       /\ records' = [records EXCEPT ![k] =
            [i \in DOMAIN offer |->
               [dest |-> cwd, files |-> {offer[i].files[n] : n \in Files(offer[i])},
                done |-> 0, failed |-> {}, state |-> "loading"]]]
       /\ queue' = [queue EXCEPT ![k] = UNION {
            {[entry |-> i, place |-> n, file |-> offer[i].files[n]] : n \in Files(offer[i])} :
              i \in DOMAIN offer}]
       /\ lru' = Newest(lru \o [i \in DOMAIN offer |-> <<k, i>>])
  /\ xhr' = [xhr EXCEPT ![k] = IF queue'[k] = {} THEN "over" ELSE "sent"]
  /\ since' = Since(k)
  /\ UNCHANGED <<stored, attempt, timer, visible, told, page, history, events>>

\* The server handles a POST: it refuses a path that has a file already.
Serve(k) ==
  /\ xhr[k] = "sent"
  /\ LET f == First(queue[k]).file IN
     IF f \notin stored
       THEN /\ stored' = stored \cup {f} /\ put' = [put EXCEPT ![k] = @ \cup {f}]
            /\ gone' = gone \ {f} /\ xhr' = [xhr EXCEPT ![k] = "loaded"]
       ELSE xhr' = [xhr EXCEPT ![k] = "error"] /\ UNCHANGED <<stored, put, gone>>
  /\ UNCHANGED <<records, queue, attempt, lru, tracker, page, unsure, acked, events>>

\* runNext() after _uploadWithRetry(): the record counts the file, and with its
\* last one it is done; the tracker is told, which refreshes the page that shows
\* the directory and makes ready for a toast once nothing is loading.
Settled(files, failed) == IF failed = files THEN "error" ELSE "loaded"
FileDone(k, state) ==
  LET f == First(queue[k]).file
      i == First(queue[k]).entry
      left == queue[k] \ {First(queue[k])}
      r == records[k][i]
      failed == IF state = "error" THEN r.failed \cup {f} ELSE r.failed
      over == r.done + 1 = Cardinality(r.files)
      now == [r EXCEPT !.done = @ + 1, !.failed = failed,
                       !.state = IF over THEN Settled(r.files, failed) ELSE @]
  IN /\ records' = [records EXCEPT ![k][i] = now]
     /\ queue' = [queue EXCEPT ![k] = left]
     /\ xhr' = [xhr EXCEPT ![k] = IF left = {} THEN "over" ELSE "sent"]
     /\ attempt' = [attempt EXCEPT ![k] = 0]
     /\ lru' = IF over THEN Keep(lru, <<k, i>>) ELSE lru
     /\ since' = Since(k)
     /\ timer' = (timer \/ (over /\ ~InProgress(lru', records')))
     /\ loads' = IF now.state = "loaded" /\ r.dest = cwd THEN TRUE ELSE loads

\* _uploadWithRetry(): another attempt, unless it was the last.
Again(k, state) == state = "error" /\ attempt[k] < Retries

\* mutant: the answer to the last attempt is not looked at
TrustsLast(k, state) == IF attempt[k] = Retries THEN "loaded" ELSE state

Outcome(k, state) == state
Attempted(k, state) ==
  \/ /\ Again(k, state)
     /\ attempt' = [attempt EXCEPT ![k] = @ + 1] /\ xhr' = [xhr EXCEPT ![k] = "sent"]
     /\ UNCHANGED <<records, queue, lru, since, timer, loads>>
  \/ ~Again(k, state) /\ FileDone(k, Outcome(k, state))

\* xhr.onload.
Answer(k) ==
  /\ xhr[k] \in {"loaded", "error"} /\ Attempted(k, xhr[k])
  /\ UNCHANGED <<stored, visible, told, cwd, listing, removal, history, events>>

\* xhr.onerror, or an answer of a server that failed: the file may be there.
Lose(k) ==
  /\ Event
  /\ xhr[k] \in {"sent", "loaded"} /\ Attempted(k, "error")
  /\ unsure' = IF xhr[k] = "loaded"
                 THEN [unsure EXCEPT ![k] = @ \cup {First(queue[k]).file}] ELSE unsure
  /\ UNCHANGED <<stored, visible, told, cwd, listing, removal, put, acked, gone>>

\* clearCache(): no listing is kept.  A request in progress for one goes on, and
\* its answer fills the cache with what it may have read before, of which the
\* model keeps only that it is old.
Old(d) == [dir |-> d, read |-> TRUE, rows |-> {}, old |-> TRUE]
Purge ==
  /\ cache' = [d \in Dirs |-> Unasked]
  /\ lists' = {Old(r.dir) : r \in lists}

\* mutant: only an upload of which nothing failed clears the cache
ClearsIfAll(k) ==
  \A i \in DOMAIN records[k] : records[k][i].state = "loaded" /\ <<k, i>> \in Range(lru)

\* The records as upload() ends, up to one that is loaded, which clears the
\* cache, or one that is kept no more, which upload() stumbles over.
Clears(k) ==
  \E i \in DOMAIN records[k] :
    /\ records[k][i].state = "loaded"
    /\ \A j \in 1 .. i : <<k, j>> \in Range(lru)

End(k) ==
  /\ xhr[k] = "over" /\ xhr' = [xhr EXCEPT ![k] = "done"]
  /\ IF Clears(k) THEN Purge ELSE UNCHANGED <<cache, lists>>
  /\ acked' = IF \E i \in DOMAIN records[k] : records[k][i].state = "loaded"
                   /\ \A j \in DOMAIN records[k] : <<k, j>> \in Range(lru)
                THEN acked \cup {f \in stored :
                       \E i \in DOMAIN records[k] : f \in records[k][i].files \ records[k][i].failed}
                ELSE acked
  /\ UNCHANGED <<stored, records, queue, attempt, lru, tracker, cwd, loads, removal,
                 put, unsure, gone, events>>

-----------------------------------------------------------------------------
(* The upload tracker.                                                     *)

\* toastTimeout: a toast counts the uploads since the last one, unless the
\* tracker shows them.
Toast ==
  /\ timer /\ timer' = FALSE /\ since' = 0
  /\ told' = told \cup {e \in Entries : visible \/ e[1] >= since}
  /\ UNCHANGED <<stored, sending, visible, page, history, events>>

\* showUploadTracker() and hideUploadTracker().
ToggleTracker ==
  /\ Event /\ visible' = ~visible
  /\ UNCHANGED <<stored, sending, since, timer, told, page, history>>

-----------------------------------------------------------------------------
(* Directory listings, navigation and deletes.                             *)

Listing(d) == {RowOf[f][2] : f \in {g \in stored : RowOf[g][1] = d}}

Navigate ==
  /\ Event
  /\ cwd' \in Dirs \ {cwd} /\ loads' = TRUE
  /\ UNCHANGED <<stored, sending, tracker, listing, removal, history>>

\* getContents() after its awaits: it shows the listing that is kept, waits for
\* a request in progress, or sends one.
GetContents ==
  /\ loads /\ loads' = FALSE
  /\ \/ cache[cwd].state \in {"loaded", "loading"} /\ UNCHANGED listing
     \/ /\ cache[cwd].state = "none"
        /\ cache' = [cache EXCEPT ![cwd].state = "loading"]
        /\ lists' = lists \cup {[dir |-> cwd, read |-> FALSE, rows |-> {}, old |-> FALSE]}
  /\ UNCHANGED <<stored, sending, tracker, cwd, removal, history, events>>

\* The server reads the directory.
ReadList(r) ==
  /\ ~r.read
  /\ lists' = (lists \ {r}) \cup {[r EXCEPT !.read = TRUE, !.rows = Listing(r.dir)]}
  /\ UNCHANGED <<stored, sending, tracker, cwd, loads, cache, removal, history, events>>

\* The listing arrives, and is kept whatever the page is of by now.
GotList(r) ==
  /\ r.read /\ lists' = lists \ {r}
  /\ cache' = [cache EXCEPT ![r.dir] = [state |-> "loaded", rows |-> r.rows, old |-> r.old]]
  /\ UNCHANGED <<stored, sending, tracker, cwd, loads, removal, history, events>>

\* It cannot be had: the page is empty, and the next getContents() asks again.
NoList(r) ==
  /\ Event /\ lists' = lists \ {r}
  /\ cache' = [cache EXCEPT ![r.dir] = Unasked]
  /\ UNCHANGED <<stored, sending, tracker, cwd, loads, removal, history>>

\* The delete form, of a row that is, or was, in the directory.
Delete ==
  /\ removal = NoCall /\ Event
  /\ \E f \in Targets : RowOf[f][1] = cwd /\ removal' = [row |-> RowOf[f], state |-> "sent"]
  /\ UNCHANGED <<stored, sending, tracker, cwd, loads, listing, history>>

ServeDelete ==
  /\ removal # NoCall /\ removal.state = "sent"
  /\ LET there == InRow(removal.row) \cap stored IN
     /\ stored' = stored \ there
     /\ acked' = acked \ there
     /\ removal' = [removal EXCEPT !.state = IF there = {} THEN "error" ELSE "loaded"]
  /\ UNCHANGED <<sending, tracker, cwd, loads, listing, put, unsure, gone, events>>

\* FsModel.delete() and _onSubmitClick(): the cache is cleared and the page
\* refreshed, or an error is shown.
Deleted ==
  /\ removal # NoCall /\ removal.state \in {"loaded", "error"} /\ removal' = NoCall
  /\ IF removal.state = "loaded"
       THEN /\ Purge /\ loads' = TRUE
            /\ gone' = gone \cup (InRow(removal.row) \ stored)
       ELSE UNCHANGED <<cache, lists, loads, gone>>
  /\ UNCHANGED <<stored, sending, tracker, cwd, put, unsure, acked, events>>

DeleteLost ==
  /\ Event
  /\ removal # NoCall /\ removal' = NoCall
  /\ UNCHANGED <<stored, sending, tracker, cwd, loads, listing, history>>

\* Other clients.
OtherWrites(f) ==
  /\ Event
  /\ f \notin stored /\ stored' = stored \cup {f} /\ gone' = gone \ {f}
  /\ UNCHANGED <<sending, tracker, page, put, unsure, acked>>
OtherDeletes(f) ==
  /\ Event
  /\ f \in stored /\ stored' = stored \ {f} /\ acked' = acked \ {f}
  /\ UNCHANGED <<sending, tracker, page, put, unsure, gone>>

\* What is left to promises comes before the next handler.
Pending == loads \/ \E k \in Calls : xhr[k] = "over"
Handlers ==
  \/ \E k \in Calls : Upload(k) \/ Serve(k) \/ Answer(k) \/ Lose(k)
  \/ Toast \/ ToggleTracker \/ Navigate
  \/ \E r \in lists : ReadList(r) \/ GotList(r) \/ NoList(r)
  \/ Delete \/ ServeDelete \/ Deleted \/ DeleteLost
  \/ \E f \in Targets : OtherWrites(f) \/ OtherDeletes(f)
Next ==
  \/ GetContents
  \/ \E k \in Calls : End(k)
  \/ ~Pending /\ Handlers
Spec == Init /\ [][Next]_tab
=============================================================================
