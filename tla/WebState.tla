------------------------------ MODULE WebState ------------------------------
(***************************************************************************)
(* The state of one browser tab, and what holds of it: what the tracker    *)
(* and the toasts of the web user interface say of uploads, and what the   *)
(* listings it keeps say of the server.                                    *)
(***************************************************************************)
EXTENDS Naturals, Sequences, FiniteSets, Functions

CONSTANTS
  Targets, Dirs, \* the paths of files; the directories that can be shown
  RowOf,         \* the directory that shows a file, and the row it does so in:
                 \* its own or that of the folder it is in
  MaxUploads,    \* bound: calls of upload()
  Retries,       \* FsModel.uploadRetries
  EntryLimit,    \* the size of the LruStore of the entry records
  Offers,        \* of a directory, what a user may drop on it: files and folders
  Hidden,        \* the files whose name begins with a dot
  Starts,        \* the contents of the server to begin with
  MaxEvents,     \* bound: other things the user does, changes by other clients
                 \* and requests that fail or whose answer is lost
  NoCall         \* no delete in progress

\* A drop has something in it, and no file twice.
IsOffer(offer) ==
  /\ offer # << >> /\ offer \in Seq([folder : BOOLEAN, files : Seq(Targets \cup Hidden)])
  /\ \A i \in DOMAIN offer : offer[i].folder \/ Range(offer[i].files) \subseteq Targets
  /\ \A i, j \in DOMAIN offer : \A m \in DOMAIN offer[i].files, n \in DOMAIN offer[j].files :
       offer[i].files[m] = offer[j].files[n] => i = j /\ m = n

ASSUME TabAssumption ==
  /\ MaxUploads \in Nat /\ Retries \in Nat /\ EntryLimit \in Nat \ {0} /\ MaxEvents \in Nat
  /\ \A f \in Targets : RowOf[f] = <<RowOf[f][1], RowOf[f][2]>>
  /\ \A d \in Dirs : \A offer \in Offers[d] : IsOffer(offer)
  /\ Starts \subseteq SUBSET Targets
  /\ \A f \in Targets, s \in {"sent", "loaded", "error"} : NoCall # [row |-> RowOf[f], state |-> s]

VARIABLES
  stored,    \* the paths that have a file on the server
  records,   \* the entry records of each upload
  queue,     \* the files each upload has still to send, with their places
  attempt, xhr,  \* the attempt at the first of them, and its request
  lru,       \* fs.upload.file.entry: the records kept, the oldest first
  since, timer, visible,  \* the tracker: showToastForUploadsSince, toastTimeout
  told,      \* history: the entries a toast has counted or the tracker has shown
  cwd, loads,    \* the directory of the page; whether a getContents() has begun
  cache, lists,  \* directory.list: the listings kept; the requests for one
  removal,       \* the delete in progress
  put, unsure,   \* history: what each upload stored; the answers lost then
  acked, gone,   \* history: reported as uploaded, and as deleted, and still so
  events

sending == <<records, queue, attempt, xhr, lru>>
tracker == <<since, timer, visible, told>>
listing == <<cache, lists>>
page == <<cwd, loads, listing, removal>>
history == <<put, unsure, acked, gone>>
tab == <<stored, sending, tracker, page, history, events>>

Calls == 1 .. MaxUploads
Entries == UNION {{k} \X DOMAIN records[k] : k \in Calls}
Record(e) == records[e[1]][e[2]]
InRow(row) == {f \in Targets : RowOf[f] = row}

-----------------------------------------------------------------------------
TabTypeOK ==
  /\ stored \subseteq Targets
  /\ \A k \in Calls :
       /\ xhr[k] \in {"none", "sent", "loaded", "error", "over", "done"}
       /\ attempt[k] \in 0 .. Retries
       /\ \A i \in DOMAIN records[k] :
            LET r == records[k][i] IN
            r.failed \subseteq r.files /\ r.done \in 0 .. Cardinality(r.files)
            /\ r.state \in {"loading", "loaded", "error"}
  /\ Len(lru) <= EntryLimit /\ Range(lru) \subseteq Entries
  /\ since \in 0 .. MaxUploads /\ timer \in BOOLEAN /\ visible \in BOOLEAN /\ told \subseteq Entries
  /\ cwd \in Dirs /\ loads \in BOOLEAN
  /\ \A d \in Dirs : cache[d].state \in {"none", "loading", "loaded"}

\* The types of the state; and what the tracker says of the files of an upload that is over is so: one it
\* does not count as failed was stored by that upload, and one it does was not,
\* unless the answer to an attempt was lost after the server had stored it; the
\* next attempt is then refused as a duplicate (FsModel.js:135, FsService.js:86).
UploadsTruthful ==
  /\ TabTypeOK
  /\ \A e \in Entries : Record(e).state # "loading" =>
       /\ Record(e).files \ Record(e).failed \subseteq put[e[1]]
       /\ Record(e).failed \cap put[e[1]] \subseteq unsure[e[1]]

\* A listing that is kept shows the files that an upload has ended with and not
\* the rows that a delete has ended with, as long as nobody undoes that, though
\* getMetadata() and list() are free to answer from the cache; unless it was
\* being fetched as the cache was cleared (clearCache.js:8, FsModel.js:107, 151).
OwnChangesSeen ==
  \A d \in Dirs : cache[d].state = "loaded" /\ ~cache[d].old =>
    /\ \A f \in acked : RowOf[f][1] = d => RowOf[f][2] \in cache[d].rows
    /\ \A row \in cache[d].rows : ~(InRow(<<d, row>>) \subseteq gone)

\* Once no upload goes on and no toast is due, a toast has counted every file and
\* folder that was dropped, or the tracker has shown it, also where one upload
\* began before the toast of another; unless a folder without files was dropped,
\* which is loading for ever (caskfs-upload-tracker.js:130, FsModel.js:94).
EmptyDropped == \E e \in Entries : Record(e).files = {}
Announced ==
  (\A k \in Calls : xhr[k] \in {"none", "done"}) /\ ~timer /\ ~EmptyDropped => Entries \subseteq told
=============================================================================
