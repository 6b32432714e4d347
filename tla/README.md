# CaskFS in TLA+

CaskFS is a file system on top of a content-addressed store. PostgreSQL keeps
the files, directories, permissions and linked data; the contents are files
named by their SHA-256 hash on a disk (or in a bucket). This directory holds
TLA+ models of the system, the instances TLC checks, and proofs for TLAPS.
Source lines below are relative to the repository's `src/`.

## 1. The system

| Part | State it keeps | Operations | Talks to |
|---|---|---|---|
| Content store: `lib/cas.js`, `lib/storage/fs.js`, `schema/layer1-cas.sql` | hash files, their `.nq` companions, temporary files; table `hash` | `stageWrite`, `finalizeWrite`, `abortWrite`, `read`, `delete`, `deleteUnusedHashes`, `powerWash` | disk, database |
| File operations: `index.js`, `lib/database/index.js`, `schema/layer2-fs.sql` | table `file`; per call, one transaction and an advisory lock on the path | `write`, `copyFile`, `deleteFile`, `patchMetadata`, `read`, `metadata`, `sync` | content store, directories, ACL, linked data |
| Directories: `lib/directory.js`, `index.js` | table `directory` | `mkdir`, `ls`, `copy`, `deleteDirectory` | files, ACL |
| Access control: `lib/acl.js`, `layer2-fs.sql` | `root_directory_acl`, `directory_acl`, `acl_permission`, users, roles; a cache per process | set and remove permissions, inherit on `mkdir`, `hasPermission`, `checkPermissions` | every call |
| Partition keys and auto-paths: `lib/auto-path/` | `partition_key`, `file_partition_key`, the rules; a copy of the rules per process | `set`, `remove`, `getAutoPathValues`, `add_partition_key` | `write` |
| Linked data: `lib/ld.js`, `schema/layer3-ld.sql` | filters, links and literals of each file, in rows that files share | `insert`, `delete`, `read`, `find`, `relationships`, `literal` | `write`, `deleteFile` |
| Database client: `lib/database/pg-client.js` | a connection or a pool | `query`, `getPoolClient`, `runInTransaction`, `openTransaction` | PostgreSQL |
| Bulk import: `bin/lib/transfer.js`, `file-processor.js` | a queue, worker processes, the hashes sent so far | classify, write by hash, send what is missing; ACLs, rules | file operations, HTTP |
| Export: `lib/transfer.js` | none | archive of tables and contents | database, content store |
| HTTP API and client: `controllers/`, `lib/http-client.js` | a request in progress | routes of `/fs`, `/dir`, `/rel`, `/find`, ... | file operations |
| Web user interface: `api/`, `client/` | upload records, toasts, cached listings | `upload`, `getMetadata`, `list`, `delete` | HTTP API |
| Command line, configuration, header authentication: `bin/`, `lib/config.js`, `lib/environment.js`, `lib/middleware/` | `environments.json` | log in, choose an environment | all of the above |

What is hard here:

* **Two kinds of state.** The tables change at COMMIT; the disk changes at once
  and is shared. `cas.delete()` unlinks a hash file inside a transaction that
  has not committed, and `finalizeWrite()` trusts a hash file it merely finds.
* **READ COMMITTED.** Every statement sees what is committed by then, so a
  count, a check or a row read earlier may be out of date when it is used.
* **Locks in layers.** An advisory lock per path, row locks on hash rows, keys,
  uris and links that files share, and no lock at all on a hash file.
* **Which connection.** A transaction belongs to a connection, and a statement
  given to the pool runs on whichever connection is free.
* **Failure half way.** The statements of `write()` have a lock timeout and a
  statement timeout (`index.js:176-178`; those of other calls have none), a
  server breaks deadlocks by failing a statement, a copy may run out of space,
  an upload may be cut off, a process may die.
* **Computed in advance.** Which ACL governs a directory, which keys a file has
  and what its linked data says is stored and not looked up, so every change
  of an ACL, a rule or a file has to rewrite it.
* **Many calls that make one.** Copies and deletes of directories, exports,
  imports, answers about links and HTTP handlers are sequences of transactions,
  with everyone else in between.
* **Answers remembered.** Permissions, auto-path rules and directory listings
  are kept in memory, in the server and in the browser.

What makes each part correct: the content store never loses the content of a
committed file and in the end drops what nobody uses; the file table is an
atomic map, and its rows never refer to a missing hash; a connection is used by
one call at a time and keeps nothing of the one before; a directory inherits
the ACL of its nearest ancestor that has one, and a call does what the rules
allow and nothing else; files have the keys of the rule; the index has the
linked data of each file, and answers are true; a walk skips and leaves
nothing; an import sends each content once and loses no file; what HTTP or the
browser reports has happened.

## 2. The modules

| Module | What it is | Instance for TLC |
|---|---|---|
| `CaskStore` | Sessions that write, copy, move, delete and garbage-collect files over the tables and the disk | `MCCaskStore`, `MCSequential`, `MCWaiting` |
| `AtomicStore` | The abstract name space they promise: a map on which each call acts at one instant | through `RefinesAtomicStore` |
| `Connections` | The same calls over the server's pool: which connection each statement runs on | `MCConnections` |
| `AclInheritance` | Sessions that set and remove directory ACLs and create directories | `MCAclInheritance`, `MCWaiting` |
| `Permissions` | Users, roles, permissions, the check every call makes, the cache, the import of ACLs | `MCPermissions` |
| `DirectoryTree` | Paged listings, and the walks over them: copy, move, download, `ls`, recursive delete | `MCFiles` |
| `HttpFiles` | The requests of the HTTP client and the handlers of `/fs` and `/dir` | `MCFiles` |
| `Files` | The two of them together: names for the state of `HttpFiles`, and what holds of both | `MCFiles` |
| `LinkedData` | The tables of layer 3 under writers, and what is asked of them | `MCIndex` |
| `PartitionState`, `PartitionKeys` | Auto-path rules in the memory of servers and the keys of files; the part of the state that says what a rule is for is in a module of its own | `MCIndex` |
| `Index` | `LinkedData` and `PartitionKeys` together | `MCIndex` |
| `TransferState`, `Transfer` | Export, import and `cask cp`: the state with what has to hold of it, and the steps | `MCTransfer` |
| `FileProcessor` | The pool of processes that hash the files of a bulk copy | `MCTransfer` |
| `WebState`, `WebClient` | One browser tab, state and handlers: uploads, toasts, listings, deletes | `MCSequential` |
| `CaskStoreProofs`, `ConnectionsProofs`, `AclInheritanceProofs`, `PermissionsProofs`, `FilesProofs` (of `DirectoryTree` and `HttpFiles`), `IndexProofs` (of `LinkedData` and `PartitionKeys`), `TransferProofs` (of `FileProcessor` and `Transfer`), `WebClientProofs` | The inductive invariants and the theorems | |

The modules meet at the tables. `CaskStore` has the files and the disk, and the
others take from it that a write is one transaction that happens or does not
(`RefinesAtomicStore`): `LinkedData`, `PartitionKeys`, `Transfer`,
`DirectoryTree`, `HttpFiles` and `Permissions` use it as one or two steps of
theirs. `Connections` takes the steps of the transactions and asks where they
run; the others have a connection per call, as the command line has.
`AclInheritance` has the steps of a transaction that changes ACLs, and
`Permissions` uses each as a whole. `FileProcessor` gives `Transfer` the hashes
of local files, and `WebClient` sees the server as a set of files, which is what
`HttpFiles` promises of its answers.

Where two components neither call each other nor share a table, one run checks
both **side by side**: an initial state starts one of the two and leaves the
other at its end, and each step is one of the started component (`MCTransfer`,
`MCFiles`, `MCIndex`, `MCSequential`, `MCWaiting`). This is one exploration for the two, and
no behaviour mixes them. Where one of the two modules is the larger, the state and
the properties of the other are in a module of their own (`TransferState`,
`WebState`, `PartitionState`) or have names of their own (`Files`, `Index`), so that
a proof can speak of both without their variables clashing.

What PostgreSQL does is modelled from its documented behaviour: the foreign key
takes a key share on the row it refers to, `ON CONFLICT` waits for another
transaction's insert or delete of the same value, a DELETE waits for key shares
and is refused while a visible row refers to it. A wait is the guard of an
action. An action is the code between two points where others can interfere.

### CaskStore

A session is one command line process (`write()` opens a connection of its own,
`index.js:145-152`; `deleteFile()` runs on the one of its `CaskFS`). Its place
in the code is `pc`, its call `req`.

| State | Code |
|---|---|
| `content`, `fileId`, `row` | committed rows of `caskfs.file` and `caskfs.hash` |
| `change`, `rowIns`, `rowDel` | what the open transaction of each session has not committed: its file row, its INSERT and its DELETE of a hash row |
| `blob`, `copier` | the hash files: absent, truncated by a copy that is going on or was interrupted, complete; who opened it last |
| `quads` | the `.nq` companions |
| `tmp`, `strayTmp` | the temporary file of each session, and those left behind |
| `fid`, `victim` | what `deleteFile()` read before it had the lock |
| `todo` | the hashes `deleteUnusedHashes()` has still to delete |

| Actions | Code |
|---|---|
| `ReadSource` | `copyFile()` reads the hash of its source |
| `WriteLock`, `StageWrite`, `RecordFile` | lock and duplicate check; `stageWrite()`; `insert_file()` / `update_file()` and the linked data |
| `CheckBlob`, `OpenCopy`, `EndCopy`, `FinishWrite` | `finalizeWrite()`: exists, copy, `.nq`, unlink of the temporary file |
| `WriteCommit` | COMMIT, and what follows it |
| `DeleteLookup`, `DeleteLock`, `DeleteFileRow` | `deleteFile()`: metadata, lock, DELETE |
| `CountReferences`, `UnlinkBlob`, `DeleteHashRow`, `DeleteCommit` | `cas.delete()` and COMMIT |
| `SweepUnused`, `NextUnused`, `DeleteUnusedRow` | `deleteUnusedHashes({limit})` |
| `Fail`, `Crash` | an error at any step; the end of the process |

Left out: directories, permissions, metadata and partition keys (they do not
decide whether a write or a delete goes through, given that the caller may do
it; they are in modules of their own).

### Connections

Calls are requests the server works on at the same time.

| State | Code |
|---|---|
| `conn`, `idle` | each connection PostgreSQL allows: closed, idle in the pool, out of it, opened by a call of its own, or left open by one that failed; the stack of `pg-pool` |
| `inTx`, `change`, `lock`, `limited` | of each connection: an open transaction, the rows it has changed, its advisory locks, and a `lock_timeout` |
| `on`, `own`, `fid`, `todo` | of each call: its connections, and what it has read |
| `alone`, `acked` | history: whether calls overlap on a path, and what the last answer said of it |

`write()` takes a connection for all its statements (`GetClient` ... `Release`);
`deleteFile()` gives each of its statements to the pool (`Take` and `Done`
around `DeleteBegin`, `DeleteLookup`, `DeleteLock`, `DeleteRow`,
`DeleteCommit`); `copyFile()` holds a transaction on one connection while its
`write()` uses another; `deleteDirectory()` opens one and runs through the
files (`EachFile`). Statements may fail (`WriteFails`, `DeleteFails`), and a
connection may be refused (`Refused`). Transactions that wait for each other in a
circle (`WaitsFor`, `Circle`) do not hang: PostgreSQL detects that and fails a
statement of one of them.

### AclInheritance

A session runs one transaction of `setDirectoryPermission()`,
`setDirectoryPublic()` or `removeDirectoryAcl()` (`runInTransaction()`,
`index.js:1406`), or the `mkdir()` of a write.

| State | Code |
|---|---|
| `exists`, `roots`, `aclOf` | committed rows of `directory`, `root_directory_acl`, `directory_acl` |
| `dirTx`, `rootTx`, `aclTx` | what the open transaction of each session has done to them |
| `acl` | `rootAcl` in `mkdir()`, `rootDirectoryAclId` in `setDirectoryAcl()` |
| `at`, `todo` | `currentPath` and the loop of `mkdir()`; the recursion of `setDirectoryAcl()` as the directories it has still to visit |

| Actions | Code |
|---|---|
| `EnsureRoot` | `ensureRootDirectoryAcl()` |
| `DeleteRoot`, `NearestRoot` | `removeRootDirectoryAcl()`: DELETE with its cascade; the recursive query for the nearest ancestor |
| `TopAcl`, `FindDir`, `InsertDir` | `mkdir()`: the ACL of "/"; `get_directory_id`; INSERT, and the ACL of the directory itself |
| `CheckAcl`, `PutAcl` | `setDirectoryAcl()`: the SELECT; the INSERT and, when it recurses, the SELECT of the children |
| `Commit`, `Fail` | COMMIT; an error and ROLLBACK |

An ACL stands for the directory it belongs to. Ids are never reused, so an ACL
that is deleted and one made later for the same directory differ: a session
that still remembers the deleted one is given `Gone` (in `Commit`). Statements
see what is committed and what their own transaction did (`SeenDirs`,
`SeenRoots`, `SeenAcl`), and wait for rows that others have changed or share
(`RootRowFree`, `AclRowFree`, `NotShared`, `NotBeingDeleted`). The recursion is
depth first in no fixed order among children, as the SELECT has no ORDER BY.

### Permissions

Users, roles and who has which; the directories with an ACL of their own, which
are public, and what they permit each role; and `gov`, the directory whose ACL
governs each. A call is `Submit`, `CheckAdmin` (`acl.isAdmin()`),
`CheckPermission` (`hasPermission()`) and `Act`, with the other calls and the
import in between. `Reasons` states from the tables alone why a requestor may
do something; `ever` and `held` collect over a call the reasons there were at
some moment, and those there were all the time. A file that is not there is
governed by nothing, and a read of it has no reason. The cache of a process
(`AclCache`) is on or off. `ImportBegin`, `ImportMember`, `ImportLook`,
`ImportEnsure` and `ImportPermit` are the steps of `_importAcl()` over an archive
that `ExportAcl` has made, in its three modes for conflicts.

### DirectoryTree

A tree of directories and files, of which a path may be both; one walk with the
stack of its recursion (`Page`, `VisitFile`, `ShowEntry`, `DeleteOne`, `Descend`,
`NextPage`, `Leave`), one page of `ls()` at a time with its offsets and totals;
and another client that writes files, making their directories in its
transaction (`Mkdir`, `InsertFile`), and deletes them. `seen` counts how often
the walk has come by each path. A path is a sequence of numbers: the name of an
entry is its rank in the order of the listing, so `ORDER BY` puts at the n-th place
the entry that n - 1 come before (`Before`, `Sorted`).

### HttpFiles

A request has the steps of its handler: `Get`, `SendBody`, `Missing` for a GET;
`Client`, `Lock`, `Upload`, `Store` for a write; `CopyLook`,
`CopyFile` and those of a write for a copy or a move; `DeleteLook`, `Remove`;
`List`, `IsFile`. `Request` makes of a method of `HttpCaskFsClient` the request it
sends, and `Parsed` is the range header parser. `Abandon` is a client that goes
away in the middle of its upload; `LockTimeout` and `RemoveTimeout` are the
timeouts of the connection. `ever` collects the contents the path of a request
had since it arrived, so that an answer can be held against them. `did` is what the
call has done; a delete that waited for its lock and finds its file gone deletes
nothing and is `"late"`.

### LinkedData

Of each file its id, its content and the content its quads were made from; the
index as pairs of a file and a row (a filter, a link or a literal); the rows,
shared by all files; and the `.nq` files. `Statements` has the four statements of a
write with a place for each quad, `Nothing` where the quad has no row of the kind;
`Inserts` puts the URIs a row refers to before it. A writer inserts the rows its
file needs in this order (`InsertRows`, `Left`), waits for another that holds an uncommitted one
(`Waits`) and may fail at that (`Fail`), and commits the file with its pairs
(`Commit`); `Replace` and `Delete` are writes over a file and deletes. A reader
asks for the links, files by filters, literals or the quads (`Ask`), and gets
its answer in the queries the code makes (`Check`, `Row`, `Links`, `Query`,
`ReadQuads`), while `Chmod` changes what it may read.

`Truth` is what an answer should be, computed from what files say and never from the
index. What a file says (`Says`) is what the parser makes of the content it has: "all
triples (or quads) in the JSON-LD or n3 file are included in Layer 3 queries"
(`docs/ld.md:17`). But `write()` skips the index of a file that is there
(`index.js:318`), so one that was `Replaced` by another content keeps its old triples.
The run `replaced` shows it. `IndexMatches` and `AnswersFaithful` except these files
and no others: of them nothing is `Promised`, so an answer may lack what they say, and
what they said when they were created is `Possible` beside what they say now. A
literal is promised of a file, or of all files that a requestor may read; without ACLs
the question about all files is answered from the shared rows, where those of deleted
files stay (section 5), and `AnswersFaithful` leaves it out. Quads that are read are
compared with those of the content, but for which file they are of (`AnyFile`): a `.nq`
file has the subjects of the first path that had its content.

### PartitionKeys

The rule, the rows of keys with their owner, and the keys of each file. A server
reads the rule when it first needs it and keeps it (`Rules`), and a write clears
the keys of its file and adds those of the client and of the rule one statement
at a time (`ClearKeys`, `AddKey`), waiting where another has an uncommitted key.
A tool sets a rule: `Look`, `Upsert`, `Refresh`, and then a sweep over a cursor of
all files (`OpenCursor`, `SweepFile`), each a statement of its own; it may fail or
be stopped (`SweepBlocked`, `Crash`). `Remove` deletes the rule and its keys.
`known` and `last` are history: which version of the rule each process has, and
who gave a file its keys.

### Transfer

An export queries hashes with their paths, and packs each content it finds
(`Query`, `Stat`, `Open`, `Exported`). An import scans an archive, a copy crawls a
local directory, and both go on in batches: `SyncFile` writes a file by its
hash, `Synced` looks at what was missing, `SendFile` sends the content of the
first file of each missing hash and leaves the others for a later round
(`FollowUp`). Straight into PostgreSQL, over HTTP, with and without overwriting;
writes fail, other clients write and delete, and a run that has stopped is run
again (`Again`). What a run is about (`source`, `todo`, `batch`, ...) and what has to
hold of it is in `TransferState`.

### FileProcessor

The parent process runs one handler at a time; the workers are child processes,
and messages go both ways in between.

| State | Code |
|---|---|
| `started`, `idle`, `queue`, `callbacks` | `_started`, `_idle`, `_queue`, the keys of `_callbacks` |
| `submitting` | how far the loop of `processBatch()` has come; nothing else runs in the parent until it ends |
| `promise` | the promise of each file; that of a batch follows from them (`Settled`) |
| `proc` | each process: in the pool, killed by `close()`, ended by itself |
| `inbox`, `replies` | messages to a worker that it has not answered, and answers on their way |
| `up` | no uncaught exception has ended the parent |

| Actions | Code |
|---|---|
| `ProcessBatch`, `Enqueue` | `processBatch()` with `_ensureStarted()`; `_enqueue()` of one file |
| `OnResult` | `_onResult()`, with the `_dispatch()` of the next file |
| `Close` | `close()` |
| `Work`, `Exit` | the message handler of the worker; the end of a process |

A file is the id that `_idCounter` gives it, so ids never repeat. Which idle
worker `_idle.pop()` takes does not matter, so `_idle` counts instead of
ordering. The parent does not listen for the end of a worker: a message to a
dead one is lost, or raises an `error` event without a listener, which ends the
parent. `close()` asks that `processBatch` has ended before; after a batch was
rejected, its other files may still be queued and with workers then.

### WebClient

The entry records of each call of `upload()`, the files it has still to send, the
attempt at the first of them and its request; the tracker with the start of the
uploads its next toast is about (`since`), the timer, and what it has told; the
directory of the page with the cached listings and the requests for them; the
delete form. `Upload`, `Answer`, `Lose`, `End`, `Toast`, `Navigate`,
`GetContents`, `GotList`, `Delete`, ... are handlers, which the browser runs one at
a time; `Serve`, `ReadList`, `ServeDelete` are what the server does of them, which
happens even where the answer is lost. Other clients write and delete too. What
a handler leaves to promises comes before the next handler (`Pending`).

## 3. What the runs check

Runs that pass:

| Run | Instance | What it shows |
|---|---|---|
| `soft` | 2 sessions, 2 paths (one of them linked data), 2 hashes; writes from data, a path or a hash, copies, moves, soft deletes; any step may fail | `ContentReadable`: at no time, not only between calls, does a committed file lack its hash file or have a truncated one. `RdfHasQuads`: linked data has its `.nq` file even where its content was stored as an ordinary file before |
| `hard` | 2 sessions, 2 paths, 2 hashes; writes, moves, hard deletes, garbage collection; crashes | `RowForEveryFile` and `RefinesAtomicStore` hold even where contents get lost (see below); `TypeOK` |
| `sequential` | 1 session, every kind of call but replacement and soft delete, no faults | `ReadableWhenQuiet`, `RowsMatchBlobs`: alone and undisturbed, the code keeps the tables and the disk in step, and a delete of the last file with a content removes it |
| | beside it, one tab; 2 calls of `upload()`, of a file and folders, one of them of hidden files only; 2 directories; one lost answer, failed request or change by others | `UploadsTruthful`, `OwnChangesSeen`, `Announced` |
| `connections` | 2 requests over a pool of 2, of 3 connections PostgreSQL allows; writes, copies, deletes, deletes of directories; any statement may fail | `PoolConsistent`, `AckedWritesStay`, `HangsExplained` |
| `waiting` | a tree of 5 directories, 3 of which exist; one session sets and removes ACLs anywhere, the other creates directories; any statement may fail; fairness | `AclInScope`, `ExistingInherit`, `CallsEnd`, `TypeOK` |
| | beside it, 2 sessions, 2 paths that get one content, hard deletes, garbage collection; fairness | `StoreCallsEnd`: advisory locks, uncommitted hash rows and key shares never make sessions wait for each other for ever |
| `permissions` | 3 users, 2 roles, a tree of 4 paths, one of which is a directory and a file; a user's calls, an administrator's, and an import in each of its modes; the cache on or off | `GrantedByRule`, `GrantsHonoured`, `ImportKeeps`, `TypeOK` |
| `files` | 5 trees of up to 6 paths, 5 kinds of walks, pages of 2 entries, another client that writes and deletes; fairness | `NothingSkipped`, `DeleteIsComplete`, `WalkEnds`; `FilesTypeOK` of both |
| | beside it, 2 HTTP requests at the same time of 3 in all, two files of which one lies below the other's path, a pool of 2; fairness | `AnswersTruthful`, `RequestsAnswered` |
| `index` | 3 files of which 2 are linked data, with quads about each other; 2 writers, 1 reader, 7 questions; an ACL that changes | `IndexMatches`, `AnswersFaithful`; `IndexTypeOK` of both |
| | beside it, 2 servers and a tool, 2 files, 2 keys, 2 definitions of a rule | `RuleReaches` |
| `transfer` | 3 files, 2 contents, batches of 2; exports, imports and copies in each mode; 2 mishaps | `TransferTypeOK`, `ExportFaithful`, `ImportComplete`, `UploadedOnce` |
| | beside it, 2 batches of 3 and 2 files, a pool of 2 and one more process; workers may die; fairness | `OneAtATime`, `NoIdleWhileQueued`, `NothingLost`, `BatchesSettle` ("no worker is ever starved while another idles", `file-processor.js:12`) |

What the properties say:

* `RefinesAtomicStore`: the code implements `AtomicStore`. Each call acts on the
  name space at one instant, its commit, or not at all; a write without
  `replace` only where there is no file; a copy with a hash that its source had
  at one instant; a move as a copy and then a delete.
* The type invariants say more than types where the code relies on it.
  `FilesTypeOK`: every file and directory lies in a directory that is there.
  `IndexTypeOK`: no row of the index without its file and its URIs, no key of a file
  without the row of the key. `TransferTypeOK`: a file has its content. `TypeOK` of
  `FileProcessor` is part of `OneAtATime`.
* `PoolConsistent`: no two calls ever have one connection, the pool neither loses
  one nor hands it out twice, and what a failed call leaves open holds no
  transaction, lock or row. `AckedWritesStay`: what a write has reported is
  there until a call that may remove it begins, although the statements of
  `deleteFile()` run in whatever transaction their connection is in.
  `HangsExplained`: when nothing can go on, it is for one of two reasons, and
  there is no third: every connection is with a write that asks the pool for the
  auto-path rules (`index.js:250`), or a deletion waits for what lies in a
  connection that nobody holds any more (`index.js:860`).
* `ExistingInherit` compares `directory_acl` with the definition of inheritance
  (`Governs`), after any sequence of changes and removals; in particular an ACL
  of its own governs a directory.
* `GrantedByRule`: a call that acts was allowed to by the rules at some moment
  since it began. `GrantsHonoured`: one that is refused was not allowed by the
  same rule all the time, and no directory is hidden that may be read; with the
  two exceptions the property names. `ImportKeeps`: outside the merge mode an
  import does not touch the ACLs that were there when it began.
* `NothingSkipped`: a walk that nobody interferes with handles every entry, and
  once; provided that a directory of more than one page has only files or only
  directories (section 5 has what happens otherwise). `DeleteIsComplete`: a
  recursive delete that reports success has left nothing, not even what was
  written meanwhile.
* `AnswersTruthful`: size, tag, range and status are those of one content the
  path had during the request, a write that is acknowledged has happened and one
  that is refused has not, a range has the bytes it should, and a move deletes
  only after it has written. A copy of a source that is not there answers 200 with
  nothing copied, and is allowed to. `RequestsAnswered`: each is answered, unless its
  own upload was cut off, or it needs what a cut off upload keeps.
* `IndexMatches`: the index of a file is what its content says, although writers
  share rows and some fail; except for linked data that was replaced by another
  content. `AnswersFaithful`: an answer has nothing that the files did not say at some
  moment of the call, and all that they said all the time; with the same exception,
  and that of literals of files that are gone (section 2, LinkedData). `RuleReaches`:
  a file that was written last by a server that knows the rule, or gone over by a
  sweep, has the key of the rule.
* `ExportFaithful`, `ImportComplete`, `UploadedOnce` ("Each CAS binary is uploaded
  exactly once", `bin/lib/transfer.js`), after failures, changes and restarts.
* `UploadsTruthful`: what the tracker calls uploaded was stored by that upload,
  and what it calls failed was not, but for lost answers. `OwnChangesSeen`: a
  listing that is kept shows the tab's own uploads and deletes, unless it was
  being fetched just then. `Announced`: when all is quiet, a toast or the tracker
  has told of every upload.

Runs that find a disagreement between the code and what it says of itself:

| Run | What happens | What the repository says |
|---|---|---|
| `lost_content` | `cas.delete()` counts no committed reference and unlinks the hash file that a write in progress has found in place (`cas.js:194`, `375`); the write commits a file that cannot be read | `cas.js:342`: "Delete a file from the CASKFS and the underlying storage if no other references exist." |
| `acl_mkdir` | `mkdir()` asks for the ACL of "/" and of the new directory itself (`directory.js:65`, `101`), never of the parent | `docs/rbac.md:28`: "Subdirectories will inherit the ACL of their parent directory unless a new ACL is defined for the subdirectory." |
| `replaced` | `write()` skips the RDF section for a file that is there (`index.js:318`), so a linked data file that is replaced keeps the triples it was created with in the index, and has none of its new ones (`IndexCurrent`) | `docs/ld.md:17`: "all triples (or quads) in the JSON-LD or n3 file are included in Layer 3 queries", and `index.js:319`: "if replacing an existing file, delete old triples first" |

More disagreements are listed in section 5.

### Bounds, and why they are enough

* Two sessions, calls, requests or writers: nearly every hazard listed in
  `PROJECT.json` is between two actors, the one that looks and the one that
  changes what was looked at. For the properties that are proved the number does
  not matter.
* Two paths and two hashes: two files that share a content, one that changes
  content, a copy from one to the other. `FileIds` has four values: two
  committed rows, and one being inserted by each session.
* Hash files are absent, partial or complete; bytes are modelled only where a
  range is cut out of them (`HttpFiles`: contents of three bytes and of one, so
  that a range may lie inside, at the end and beyond).
* A pool of two of three connections: a copy needs two at once, so the pool, and
  PostgreSQL, may run out; a third is needed for transactions opened next to it.
* The tree of the ACL runs has a chain of three below "/" and a sibling, so that
  an ACL may be overridden in the middle of the chain, removed there, and
  handed past a directory with its own.
* Pages of two entries (`PageLimit`), a default of three and directories of three
  entries: pages that are full, half full and empty, pages that directories
  fill, and offsets beyond the directories. `MaxEdits = 2` lets the other client
  add and remove on either side of a page's border.
* `MaxCalls = 3` in `Permissions`, `HttpFiles` and `PartitionKeys`: a call that is
  overtaken by two others, or one after another that changed what it finds.
  `MaxWrites = 4` counts the files of the start too. `MaxRules = 2`: a rule and
  another in its place.
* `MaxMishaps = 2` in `Transfer`: two of a failed write, a change by others and a
  restart. The pool has fewer workers than a batch has files, so files are
  queued, and a spare process, so that a pool may be closed and forked again
  while a reply of the old one is on its way. A batch is submitted once (ids
  never repeat).
* `Retries = 1` (the code's number is 3), `EntryLimit = 2` (the 100 of
  `FsStore.js:13-14` are never read, see section 5): the last attempt, and an entry
  that is dropped while it is needed, come sooner. Two uploads
  overlap, and `maxConcurrentUploads` is 1 as in the code.
* In `CaskStore`, `Connections` and `AclInheritance` calls are not counted:
  sessions make calls for ever, and the state spaces are finite as they are.

Deadlock is checked where sessions always have something to do. The runs
`connections` (it may hang, which is what `HangsExplained` is about),
`permissions`, `index`, `transfer` and `sequential` end when their calls are used
up, and say so.

### Fairness

`FairSpec` of `CaskStore` and `AclInheritance` gives each session strong fairness
on its own steps and nothing else. Between two awaits node.js runs to completion
and comes back; what a session waits for is a PostgreSQL lock, and PostgreSQL
queues waiters, so that one whose lock becomes free again and again is served.
No call is ever made for sure (`Submit`), and no failure or crash is: `CallsEnd`
and `StoreCallsEnd` do not rely on timeouts. (`MCFairSpec` of the run `waiting` is the
fairness of one of the two, since the other stands still.) `HttpFiles` has the same for the steps of a handler
(`Serve`), for which a connection of the pool may be the thing that becomes
free; the timeouts (`RemoveTimeout`) and the client that goes away (`Abandon`)
are not fair. An upload ends or is cut off.

In `FileProcessor` the loop of the parent goes on, messages arrive, and a worker
that has a file answers (weak fairness of `Enqueue`, `OnResult`, `Work`): its
handler catches every error. No worker has to die, and no batch has to come.
Since nobody notices a dead worker, `BatchesSettle` excepts that case.

In `DirectoryTree` the walk goes on, and a write that has begun ends (weak
fairness of `Walk` and `InsertFile`): a recursive delete may have to wait for it.
Nobody else has to do anything. The other modules have safety properties only;
`Announced` and `HangsExplained` say as invariants what must hold once nothing
goes on.

## 4. What is proved

| Theorem | Says |
|---|---|
| `TypeCorrect` | `TypeOK` of `CaskStore` |
| `RowIntegrity` | no file row ever lacks its hash row |
| `ImplementsAtomicStore` | `CaskStore` implements `AtomicStore` |
| `SoftContentReadable` | without hard deletes, garbage collection and crashes every committed file can be read at all times |
| `LinkedDataHasQuads` | under the same conditions, and when linked data is not replaced, every linked data file has its `.nq` file |
| `AloneReadable` | `ReadableWhenQuiet`: a session that is alone and not interrupted leaves every file with its content at the end of each call |
| `AloneReclaims` | `RowsMatchBlobs`: if it also deletes for good and replaces nothing, hash rows and hash files agree, and each has a file |
| `ConnectionsKept` | `PoolConsistent`: a connection is used by one call at a time, the pool neither loses one nor hands it out twice, one left open holds nothing |
| `WritesStay` | `AckedWritesStay`: a file of which a write or copy has reported success is there until the next call that may change it begins |
| `HangReasons` | `HangsExplained`: calls that all hang do so for one of the two reasons named above |
| `AclTypes` | `TypeOK` of `AclInheritance` |
| `AclsInScope` | the ACL of a directory is there and belongs to it or to an ancestor |
| `AclsInherited` | `ExistingInherit`: with one session that changes ACLs and one that creates directories, each directory has its own ACL or that of its nearest ancestor with one |
| `ReferencesKept` | `TypeOK` of `Permissions`, which has its foreign keys: what permissions, memberships and `gov` refer to is there |
| `GrantsHaveReasons` | `GrantedByRule`: nobody is let do what the rules did not allow at some moment of the call |
| `ReasonsAreHonoured` | `GrantsHonoured`: nobody is refused what the same rule allowed all the time, and no directory is hidden that may be read, with the exceptions the property names |
| `ImportsSpare` | `ImportKeeps`: outside the merge mode, an import changes no ACL that was there when it began |
| `TreeInvariant` | every path lies in directories that are there, and the frames of a walk lie within each other below the directory it was asked for |
| `WalksCover` | `NothingSkipped`: a walk that nobody interferes with handles each entry, and once, if its directories are of one kind or fit a page |
| `DeletesCompletely` | `DeleteIsComplete`: a recursive delete that succeeds leaves neither the directory nor anything below it |
| `HttpInvariant` | at each of its steps, what a handler has found its path had since the request arrived, and what it has done is what the call is for |
| `AnswersAreTrue` | `AnswersTruthful`: what the server answers is true of the files |
| `FilesTypes` | `FilesTypeOK`: the types of the walk and the requests, and that paths lie in directories that are there |
| `IndexInvariant` | files have ids of their own, with the rows they were created with in the index, and a write an id that nothing is stored under |
| `IndexIsOfFiles` | `IndexMatches`: the index has of each file what its content says and nothing else, except of linked data that was replaced by another content |
| `TablesInvariant` | entries of the index have their file and their row, rows their URIs, and `.nq` files are those of their quads |
| `AnswersTrue` | `AnswersFaithful`: an answer in any number of queries has nothing that the files did not say at some moment, and all that they said all the time; linked data that was replaced, and literals of files that are gone, are excepted as in section 2 |
| `KeysInvariant` | a write that knows the rule as it is has its key in hand until it commits, and a sweep leaves every file it has gone over with a key of the rule as it is |
| `RuleHolds` | `RuleReaches`: a rule reaches the files that a process that knows it, or a sweep without error, has gone over |
| `IndexTypes` | `IndexTypeOK`: the types and the foreign keys of linked data and of partition keys |
| `PoolTypes` | `TypeOK` of `FileProcessor` |
| `WorkersHandleOne` | a worker of the pool has one file or is idle; late replies do no harm |
| `QueueDrains` | no file is queued while a worker idles |
| `FilesKept` | no file is lost or with two workers, as long as no worker dies |
| `TransferTypes` | `TransferTypeOK`: whoever writes and deletes beside an import, every row has its content |
| `ExportsFaithful` | `ExportFaithful`: an export that reports success has packed all it listed |
| `ImportsComplete` | `ImportComplete`: each file of an import or copy that ends is as it should be, unless a failure was reported or somebody else has changed its path |
| `UploadsOnce` | `UploadedOnce`: no content is sent twice, unless it was deleted in between |
| `WebUploadsTruthful` | `UploadsTruthful`: what is shown as uploaded was stored, and what is shown as failed was not, but for lost answers |
| `WebOwnChangesSeen` | `OwnChangesSeen`: a listing that is kept shows the tab's own changes, unless it was being fetched just then |
| `WebAnnounced` | `Announced`: when all is quiet, every upload has been told of |

They hold for every set of sessions, paths, hashes, connections, users, roles,
directories, trees, sizes of a page, contents, questions, rules, servers, workers,
batches, requests and uploads. The assumptions are those on the constants, which TLC
evaluates in every run:

| Assumption | Says |
|---|---|
| `ConstantsAssumption` of each module | special values differ from the real ones, calls are well formed, trees are closed under parents, a walk begins at a path; a file has one row to start with, quads are records |
| `PathsAssumption` (`DirectoryTree`) | there are finitely many paths, so that a listing can be put in order |
| `HttpAssumption` (`Files`) | the methods of the client have the arguments they are called with |
| `QuestionsAssumption` (`LinkedData`) | a question has one of the four forms, and is about a path |
| `KeysAssumption` (`Index`), `ProcessesAssumption` (`PartitionState`) | a definition makes keys of paths; a tool is no server |
| `TransferAssumption` (`TransferState`) | paths and hashes are finite, a batch has room for a file, and a local directory lists a path with one content |
| `TabAssumption` (`WebState`) | a drop has something in it, and no file twice |
| `SetupsAssumption`, `ArchiveAssumption` (`Permissions`) | the tables to start with, and the archive an import reads |

A theorem about one of two modules side by side assumes the specification of that one;
`FilesTypes` and `IndexTypes` are about both and assume both. Five more assumptions are
each stated in its theorem. `SoftContentReadable` assumes
`SoftOnly`: no request is a hard delete or a garbage collection, and `"crash"` is
not among the faults; `lost_content` and the observation on crashes in section 5
show that it has to. `LinkedDataHasQuads` also assumes `RdfCreatedOnly`: linked
data paths are created and deleted, but not replaced or copied onto. A file that
is replaced skips the parser (`index.js:318`), so its `.nq` file would be missing;
the run `soft` makes its calls within both assumptions. `AclsInherited` assumes
`OneOfEach`: one session changes ACLs and one creates directories. Section 5 has
what two of either kind do to each other. `AloneReadable` assumes `OneSession`,
which is alone and has no faults: with a second one the run `lost_content` loses a
content. `AloneReclaims` adds `Reclaiming`, that no call replaces a file or deletes
softly, since neither gives a content back; the run `sequential` makes its calls
within both.

**CaskStore.** `RowForEveryFile` is not inductive: whether a commit may add a
file row depends on hash rows of transactions that are still open. `IInv` adds

* `Calls`: what a session has uncommitted fits where it is;
* `RowInv`: a row about to be referred to is there or inserted by its referrer,
  and a row about to be deleted is referred to by nobody else. This is what the
  foreign key and the unique index buy, and the code checks none of it;
* `LockExclusion`: the advisory lock of a path has one holder;
* `FoundStaysTrue`: so the duplicate check of `write()` still holds at its
  commit, which is what the refinement needs.

Each action either changes nothing the other sessions' part of `IInv` speaks of
(`Frame`) or has a lemma of its own. The refinement maps every commit to the
abstract action of the call, `ReadSource` to `Resolve`, and all else to a
stutter. `SoftInv` adds, for the readability, that a hash with a committed row is
stored complete (`RowsStored`) and that only the one session that inserts the
row copies the content (`OneInserter`, `CopyIsNew`, `CopyOwned`): the unique
index of the hash table, not the disk, is what keeps a writer from taking a
half copied file for a whole one. For `RdfHasQuads` the heart is that a write that is
about to commit linked data has written the `.nq` file of its hash (`ParsedAtFinish`:
also where the content was in place, as long as there is a temporary file to
parse), and that nothing removes one (`QuadsGrow`). For one session alone, `InStep`
says of each hash but those its call is just changing that the row is there exactly
when the hash file is (`Settled`), and of those how far the call has come
(`Inserting`, `Unlinking`): a row that is new gets its content before the commit, a
content that goes loses its row after it. `Reclaims` adds that a row without a file
is on its way out.

**Connections.** Which connections are out is read off the calls: `IInv` has for
each call what it holds at its place (`Holding`, with `on` and `own` distinct from
each other and from those of others: `Distinct`), for the pool's stack that it has
the idle ones, each once (`Stack`), that no connection is out without a holder
(`Accounted`), and that one that is left open has nothing (`LeftClean`). Each
statement only changes the connection it runs on, so most actions disturb one
call; the hard ones are the ends of calls, where a connection goes back, is
closed, or is kept by nobody. For `AckedWritesStay`, `AckInv` follows what each
connection has uncommitted: a path that has been reported and not touched since
is changed by no open transaction, as the lock of the path keeps others away until
the write has committed. For `HangsExplained`, `WaitInv` says who can hold what
a call waits for: a lock belongs to a transaction, a transaction to a call that
is at a statement or to a connection that nobody holds; so a chain of waits ends
at a call that can go on, at a circle, at the pool, or there. That a circle does
not hang is the deadlock detection of PostgreSQL (`Circle`).

**AclInheritance.** `AclInScope` needs the same of what transactions have handed
out (`HandedOut`), of the ACL they have in hand (`Handing`: it is above all
that the recursion has still to visit), that a transaction that deletes an ACL
has changed every row that refers to it (`Deleting`: the cascade), and that
meanwhile nobody else hands it out (`Exclusive`: key shares). The paths of
`mkdir()` need that its loop stays on the path it was asked for (`OnPath`).

`ExistingInherit` compares the table with what the walk of `setDirectoryAcl()` was
to compute, so `Inherit` follows the walk. A directory either has the ACL it
should, as the transaction sees it, or inherits from one the walk has still to
visit (`Covered`); those that inherit from the same one have the same ACL now, so
that a walk that stops where nothing changes leaves out nobody (`Uniform`); no
directory of the frontier lies above another (`Spread`), and the ACL in hand is
the right one for all of them (`InHand`). `mkdir()` touches the directories it
creates and no other (`Create`), which is where one creator is needed.

**Permissions.** `Rooted` says that "/" and the parents of every directory and file
are there, so the governing ACL a check finds belongs to something that exists;
`NothingCached` that the cache never comes to hold an answer (section 5), with
which `hasPermission()` is always a look at the tables. Then `HadReason`: a call
that has passed `CheckAdmin` or `CheckPermission` has, in `ever`, the reason it
passed for. What the queries of either check find is one of `Reasons` at that moment (lemmas
`AdminReason`, `PermissionReason`). `ImportKeeps` is a property of actions: the ACLs
that were there when the import began (`kept`) are never the one it has in hand
(`NotKept`). The other direction, `Refused`, follows from the queries as well: what
allowed a call all the time allowed it when it was looked up, but where a user has
an account and no role, or where the cache answers.

**DirectoryTree.** `Closed`: every path lies in directories that are there. The other
client looks for each directory above its file once and inserts the file later,
while the walk deletes: `Filling` says that from the first one it has made on the
others stay, since a directory is deleted only with nothing in it, and the
transaction that makes one holds the row of its parent. `Framed`: the stack of the
walk begins at the directory it was asked for, each frame is a child of the one below
it, and what it lists are children of its own. So when the delete of that directory
succeeds and nothing has it as a parent, nothing lies below it (`NothingBelow`: the
child on the way to a path below would have to be there).

`NothingSkipped` says of a walk that is over what it has come by; `Deep` says at each
moment what it still owes. The stack has a frame for each directory from the one it
was asked for to the one at hand; a frame owes what is left of its page and what the
next pages will hold (`OwesFiles`, `OwesDirs`). `Covers`: every entry of the directory
is owed, or is the directory of the next frame, or has been seen with all that is
below it. `Once`: what has been seen is owed by nobody, nor is a directory above it.
Two facts about listings carry this. An order by rank has every child of a directory
exactly once (`EachHasItsPlace`, by counting: n - 1 come before the n-th). And a page
and what follows it have between them what was left before (`PageSplits`), if the
directory has one kind of entries or fits a page; this is where the offset of the
code is right, and section 5 has where it is not. The pages of `cask ls` do not
descend, and have an invariant of their own (`Flat`). A directory that is a file as
well is where a walk comes by things twice (`VirtualAbove`), and the property excepts
what lies below one.

**HttpFiles.** A request is invariant by itself: `Serving` says what its handler knows
and has done at each of its steps. A file it has found its path had since the request
arrived (`ever` grows with every change, whoever makes it), a range it goes on with
can be satisfied for that file, a move that comes to its delete has written, and a
write that is to be stored has the content that was sent. `Truthful` says of the
answer what `AnswersTruthful` asks. Another request changes nothing of this but
`ever`, which only grows; so each step has a lemma about its own request, and one
lemma (`StandsBy`) speaks for all the others. That the bytes cut out are those RFC 9110
asks for is a lemma on `Parsed` for every size and range.

**LinkedData.** `FilesIndexed` says of the committed files and the index together
what `IndexMatches` says of each in terms of quads: the rows under the id of a file
are those of the content it was created with (`Told`), which is the content it has
unless it was replaced (`ToldUnlessReplaced`). `Working`: writers have paths and ids
of their own, the ids stored under by nobody. When a write commits, each of its four
statements has found or made its rows, so none is missing (`NothingLeft`), although
it may have waited for, and then taken over, the rows of others; that rows and quads
say the same is a lemma on the parser (`RowsSay`).

`AnswersFaithful` needs the tables first: an entry belongs to a file that is there
(`RowsOwned`: a file is inserted after nothing and deleted with its entries), rows come
after the URIs they refer to, in the tables and in what each transaction sees
(`RowsClosed`), and a `.nq` file is that of its content (`Companions`). Then the
readers. Of a call `ever` has what might be answered at some moment, and `always` what
had to be answered at all moments (`May`, `Must`). What the index was told gives an
answer between the two (`Was`, `Between`: `Truth` grows with what files say, `Monotone`),
so that answer lies between `always` and `ever` (`Bounds`); and `Progress` says how far
the answer has come: what it has is in `ever`, and what it has gone past and was
always so is in it. A reader that looked up the id of a file uses it in later
queries. The file may be gone by then, but then for ever, since ids are not used again;
in that case nothing was true all the time, and the queries find nothing (`Follows`).
Each query is compared with `Was` through the rows of a file (`Entries`,
`KindsOfRows`), by the invariants above and never by looking at who wrote them.

**PartitionKeys.** A process that knows of the last change of the rule knows the rule
(`Knows`, with the versions as history), and a write that does has the key to add
at the end of its list, or has added it, after which nothing it does takes it away
(`Planned`, `Writing`). `Setting` says of the tool that what it has gone over since
it set the rule was given its keys since, except files that were deleted meanwhile.
A change of the rule makes all of this about an earlier version. For the types
(`KeyTypesInv`), a key that a write has added has a row, of its own transaction or of
no other, so a commit refers to no key that is gone (`WriteKeys`); and what the cursor
of a tool has left is there or known to be lost (`Sweeping`).

**FileProcessor.** That a reply is known to the parent exactly when it comes from
the pool (`WorkerOK`) is the heart: an unknown reply makes its worker neither
idle nor busy, so that a file handed out twice would cost the pool a worker.
`Apart` and `Once` say that this cannot happen: a file is in one place.
`Kept` is `NothingLost` without the "once", which follows from those two.

**Transfer.** Each file of the source is still to come (`Pending`: in the list, the
batch, among the missing or the later ones), or a failure was reported, or somebody
else has changed its path, or it is as it should be (`Handled`, `Good`). That a good
file stays good is `Ours`: a path that nobody else has changed has what it had before
the run or a content it is to have. The hard part is a file that is linked by its hash
after another has sent the content: `Unsent` says why the first of them is not refused
as a duplicate, and `SentStored` that the content is there when the others follow,
over a restart too. `SentOnce` is about sends: a hash that was sent once is stored, so
`sync()` does not find it missing again, and of the missing ones no second file of a
hash is sent. An archive is a beginning of what was listed (`Packed`). The order of its
files is a fold over its entries, of which only the type is needed; as induction is
out of reach, `TransferProofs` takes a least counterexample.

**WebClient.** `UploadOK` relates the records of an upload, the files it has still to
send, its request, and what the server has stored of it: a file is still to be sent,
reported as failed, or stored; one that failed and is stored had an answer that was
lost. The file at hand is the first of what is left (`First`; `Smallest`), so the
others are not stored yet (`InHand`). A record is no longer `loading` exactly when it
has come to as many files as it has (`Counted`, with cardinalities). `ListInv` says
what `OwnChangesSeen` does of the listings under way as well: clearing the cache marks
the ones being fetched `old`. `TellInv`: uploads start in order, so all that have not
been told of are those from `since` on, and as long as there is one, a timer runs, an
upload does, or a folder without files was dropped, after which no toast comes.

**Only model-checked.** Liveness is out of the prover's reach, as it needs fairness
and ENABLED: `StoreCallsEnd`, `CallsEnd` of `AclInheritance`, `BatchesSettle`,
`WalkEnds` and `RequestsAnswered`. Every invariant, action property and refinement
that a passing run checks is proved. The three properties that runs refute
(`ReadableWhenQuiet` with two sessions, `AllInherit`, `IndexCurrent`) are false of the
code.

## 5. Observations

Met while modelling, each in the code and, but for the first of linked data, none in
a run of its own. The models have the behaviour where they have the component.

**Content store and files**

* A crash during the copy into the final path leaves a truncated hash file there,
  which `finalizeWrite()` takes for complete the next time (`cas.js:194`); with
  `"crash"` among the faults `ReadableWhenQuiet` fails for one session already.
* `context.data.replacedFile` is never the replaced file (`index.js:308`), so the
  content of a replaced file is never reclaimed, although `index.js:382` says "if
  we replaced an existing file, and the hash value is no longer referenced,
  delete it".
* The catch block of `write()` looks at `context.stagedFile` (`index.js:366`), which
  is never set, and the temporary file stays; `index.js:358` says "rollback the
  transaction and delete the temp file".
* `deleteFile()` reads the row, waits for the lock, and deletes by the `file_id` it
  read (`index.js:861-874`); it reports success with a newer file in place.
* Two hard deletes of the two files of one content each still count the other's
  file (`cas.js:358`), and both keep the hash.
* `deleteUnusedHashes()` deletes the rows first and unlinks later, with a count in
  between but no lock (`cas.js:482-510`); a writer that reuses the hash at that
  point loses its content as in `lost_content`. As the rows are gone, `delete()`
  also looks up a wrong bucket (`cas.js:602`).
* A linked data file whose content is stored already is refused when the write
  gives the hash only, as there is no temporary file to parse (`ld.js:314-320`);
  so copies, moves and syncs of linked data fail.
* A move of a file onto itself loses it.

**Connections**

* `deleteFile()` over the pool leaves its DELETE in a transaction nobody commits,
  or deletes outside one, and reports success (`index.js:860`); what is left
  holds its locks until the connection is used again, and a delete without a
  `lock_timeout` waits for it.
* The first writes of a server hang when each connection of the pool is with one
  that asks for the auto-path rules over another (`index.js:250`); the comment at
  `index.js:174` counts on timeouts, which the pool does not have.
* `runInTransaction()` does not close its connection after an error
  (`index.js:1411-1413`). A ROLLBACK on a connection that is lost throws out of
  the catch block, and the client is never released. The loss of an idle
  connection is an `error` event without a listener.

**Access control**

* `setDirectoryAcl()` overwrites the row of a child whose ACL was set after the
  children were read (`acl.js:770-780`); `index.js:1223` says "all child directories
  will inherit the permission unless explicitly overridden".
* `mkdir()` that found a directory missing, which another creates and a third gives
  an ACL of its own before it goes on, hands it the ACL of "/" and overrides its
  own (`directory.js:65-101`); three sessions are enough for `ExistingInherit` to fail.
* `acl.setDirectoryPermission()` passes `public: false` to
  `ensureRootDirectoryAcl()`, which reads `isPublic` (`acl.js:712`, `580`); both
  come to false, so that adding a permission makes a public directory private.
* `removeRootDirectoryAcl()` throws a TypeError for a directory without an ACL
  (`acl.js:632`); `removeUserRole()` always throws; `cask acl user-remove` calls a
  method that is not there.
* With the cache on every lookup is answered `undefined`, which passes for a
  remembered answer (`acl.js:138`, `176`): everyone is refused, and nothing is ever
  remembered.
* A user with an account but no role is refused on a public directory that
  strangers may read. The answer of `allowAdminAction()` is ignored.
* An import makes ACLs without `setDirectoryAcl()` (`bin/lib/transfer.js:434`), so
  they govern nothing; in the mode `fail` it stops half way.
* `req.user` of the header middleware is an object and is used as the name of the
  requestor; the HTTP server switches ACLs off altogether (`controllers/caskFs.js`).

**Listings and walks**

* A directory of more than one page with both files and directories: the offset
  of the files is computed from the total of the directories on the page, and
  entries are listed twice or not at all. A move, which takes entries away while
  it pages, skips some in any directory of more than one page.
* The comment of `recursiveCaskLs()` on paths that are a file and a directory does
  not hold: what is below them is walked twice; `copy()` of one copies the file only.

**Linked data**

* A linked data file that is replaced keeps its old triples (run `replaced`), and has
  the digest of the old ones (`index.js:318`; the comment at `index.js:319` says they
  are deleted first, and `docs/ld.md:17` that the triples in the file are those that are
  queried). It has no `.nq` file then, and `read()` throws.
* The subjects of a `.nq` file are those of the first path that had the content.
* `read()` never merges linked files and checks no permission. In
  `relationships()` the predicate applies to the links coming in only, and several
  predicates match nothing. `GET /ld` answers 404.
* Literals of deleted files are still found when ACLs are off and no file is given,
  as nothing calls `delete_unused_ld_data()`.
* The statistics query two tables that do not exist.

**Partition keys**

* A rule that no longer matches a file leaves it the old key, and a manual key is
  deleted with those of a rule that owns it, so a file may have two keys of one
  rule or none.
* Servers that have read a rule go on writing its keys after it changed, and fail
  all writes it applies to after it was removed. `GET /auto-path` turns the regular
  expressions of the server's copy into strings, and writes throw from then on.
* A delete of a file or a collision of keys during a sweep stops it half way, and
  setting the same definition again neither resumes it nor makes others read it.

**Import and export**

* An export over HTTP that is cut short is reported as success; a stream that
  cannot be opened raises an unhandled error. Exports read the local disk only,
  and a `_` in a root directory matches any character.
* An import into PostgreSQL ignores errors that `write()` leaves in its context;
  `--overwrite` is not honoured by the batches of the API.
* `processBatch()` is one `Promise.all()`, so that callers cannot catch errors "per
  file", as `file-processor.js:24` suggests: one bad file rejects the batch.

**HTTP**

* `writeStream()` (`cas.js:239`) does not listen for an aborted source: an upload
  that is cut off keeps its transaction, advisory lock, connection and temporary
  file for ever.
* A write by hash over HTTP is always refused (`controllers/fs.js:190`, `cas.js:43`).
* Headers and body of a GET may be of different versions (`controllers/fs.js:64`,
  `123`); a file that appears between the two lookups is answered as a directory.
* The comments of `parseRangeHeader()` say that several ranges are answered with
  the whole file (`controllers/fs.js:16`, `27`); the handler answers 416 (`fs.js:103`).
* A copy of a missing source answers 200 with nothing copied; a move whose source
  goes meanwhile answers 404 although the destination is written.
* `exists()` of the HTTP client throws on a directory.

**Web user interface**

* A folder without files stays `loading`, and no toast comes any more
  (`FsModel.js:94`). A retry after a lost answer is refused as a duplicate and
  reported as failed (`FsModel.js:135`).
* The page is refreshed before the cache is cleared (`FsModel.js:98`, `107`), a
  listing that is in flight at that moment is kept, and an earlier listing that
  comes late replaces a later one (`DirectoryListController.js:66`).
* `FsStore.js:13-14` gives the sizes of two stores as an argument that is not read.
  A record that is dropped makes `upload()` fail at its end, and the cache is not
  cleared (`FsModel.js:107`).
* A toast that is due while another upload begins counts that one as completed
  (`caskfs-upload-tracker.js:131-148`). Listeners that are removed with a newly bound
  function stay.

**Command line**

* `cask auth login` saves the configuration it read before the log-in
  (`cask-auth.js:67`, `217`), so what other commands changed meanwhile is lost; the
  file is not written atomically. `env create` drops fields of an environment it
  replaces, and `env set` keeps those of the other type.

## Not modelled, and why

Steps that the models join, or details they leave out, where no property tells the
difference:

* `CaskStore`: the unlink of a hash file and of its `.nq` file is one step
  (`UnlinkBlob`; `cas.js:387`, `391`), and so are `writeQuads()` and the unlink of the
  temporary file (`FinishWrite`; `cas.js:195-208`). `RdfHasQuads`, the one property
  about `.nq` files, is of calls that delete no hash file, and a temporary file is its
  session's own.
* `Connections`: a query that is refused a connection ends `deleteFile()`; the
  ROLLBACK its catch block still sends over the pool (`index.js:884`) is left out
  (`Refused`).
* `AclInheritance`: the INSERT of an ACL and the SELECT of the children are one step
  (`PutAcl`). `Permissions`: an import checks and adds a member in one (`ImportMember`;
  `transfer.js:384`), and for a requestor without an account `ls` of a public
  directory, which throws in the code (`acl.js:407`), is answered (`IsListed`).
* `LinkedData`: `relationships()` without its statistics, its limit of 1000 and the
  filter by partition keys.
* `Transfer`: `Link` does not fail by itself, nor does a batch of links as a whole.
* `HttpFiles`: one range in a header (`Parsed`).
* `WebClient`: `upload()` makes all its records at once, and the end of an upload does
  not renew the place of its records in their store.

And whole parts:

* **Google Cloud Storage** (`lib/storage/gcs.js`). No content ever gets there:
  `finalizeWrite()` takes the bucket from the metadata of the user (`index.js:350`),
  which nothing sets, `copyFile()` throws without one, and a write by hash reads a
  local path. A model would be of a store that refuses all it is given.
* `powerWash()`, which empties everything, and `deleteUnusedHashes({hashList})`,
  whose DELETE from a view with a join PostgreSQL always refuses.
* Bucket rules of auto-paths: the code of the partition rules, for a bucket that
  nothing uses.
* Metadata other than the content, MIME types, frames and contexts of JSON-LD:
  stored or formatted as given. Of parsing, only what it makes of a file.
* Header authentication, configuration, `environments.json`, argument handling:
  each is one synchronous step of one process; what two commands at once do to
  the file is in section 5.
* In the browser, what only draws: display items, icons, modals, the loader and
  its timers, the selection of rows.
* Statistics and the routes that are one call of a modelled operation.

## 6. The plan

What is left, most useful first:

1. Runs of their own for the observations of section 5 that contradict a comment,
   where one property says it.
2. `Environments`: several commands that read, change and write
   `environments.json`, and the header middleware in front of the ACL.
3. The Google Cloud Storage back end, once a content can get there.
4. The loader and the selection of the web user interface.
