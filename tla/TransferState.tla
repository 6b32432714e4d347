---------------------------- MODULE TransferState ----------------------------
(***************************************************************************)
(* The state of an export, import or copy of local files, and what has to  *)
(* hold of it.  Transfer has the steps.                                    *)
(***************************************************************************)
EXTENDS Naturals, Sequences, FiniteSets

CONSTANTS
  Paths, Hashes,  \* the file paths, and the contents they may have
  Jobs,           \* what may be run: a subset of Job
  Locals,         \* what a `cask cp` may find: sequences of File
  BatchSize,      \* at least 1
  Absent          \* the path has no row: not one of Hashes

Job == [op : {"import", "cp"}, mode : {"pg", "http"}, overwrite : BOOLEAN]
File == [path : Paths, hash : Hashes]

\* A path is listed with one content, however often.
Consistent(files) ==
  \A i, j \in 1..Len(files) : files[i].path = files[j].path => files[i].hash = files[j].hash

ASSUME TransferAssumption ==
  /\ IsFiniteSet(Paths) /\ IsFiniteSet(Hashes) /\ Absent \notin Hashes
  /\ Jobs \subseteq Job /\ BatchSize \in Nat \ {0}
  /\ Locals \subseteq Seq(File) /\ \A files \in Locals : Consistent(files)

VARIABLES
  rows,      \* caskfs.file: the hash of each path, or Absent
  blobs,     \* the hashes whose content is stored
  job, pc,
  snapshot,  \* what the export has found: hashes with their paths
  archive,   \* what it has packed so far
  source,    \* the files of the archive, or of the local directory
  todo,      \* those not in a batch yet
  batch,     \* the files of the batch that sync() has still to write
  missing,   \* those whose hash it did not find
  sent,      \* the hashes sent for this batch
  later,     \* files that wait for the upload of their hash by another
  following, \* whether it is those that are being written
  reported,  \* the paths an error has been reported for
  failed,    \* the paths whose write has failed
  uploads,   \* how often the content of each hash has been sent
  before,    \* the rows when the import began
  touched,   \* the paths others have changed since, and
  lost       \* the hashes they have removed

\* Whether sync() replaces a file that is there: over HTTP the batch does not
\* say so.
Replaces == job.overwrite /\ job.mode = "pg"

-----------------------------------------------------------------------------
\* The types; and a row has its content, which is why a hash that is known may
\* stand for a file (sync(), optimisticBatchWrite()).
TransferTypeOK ==
  /\ rows \in [Paths -> Hashes \cup {Absent}] /\ blobs \subseteq Hashes
  /\ {source, todo, batch, missing, later} \subseteq Seq(File)
  /\ sent \subseteq Hashes /\ reported \cup failed \cup touched \subseteq Paths
  /\ \A f \in Paths : rows[f] = Absent \/ rows[f] \in blobs

\* An export() that reports success, to a local file, holds every file that was
\* there when it began, with the content it had then.
ExportFaithful == pc = "exported" /\ job.mode = "pg" => archive = snapshot

\* An import without the API does not notice that a write has failed.  If that
\* was to store the content, or the content is deleted again, then the files
\* linked to it are missing as well.
Unnoticed ==
  job.op = "import" /\ job.mode = "pg" /\ (failed \cup touched # {} \/ lost # {})

\* When an import or a copy of local files is over, after restarts too, each
\* file without a failed write is there: with the content it is to have, or
\* with what the path had before, unless that was to be overwritten; which the
\* batches of the API do not do.
ImportComplete ==
  pc = "done" /\ ~Unnoticed =>
    \A i \in 1..Len(source) :
      LET d == source[i] IN
      d.path \notin touched \cup failed \cup reported =>
        \/ rows[d.path] = d.hash
        \/ ~Replaces /\ before[d.path] # Absent /\ rows[d.path] = before[d.path]

\* _importHttp(): "Each CAS binary is uploaded exactly once", and never again by a rerun,
\* unless it has been deleted meanwhile.
UploadedOnce == job.op = "import" /\ lost = {} => \A h \in Hashes : uploads[h] <= 1
=============================================================================
