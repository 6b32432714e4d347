--------------------------- MODULE DirectoryTree ---------------------------
(***************************************************************************)
(* The directory tree, its paged listing, and the calls that walk it: copy *)
(* and move of a directory, the recursive listing behind a download, the   *)
(* pages of `cask ls`, and the recursive delete.  A walk is one call after *)
(* the other, and someone else writes and deletes files meanwhile.         *)
(*                                                                         *)
(* A path may be a file and a directory at once.  A path is a sequence of  *)
(* names, and a name its place in the order of the listing.                *)
(*                                                                         *)
(* Abstracted: ACLs, and what a file holds (see AclInheritance, CaskStore).*)
(***************************************************************************)
EXTENDS Naturals, Sequences, FiniteSets, SequencesExt

CONSTANTS
  Trees,         \* the trees to start with: records of dirs and files
  Jobs,          \* the walks: records of op and root
  Written,       \* the files that the other client may write or delete
  PageLimit,     \* what a walk asks of each page
  DefaultLimit,  \* what the database returns when it is asked for nothing
  BigLimit,      \* what a recursive delete asks for
  MaxEdits       \* bound on what the other client does

Walks == {"copy", "move", "list", "browse", "rmdir"}

ASSUME ConstantsAssumption ==
  /\ {PageLimit, DefaultLimit, BigLimit} \subseteq Nat \ {0} /\ MaxEdits \in Nat
  /\ \A t \in Trees :
       /\ << >> \in t.dirs /\ t.dirs \cup t.files \subseteq Seq(Nat)
       /\ \A f \in (t.dirs \cup t.files) \ {<< >>} : Front(f) \in t.dirs
  /\ \A j \in Jobs : j.op \in Walks /\ j.root \in Seq(Nat) \ {<< >>}
  /\ Written \subseteq Seq(Nat) \ {<< >>}

VARIABLES
  dirs, files,  \* caskfs.directory and caskfs.file
  job,          \* the walk
  pc,           \* "start", "page", "items", "done", or "failed"
  stack,        \* the recursion: the directory and what is left of its page
  seen,         \* how often the walk has handled each path: 0, 1, or 2 for more
  edited,       \* whether anything else changed since it began
  edits,        \* how much the other client has done
  writing,      \* the file it is writing, << >> if none
  making        \* the directories its transaction has inserted for it

tree == <<dirs, files>>
walk == <<job, pc, stack, seen>>
other == <<edited, edits, writing, making>>
vars == <<tree, walk, other>>

Parent(f) == Front(f)
Below(d, f) == IsStrictPrefix(d, f)
Ancestors(f) == {SubSeq(f, 1, n) : n \in 0..Len(f) - 1}

AllPaths == (UNION {t.dirs \cup t.files : t \in Trees}) \cup {j.root : j \in Jobs}
              \cup Written \cup (UNION {Ancestors(f) : f \in Written})

ASSUME PathsAssumption == IsFiniteSet(AllPaths)

Frame(d) == [dir |-> d, off |-> 0, files |-> << >>, subdirs |-> << >>, more |-> FALSE]

Init ==
  /\ \E t \in Trees : dirs = t.dirs /\ files = t.files
  /\ job \in Jobs /\ pc = "start" /\ stack = <<Frame(job.root)>>
  /\ seen = [f \in AllPaths |-> 0]
  /\ edited = FALSE /\ edits = 0 /\ writing = << >> /\ making = {}

-----------------------------------------------------------------------------
(* The listing.                                                            *)

\* ORDER BY fullname, or filename, within one directory: as many come before the
\* n-th row as have a smaller name.
Before(S, f) == {g \in S : Last(g) < Last(f)}
Sorted(S) ==
  [n \in 1..Cardinality(S) |-> CHOOSE f \in S : Cardinality(Before(S, f)) = n - 1]
Children(S, d) == Sorted({f \in S : f # << >> /\ Parent(f) = d})

\* LIMIT and OFFSET; a limit of 0 counts as none given.
OrDefault(limit) == IF limit = 0 THEN DefaultLimit ELSE limit
Rows(s, limit, off) == SubSeq(s, off + 1, Min({Len(s), off + OrDefault(limit)}))

\* COUNT(*) OVER () comes with each row: no row, no count.
Total(s, page) == IF page = << >> THEN 0 ELSE Len(s)

\* ls(): directories first; the files get what is left of the page, and their
\* offset is counted from the last directory if that is known.
FileOffset(dirTotal, off) == IF dirTotal < off THEN off - dirTotal ELSE off
Listing(d, limit, off) ==
  LET ds == Children(dirs, d)
      fs == Children(files, d)
      dpage == Rows(ds, limit, off)
      fpage == Rows(fs, limit - Len(dpage), FileOffset(Total(ds, dpage), off)) IN
  IF d \in dirs
  THEN [dirs |-> dpage, files |-> fpage, total |-> Total(ds, dpage) + Total(fs, fpage)]
  ELSE [dirs |-> << >>, files |-> << >>, total |-> 0]

-----------------------------------------------------------------------------
(* The walks.                                                              *)

Top == stack[Len(stack)]
SetTop(frame) == stack' = [stack EXCEPT ![Len(stack)] = frame]
Push(d) == Append(stack, Frame(d))

\* The walk leaves a directory.
Pop ==
  /\ stack' = Front(stack) /\ pc' = IF Len(stack) = 1 THEN "done" ELSE "items"

See(f) == seen' = [seen EXCEPT ![f] = IF @ = 0 THEN 1 ELSE 2]

\* copy() of a path that is a file copies that file only.
Start ==
  /\ pc = "start"
  /\ \/ /\ job.op \in {"copy", "move"} /\ job.root \in files
        /\ See(job.root) /\ pc' = "done" /\ stack' = << >>
        /\ files' = IF job.op = "move" THEN files \ {job.root} ELSE files
     \/ /\ job.op \in {"copy", "move"} => job.root \notin files
        /\ pc' = "page" /\ UNCHANGED <<stack, seen, files>>
  /\ UNCHANGED <<dirs, job, other>>

\* Whether another page follows: a walk asks until a page is not full, `cask
\* ls` as long as the total says so.
MoreIfOver(page) == Len(page.files) + Len(page.dirs) > PageLimit    \* mutant: off by one
More(page) ==
  CASE job.op = "browse" -> Top.off + PageLimit < page.total
    [] job.op = "rmdir" -> FALSE
    [] OTHER -> Len(page.files) + Len(page.dirs) >= PageLimit

Page ==
  /\ pc = "page"
  /\ LET limit == IF job.op = "rmdir" THEN BigLimit ELSE PageLimit
         page == Listing(Top.dir, limit, Top.off) IN
     SetTop([Top EXCEPT !.files = page.files, !.subdirs = page.dirs, !.more = More(page)])
  /\ pc' = "items" /\ UNCHANGED <<tree, job, seen, other>>

\* copyFile(), with the delete of a move; what is no longer there is an error
\* that the walk notes and passes over.  Then the path as a directory.
VisitFile ==
  /\ pc = "items" /\ Top.files # << >> /\ job.op \in {"copy", "move", "list"}
  /\ LET f == Head(Top.files) IN
     /\ IF job.op # "list" /\ f \notin files THEN UNCHANGED seen ELSE See(f)
     /\ files' = IF job.op = "move" THEN files \ {f} ELSE files
     /\ stack' = Append([stack EXCEPT ![Len(stack)].files = Tail(@)], Frame(f))
  /\ pc' = "page" /\ UNCHANGED <<dirs, job, other>>

\* `cask ls` prints the entries of the page.
ShowEntry ==
  /\ pc = "items" /\ job.op = "browse"
  /\ \/ /\ Top.files # << >> /\ See(Head(Top.files))
        /\ SetTop([Top EXCEPT !.files = Tail(@)])
     \/ /\ Top.files = << >> /\ Top.subdirs # << >> /\ See(Head(Top.subdirs))
        /\ SetTop([Top EXCEPT !.subdirs = Tail(@)])
  /\ UNCHANGED <<tree, job, pc, other>>

\* deleteFile() of each file; one that is gone ends the whole call.
DeleteOne ==
  /\ pc = "items" /\ Top.files # << >> /\ job.op = "rmdir"
  /\ LET f == Head(Top.files) IN
     \/ /\ f \in files /\ files' = files \ {f} /\ See(f)
        /\ SetTop([Top EXCEPT !.files = Tail(@)]) /\ UNCHANGED pc
     \/ f \notin files /\ pc' = "failed" /\ UNCHANGED <<files, seen, stack>>
  /\ UNCHANGED <<dirs, job, other>>

Descend ==
  /\ pc = "items" /\ Top.files = << >> /\ Top.subdirs # << >> /\ job.op # "browse"
  /\ stack' = Append([stack EXCEPT ![Len(stack)].subdirs = Tail(@)], Frame(Head(Top.subdirs)))
  /\ pc' = "page" /\ UNCHANGED <<tree, job, seen, other>>

\* mutant: the offset is not moved on
SamePage ==
  /\ pc = "items" /\ Top.files = << >> /\ Top.subdirs = << >> /\ Top.more
  /\ pc' = "page" /\ UNCHANGED <<tree, job, seen, stack, other>>
NextPage ==
  /\ pc = "items" /\ Top.files = << >> /\ Top.subdirs = << >> /\ Top.more
  /\ SetTop([Top EXCEPT !.off = @ + PageLimit])
  /\ pc' = "page" /\ UNCHANGED <<tree, job, seen, other>>

\* The delete of a directory waits for a transaction that has made directories
\* in it, and is refused if files or directories refer to it.
BeingFilled(d) == \E e \in making : Parent(e) = d
NoReferences(d) == TRUE    \* mutant: ON DELETE CASCADE without the cascade
Deletable(d) == \A f \in (dirs \cup files) \ {<< >>} : Parent(f) # d

Leave ==
  /\ pc = "items" /\ Top.files = << >> /\ Top.subdirs = << >> /\ ~Top.more
  /\ job.op = "rmdir" => ~BeingFilled(Top.dir)
  /\ \/ job.op # "rmdir" /\ Pop /\ UNCHANGED dirs
     \/ job.op = "rmdir" /\ Deletable(Top.dir) /\ Pop /\ dirs' = dirs \ {Top.dir}
     \/ /\ job.op = "rmdir" /\ ~Deletable(Top.dir)
        /\ pc' = "failed" /\ UNCHANGED <<stack, dirs>>
  /\ UNCHANGED <<files, job, seen, other>>

Walk ==
  \/ Start \/ Page \/ VisitFile \/ ShowEntry \/ DeleteOne \/ Descend \/ NextPage \/ Leave

-----------------------------------------------------------------------------
(* The other client.                                                       *)

Edit == edits < MaxEdits /\ edits' = edits + 1 /\ edited' = TRUE

\* write(): mkdir() of the directories above the file, and its row.  Both are
\* seen when the transaction commits.
Mkdir ==
  /\ writing = << >> /\ Edit
  /\ \E f \in Written \ files : writing' = f /\ making' = Ancestors(f) \ dirs
  /\ UNCHANGED <<tree, walk>>

\* The row is refused if the directory has been deleted since.
NoParentKey(f) == TRUE    \* mutant: file.directory_id without REFERENCES
ParentThere(f) == Parent(f) \in dirs \cup making
InsertFile ==
  /\ writing # << >> /\ writing' = << >> /\ making' = {}
  /\ IF ParentThere(writing)
     THEN files' = files \cup {writing} /\ dirs' = dirs \cup making
     ELSE UNCHANGED tree
  /\ UNCHANGED <<walk, edited, edits>>

DeleteFile ==
  /\ writing = << >> /\ Edit
  /\ \E f \in Written \cap files : files' = files \ {f}
  /\ UNCHANGED <<dirs, walk, writing, making>>

Finished == pc \in {"done", "failed"} /\ writing = << >> /\ UNCHANGED vars

Next == Walk \/ Mkdir \/ InsertFile \/ DeleteFile \/ Finished

Spec == Init /\ [][Next]_vars
FairSpec == Spec /\ WF_vars(Walk) /\ WF_vars(InsertFile)

-----------------------------------------------------------------------------

\* The types; a walk only ever goes down; and every file and directory lies in
\* a directory that exists, also when deleteDirectory() deletes those that write()
\* has just made for a file.
TypeOK ==
  /\ dirs \subseteq AllPaths /\ files \subseteq AllPaths
  /\ job \in Jobs /\ pc \in {"start", "page", "items", "done", "failed"}
  /\ seen \in [AllPaths -> 0..2] /\ writing \in Written \cup {<< >>}
  /\ making \subseteq Ancestors(writing)
  /\ \A f \in (dirs \cup files) \ {<< >>} : Parent(f) \in dirs
  /\ \A i \in 1..Len(stack) :
       stack[i].dir \in AllPaths /\ (i > 1 => Below(stack[i - 1].dir, stack[i].dir))

ChildDirs(d) == {e \in dirs : e # << >> /\ Parent(e) = d}
ChildFiles(d) == {e \in files : e # << >> /\ Parent(e) = d}
OnePage(d) == Cardinality(ChildDirs(d)) + Cardinality(ChildFiles(d)) <= PageLimit
OneKind(d) == ChildDirs(d) = {} \/ ChildFiles(d) = {}
Virtual(d) == d \in dirs /\ d \in files

Under(d) == {e \in dirs : e = d \/ Below(d, e)}
FilesUnder(d) == {f \in files : Below(d, f)}

\* What a walk is meant to handle: `cask ls` the entries of the directory, a copy
\* or a download every file below it.
Wanted ==
  IF job.op = "browse" THEN ChildDirs(job.root) \cup ChildFiles(job.root)
  ELSE FilesUnder(job.root)

\* A walk over ls() pages (copy(), recursiveCaskLs(), `cask ls`) that nobody
\* interferes with handles all that it is meant to, and once each unless a path
\* above it is a file and a directory; provided that a directory with more
\* entries than a page holds either files or directories and not both.
NothingSkipped ==
  (/\ pc = "done" /\ ~edited
   /\ job.op \in {"list", "browse", "copy"} /\ (job.op = "copy" => job.root \notin files)
   /\ \A d \in Under(job.root) : OnePage(d) \/ OneKind(d)) =>
    \A f \in Wanted :
      /\ seen[f] >= 1
      /\ seen[f] > 1 => \E d \in Under(job.root) : Virtual(d) /\ (d = f \/ Below(d, f))

\* deleteDirectory(), when it succeeds, leaves nothing below the directory behind,
\* not even what was written while it ran.
DeleteIsComplete ==
  [][job.op = "rmdir" /\ pc' = "done" /\ pc # "done" =>
       /\ job.root \notin dirs'
       /\ \A f \in dirs' \cup files' : ~Below(job.root, f)]_vars

\* Every walk comes to an end once the other client has, however its listings
\* change under it.
WalkEnds == <>(pc \in {"done", "failed"})
=============================================================================
