----------------------------- MODULE FilesProofs -----------------------------
(***************************************************************************)
(* The walks over the directories and the requests over HTTP: the          *)
(* invariant of the tree under a walk and another client; what a walk has  *)
(* still to do at each of its steps, and so that it skips nothing; what a  *)
(* recursive delete leaves behind; and what the handler of a request knows *)
(* at each of its steps, and so that its answer is true.                   *)
(***************************************************************************)
EXTENDS Files, Integers, FiniteSetTheorems, SequenceTheorems, WellFoundedInduction, TLAPS

-----------------------------------------------------------------------------
(* What a walk has still to do.                                            *)

Active == pc \in {"start", "page", "items"}

\* The rows of a listing that come after the first n.
After(s, n) == {s[i] : i \in n + 1..Len(s)}

\* What the pages that follow hold of the directory of a frame; that of the top may be
\* about to be listed.
Due(i) == i = Len(stack) /\ pc \in {"start", "page"}
Continues(i) == Due(i) \/ stack[i].more
NextOff(i) == IF Due(i) THEN stack[i].off ELSE stack[i].off + PageLimit
LaterFiles(i) == IF Continues(i) THEN After(Children(files, stack[i].dir), NextOff(i)) ELSE {}
LaterDirs(i) == IF Continues(i) THEN After(Children(dirs, stack[i].dir), NextOff(i)) ELSE {}
OwesFiles(i) == Range(stack[i].files) \cup LaterFiles(i)
OwesDirs(i) == Range(stack[i].subdirs) \cup LaterDirs(i)

\* A frame holds what it has read of its directory, and each path once.
Kids(d) == {f \in AllPaths : f # << >> /\ Parent(f) = d}
FrameTypes ==
  [dir : AllPaths, off : Nat, files : Seq(AllPaths), subdirs : Seq(AllPaths), more : BOOLEAN]
Framed ==
  /\ stack \in Seq(FrameTypes)
  /\ \A i \in 1..Len(stack) :
       /\ stack[i].files \in Seq(Kids(stack[i].dir)) /\ stack[i].subdirs \in Seq(Kids(stack[i].dir))
       /\ i > 1 => stack[i].dir \in Kids(stack[i - 1].dir)
       /\ \A j \in 1..i - 1 : stack[j].dir \in Ancestors(stack[i].dir)
       /\ Due(i) => stack[i].files = << >> /\ stack[i].subdirs = << >>
       /\ stack[i].off = 0 \/ stack[i].off >= PageLimit
  /\ Active => stack # << >> /\ stack[1].dir = job.root
  /\ Active /\ job.op = "browse" => Len(stack) = 1

\* Nobody interferes with a walk that reads, of a tree with pages of one kind.
Undisturbed ==
  /\ ~edited /\ job.op \in {"list", "browse", "copy"} /\ (job.op = "copy" => job.root \notin files)
  /\ \A d \in Under(job.root) : OnePage(d) \/ OneKind(d)

\* Each path is on its list once.
OnceListed(i) ==
  /\ IsInjective(stack[i].files) /\ IsInjective(stack[i].subdirs)
  /\ Range(stack[i].files) \cap LaterFiles(i) = {} /\ Range(stack[i].subdirs) \cap LaterDirs(i) = {}
  /\ Range(stack[i].files) \subseteq files /\ Range(stack[i].subdirs) \subseteq dirs

AllSeen(d) == \A f \in FilesUnder(d) : seen[f] >= 1
Plain(f) == \A d \in Under(job.root) : Virtual(d) => d # f /\ ~Below(d, f)

\* A walk into the depth: what it has not seen it will come to, in a directory of the
\* stack or below it; and what it has seen it will not come to again.
Covers(i) ==
  /\ \A f \in ChildFiles(stack[i].dir) : f \in OwesFiles(i) \/ seen[f] >= 1
  /\ \A g \in ChildDirs(stack[i].dir) :
       g \in OwesDirs(i) \/ (i < Len(stack) /\ g = stack[i + 1].dir) \/ AllSeen(g)
Once(i) ==
  /\ i < Len(stack) /\ stack[i + 1].dir \in OwesDirs(i) => stack[i + 1].dir \in files
  /\ \A f \in FilesUnder(job.root) : Plain(f) /\ seen[f] >= 1 =>
       f \notin OwesFiles(i) /\ \A g \in OwesDirs(i) : ~Below(g, f)
Deep ==
  /\ Active => \A i \in 1..Len(stack) : OnceListed(i) /\ Covers(i) /\ Once(i)
  /\ \A f \in FilesUnder(job.root) : Plain(f) => seen[f] <= 1
  /\ pc = "done" => AllSeen(job.root)

\* A listing of one directory.
Flat ==
  /\ Active =>
       /\ OnceListed(1)
       /\ \A f \in ChildFiles(job.root) : f \in OwesFiles(1) \/ seen[f] >= 1
       /\ \A g \in ChildDirs(job.root) : g \in OwesDirs(1) \/ seen[g] >= 1
       /\ \A f \in AllPaths : ~Virtual(f) /\ seen[f] >= 1 => f \notin OwesFiles(1) \cup OwesDirs(1)
  /\ \A f \in AllPaths : ~Virtual(f) => seen[f] <= 1
  /\ pc = "done" => \A f \in ChildFiles(job.root) \cup ChildDirs(job.root) : seen[f] >= 1

Untouched == ~edited => writing = << >>

WalkInv ==
  /\ Untouched
  /\ Undisturbed => IF job.op = "browse" THEN Flat ELSE Deep

-----------------------------------------------------------------------------
(* The tree, and the paths in it.                                          *)

\* Every path there is lies in directories that are there, all the way up.
Closed(ds, fs) == \A f \in ds \cup fs : f \in Seq(Nat) /\ Ancestors(f) \subseteq ds

\* The other client has made the last of the directories above its file, and the
\* others are there, although it has looked for them only once.
Filling ==
  /\ writing \in Written \cup {<< >>} /\ making \subseteq Ancestors(writing)
  /\ \A g \in making : \A h \in Ancestors(writing) : Len(g) <= Len(h) => h \in making
  /\ making # {} => Ancestors(writing) \subseteq dirs \cup making

\* The tree, the walk and the write that goes on beside it.
TreeInv ==
  /\ job \in Jobs /\ pc \in {"start", "page", "items", "done", "failed"}
  /\ dirs \subseteq AllPaths /\ files \subseteq AllPaths /\ seen \in [AllPaths -> 0..2]
  /\ Closed(dirs, files) /\ Filling /\ Framed

-----------------------------------------------------------------------------
(* Paths.                                                                  *)

LEMMA AncestorsTyped ==
  ASSUME NEW f \in Seq(Nat)
  PROVE  /\ Len(f) \in Nat
         /\ \A n \in 0..Len(f) - 1 : /\ SubSeq(f, 1, n) \in Seq(Nat) /\ Len(SubSeq(f, 1, n)) = n
                                     /\ SubSeq(f, 1, n) \in Ancestors(f)
         /\ \A g \in Ancestors(f) : Len(g) \in 0..Len(f) - 1 /\ g = SubSeq(f, 1, Len(g))
<1>1. Len(f) \in Nat /\ \A i \in 1..Len(f) : f[i] \in Nat
  BY LenProperties, ElementOfSeq
<1>2. ASSUME NEW n \in 0..Len(f) - 1
      PROVE  SubSeq(f, 1, n) \in Seq(Nat) /\ Len(SubSeq(f, 1, n)) = n
  <2>1. n \in Int /\ 1 \in Int /\ \A i \in 1..n : f[i] \in Nat
    BY <1>1
  <2>2. SubSeq(f, 1, n) \in Seq(Nat) /\ Len(SubSeq(f, 1, n)) = IF 1 <= n THEN n - 1 + 1 ELSE 0
    BY <2>1, SubSeqProperties
  <2> QED
    BY <2>2, <1>1
<1> QED
  BY <1>1, <1>2, Zenon DEF Ancestors

\* What lies above an ancestor is an ancestor.
LEMMA AncestorsAbove ==
  ASSUME NEW f \in Seq(Nat), NEW g \in Ancestors(f)
  PROVE  Ancestors(g) \subseteq Ancestors(f)
<1>1. PICK n \in 0..Len(f) - 1 : g = SubSeq(f, 1, n)
  BY DEF Ancestors
<1>2. /\ Len(f) \in Nat /\ g \in Seq(Nat) /\ Len(g) = n
      /\ \A i \in 1..Len(f) : f[i] \in Nat
  BY <1>1, AncestorsTyped, LenProperties, ElementOfSeq
<1> SUFFICES ASSUME NEW m \in 0..n - 1 PROVE SubSeq(g, 1, m) \in Ancestors(f)
  BY <1>2 DEF Ancestors
<1>3. SubSeq(g, 1, m) = SubSeq(f, 1, m)
  <2>1. \A i \in 1..n : g[i] = f[i]
    BY <1>1, <1>2, SubSeqProperties
  <2>2. m \in Int /\ 1 \in Int /\ \A i \in 1..m : g[i] \in Nat /\ f[i] \in Nat
    BY <2>1, <1>2
  <2>3. /\ SubSeq(g, 1, m) \in Seq(Nat) /\ SubSeq(f, 1, m) \in Seq(Nat)
        /\ Len(SubSeq(g, 1, m)) = m /\ Len(SubSeq(f, 1, m)) = m
        /\ \A i \in 1..m : SubSeq(g, 1, m)[i] = g[i] /\ SubSeq(f, 1, m)[i] = f[i]
    BY <2>2, SubSeqProperties
  <2> QED
    BY <2>1, <2>3, <1>2, SeqEqual
<1>4. m \in 0..Len(f) - 1
  BY <1>2
<1> QED
  BY <1>3, <1>4, AncestorsTyped

\* A tree in which every path lies in a directory is closed.
LEMMA ClosedUp ==
  ASSUME NEW ds, NEW fs, ds \cup fs \subseteq Seq(Nat), << >> \in ds,
         \A f \in (ds \cup fs) \ {<< >>} : Parent(f) \in ds
  PROVE  Closed(ds, fs)
<1> SUFFICES ASSUME NEW f \in ds \cup fs, NEW k \in 0..Len(f) - 1, SubSeq(f, 1, k) \notin ds PROVE FALSE
  BY DEF Closed, Ancestors
<1>1. f \in Seq(Nat) /\ Len(f) \in Nat
  BY LenProperties
<1> DEFINE Bad == {n \in Nat : n < Len(f) /\ SubSeq(f, 1, Len(f) - 1 - n) \notin ds}
<1>2. Len(f) - 1 - k \in Bad
  <2>1. Len(f) - 1 - (Len(f) - 1 - k) = k
    BY <1>1
  <2> QED
    BY <1>1, <2>1
<1>3. PICK n \in Bad : \A y \in Bad : ~(y < n)
  <2>1. PICK x \in Bad : \A y \in Bad : ~(<<y, x>> \in OpToRel(<, Nat))
    BY NatLessThanWellFounded, WFMin, <1>2
  <2> QED
    BY <2>1 DEF OpToRel
<1>4. CASE n = 0
  <2>1. SubSeq(f, 1, Len(f) - 1 - 0) \notin ds /\ 0 < Len(f) /\ Len(f) - 1 - 0 = Len(f) - 1
    BY <1>3, <1>4, <1>1
  <2>2. f # << >>
    BY <2>1, EmptySeq
  <2> QED
    BY <2>1, <2>2 DEF Parent, Front
<1>5. CASE n > 0
  <2>1. n \in Nat /\ n < Len(f) /\ SubSeq(f, 1, Len(f) - 1 - n) \notin ds
    BY <1>3
  <2>2. n - 1 \in Nat /\ n - 1 < Len(f) /\ n - 1 \notin Bad
    <3>1. n - 1 \in Nat /\ n - 1 < Len(f) /\ n - 1 < n
      BY <2>1, <1>1, <1>5
    <3> HIDE DEF Bad
    <3> QED
      BY <3>1, <1>3
  <2>3. PICK m : m = Len(f) - 1 - (n - 1) /\ SubSeq(f, 1, m) \in ds
    BY <2>2
  <2>4. PICK g : g = SubSeq(f, 1, m)
    OBVIOUS
  <2>5. m \in 1..Len(f) - 1 /\ m - 1 = Len(f) - 1 - n
    BY <2>1, <2>3, <1>1, <1>5
  <2>6. g \in ds /\ Len(g) = m /\ g \in Seq(Nat) /\ g \in Ancestors(f)
    <3>1. g \in ds
      BY <2>3, <2>4
    <3>2. \A i \in 0..Len(f) - 1 : /\ SubSeq(f, 1, i) \in Seq(Nat) /\ Len(SubSeq(f, 1, i)) = i
                                   /\ SubSeq(f, 1, i) \in Ancestors(f)
      BY <1>1, AncestorsTyped
    <3>3. m \in 0..Len(f) - 1
      BY <2>5, <1>1
    <3> QED
      BY <3>1, <3>2, <3>3, <2>4
  <2>7. PICK e : e = SubSeq(g, 1, m - 1)
    OBVIOUS
  <2>8. e \in Ancestors(g) /\ Len(e) = m - 1
    <3>1. \A i \in 0..Len(g) - 1 : Len(SubSeq(g, 1, i)) = i /\ SubSeq(g, 1, i) \in Ancestors(g)
      BY <2>6, AncestorsTyped
    <3>2. m - 1 \in 0..Len(g) - 1
      BY <2>5, <2>6, <1>1
    <3> QED
      BY <3>1, <3>2, <2>7
  <2>9. e = SubSeq(f, 1, m - 1)
    <3>1. e \in Ancestors(f)
      BY <2>6, <2>8, <1>1, AncestorsAbove
    <3>2. e = SubSeq(f, 1, Len(e))
      BY <3>1, <1>1, AncestorsTyped
    <3> QED
      BY <3>2, <2>8
  <2>10. e \notin ds
    BY <2>1, <2>5, <2>9
  <2>11. g # << >>
    BY <2>5, <2>6, EmptySeq
  <2> QED
    BY <2>6, <2>7, <2>10, <2>11 DEF Parent, Front
<1> QED
  BY <1>3, <1>4, <1>5

\* Of two ancestors of a path the longer one lies below the shorter.
LEMMA Linear ==
  ASSUME NEW f \in Seq(Nat), NEW g \in Ancestors(f), NEW h \in Ancestors(f)
  PROVE  (Len(g) = Len(h) => g = h) /\ (Len(g) < Len(h) => g \in Ancestors(h))
<1>1. /\ Len(f) \in Nat /\ Len(g) \in 0..Len(f) - 1 /\ Len(h) \in 0..Len(f) - 1
      /\ g = SubSeq(f, 1, Len(g)) /\ h = SubSeq(f, 1, Len(h))
  BY AncestorsTyped
<1>2. h \in Seq(Nat)
  BY <1>1, AncestorsTyped
<1>3. ASSUME Len(g) < Len(h) PROVE g \in Ancestors(h)
  <2>1. PICK e : e = SubSeq(h, 1, Len(g))
    OBVIOUS
  <2>2. e \in Ancestors(h) /\ Len(e) = Len(g)
    <3>1. \A i \in 0..Len(h) - 1 : Len(SubSeq(h, 1, i)) = i /\ SubSeq(h, 1, i) \in Ancestors(h)
      BY <1>2, AncestorsTyped
    <3>2. Len(g) \in 0..Len(h) - 1
      BY <1>1, <1>3
    <3> QED
      BY <3>1, <3>2, <2>1
  <2>3. e = g
    <3>1. e \in Ancestors(f)
      BY <2>2, AncestorsAbove
    <3>2. e = SubSeq(f, 1, Len(e))
      BY <3>1, AncestorsTyped
    <3> QED
      BY <3>2, <2>2, <1>1
  <2> QED
    BY <2>2, <2>3
<1> QED
  BY <1>1, <1>3

\* The next directory on the way down to a path.
LEMMA NextDown ==
  ASSUME NEW f \in Seq(Nat), NEW d \in Ancestors(f), Len(d) + 1 < Len(f)
  PROVE  \E g \in Ancestors(f) : Len(g) = Len(d) + 1 /\ g # << >> /\ Parent(g) = d
<1>1. Len(f) \in Nat /\ Len(d) \in 0..Len(f) - 1
  BY AncestorsTyped
<1>2. PICK g : g = SubSeq(f, 1, Len(d) + 1)
  OBVIOUS
<1>3. g \in Ancestors(f) /\ Len(g) = Len(d) + 1 /\ g \in Seq(Nat)
  <2>1. \A i \in 0..Len(f) - 1 : /\ SubSeq(f, 1, i) \in Seq(Nat) /\ Len(SubSeq(f, 1, i)) = i
                                 /\ SubSeq(f, 1, i) \in Ancestors(f)
    BY AncestorsTyped
  <2>2. Len(d) + 1 \in 0..Len(f) - 1
    BY <1>1
  <2> QED
    BY <2>1, <2>2, <1>2
<1>4. d = SubSeq(g, 1, Len(d))
  <2>1. d \in Ancestors(g)
    BY <1>1, <1>3, Linear
  <2> QED
    BY <2>1, <1>3, AncestorsTyped
<1>5. Len(g) - 1 = Len(d)
  BY <1>1, <1>3
<1>6. g # << >>
  BY <1>1, <1>3, EmptySeq
<1> QED
  BY <1>3, <1>4, <1>5, <1>6 DEF Parent, Front

\* Nothing lies below a directory that nothing refers to.
LEMMA NothingBelow ==
  ASSUME NEW ds, NEW fs, Closed(ds, fs), NEW d, NEW f \in ds \cup fs, d \in Ancestors(f)
  PROVE  \E g \in (ds \cup fs) \ {<< >>} : Parent(g) = d
<1>1. f \in Seq(Nat) /\ Ancestors(f) \subseteq ds /\ Len(f) \in Nat
  BY LenProperties DEF Closed
<1>2. Len(d) \in 0..Len(f) - 1 /\ d = SubSeq(f, 1, Len(d))
  BY <1>1, AncestorsTyped
<1>3. CASE Len(d) + 1 = Len(f)
  <2>1. Len(f) - 1 = Len(d) /\ f # << >>
    BY <1>1, <1>2, <1>3, EmptySeq
  <2> QED
    BY <2>1, <1>2 DEF Parent, Front
<1>4. CASE Len(d) + 1 < Len(f)
  BY <1>1, <1>4, NextDown
<1> QED
  BY <1>1, <1>2, <1>3, <1>4
\* What lies below a directory has it among its ancestors.
LEMMA BelowIs ==
  ASSUME NEW d \in Seq(Nat), NEW f \in Seq(Nat)
  PROVE  Below(d, f) <=> d \in Ancestors(f)
<1>1. Len(d) \in Nat /\ Len(f) \in Nat /\ SubSeq(d, 1, Len(d)) = d /\ SubSeq(f, 1, Len(f)) = f
  BY LenProperties, SubSeqFull
<1>2. ASSUME Below(d, f) PROVE d \in Ancestors(f)
  <2>1. /\ Len(d) <= Len(f) /\ d # f
        /\ SubSeq(d, 1, Len(d)) = SubSeq(f, 1, Len(d))
    BY <1>2 DEF Below, IsStrictPrefix, IsPrefix
  <2>2. Len(d) # Len(f)
    BY <2>1, <1>1
  <2>3. Len(d) \in Nat /\ Len(f) \in Nat /\ Len(d) <= Len(f)
    BY <1>2, LenProperties DEF Below, IsStrictPrefix, IsPrefix
  <2>4. Len(d) \in 0..Len(f) - 1
    BY <2>2, <2>3
  <2> QED
    BY <2>1, <2>4, <1>1 DEF Ancestors
<1>3. ASSUME d \in Ancestors(f) PROVE Below(d, f)
  <2>1. Len(d) \in 0..Len(f) - 1
    BY <1>3, AncestorsTyped
  <2>2. d = SubSeq(f, 1, Len(d))
    BY <1>3, AncestorsTyped
  <2>3. Len(d) \in Nat /\ Len(f) \in Nat
    BY LenProperties
  <2>4. Len(d) <= Len(f) /\ Len(d) # Len(f)
    BY <2>1, <2>3
  <2> QED
    BY <2>2, <2>4, <1>1 DEF Below, IsStrictPrefix, IsPrefix
<1> QED
  BY <1>2, <1>3

LEMMA PathsTyped == AllPaths \subseteq Seq(Nat)
<1> SUFFICES ASSUME NEW f \in AllPaths PROVE f \in Seq(Nat)
  OBVIOUS
<1> DEFINE A == UNION {t.dirs \cup t.files : t \in Trees}
           B == {j.root : j \in Jobs}
           C == UNION {Ancestors(g) : g \in Written}
<1>1. f \in A => f \in Seq(Nat)
  BY ConstantsAssumption DEF ConstantsAssumption
<1>2. f \in B => f \in Seq(Nat)
  BY ConstantsAssumption DEF ConstantsAssumption
<1>3. f \in C => f \in Seq(Nat)
  <2> SUFFICES ASSUME NEW g \in Written, f \in Ancestors(g) PROVE f \in Seq(Nat)
    OBVIOUS
  <2>1. g \in Seq(Nat)
    BY ConstantsAssumption DEF ConstantsAssumption
  <2> QED
    BY <2>1, AncestorsTyped DEF Ancestors
<1>4. AllPaths = A \cup B \cup Written \cup C
  BY DEF AllPaths
<1>5. Written \subseteq Seq(Nat)
  BY ConstantsAssumption DEF ConstantsAssumption
<1> HIDE DEF A, B, C
<1> QED
  BY <1>1, <1>2, <1>3, <1>4, <1>5

-----------------------------------------------------------------------------
(* Listings.                                                               *)

\* Among finitely many paths with names of their own the n-th is the one with n - 1
\* before it, and there is one.
LEMMA EachHasItsPlace ==
  ASSUME NEW S, IsFiniteSet(S), \A f \in S : Last(f) \in Nat,
         \A f, g \in S : Last(f) = Last(g) => f = g
  PROVE  /\ Cardinality(S) \in Nat /\ Sorted(S) \in [1..Cardinality(S) -> S]
         /\ \A f \in S : \E i \in 1..Cardinality(S) : Sorted(S)[i] = f
         /\ \A i, j \in 1..Cardinality(S) : Sorted(S)[i] = Sorted(S)[j] => i = j
<1>1. PICK n : n = Cardinality(S)
  OBVIOUS
<1>2. n \in Nat
  BY <1>1, FS_CardinalityType
<1> DEFINE R == [f \in S |-> Cardinality(Before(S, f))]
<1>3. ASSUME NEW f \in S
      PROVE  /\ Before(S, f) \in SUBSET (S \ {f}) /\ IsFiniteSet(Before(S, f))
             /\ R[f] = Cardinality(Before(S, f)) /\ R[f] \in 0..n - 1
  <2>1. Before(S, f) \in SUBSET (S \ {f})
    BY DEF Before
  <2>2. IsFiniteSet(S \ {f}) /\ Cardinality(S \ {f}) = n - 1
    BY <1>1, FS_RemoveElement
  <2>3. IsFiniteSet(Before(S, f)) /\ Cardinality(Before(S, f)) <= n - 1
    BY <2>1, <2>2, FS_Subset
  <2>4. Cardinality(Before(S, f)) \in Nat
    BY <2>3, FS_CardinalityType
  <2> QED
    BY <1>2, <2>1, <2>3, <2>4
<1>4. ASSUME NEW f \in S, NEW g \in S, Last(f) < Last(g) PROVE R[f] < R[g]
  <2>1. Before(S, f) \in SUBSET Before(S, g)
    BY <1>4 DEF Before
  <2>2. f \in Before(S, g) /\ f \notin Before(S, f)
    BY <1>4 DEF Before
  <2>3. /\ Cardinality(Before(S, f)) <= Cardinality(Before(S, g))
        /\ Cardinality(Before(S, g)) = Cardinality(Before(S, f)) => Before(S, g) = Before(S, f)
    BY <1>3, <2>1, FS_Subset
  <2>4. R[f] = Cardinality(Before(S, f)) /\ R[g] = Cardinality(Before(S, g)) /\ R[f] \in Int /\ R[g] \in Int
    BY <1>3
  <2> QED
    BY <2>2, <2>3, <2>4
<1>5. \A f, g \in S : R[f] = R[g] => f = g
  <2> SUFFICES ASSUME NEW f \in S, NEW g \in S, R[f] = R[g], f # g PROVE FALSE
    OBVIOUS
  <2>1. Last(f) < Last(g) \/ Last(g) < Last(f)
    OBVIOUS
  <2>2. R[f] \in Int /\ R[g] \in Int
    BY <1>3
  <2> HIDE DEF R
  <2> QED
    BY <1>4, <2>1, <2>2
<1>6. \A k \in 0..n - 1 : \E f \in S : R[f] = k
  <2>1. R \in [S -> 0..n - 1]
    BY <1>3
  <2>2. R \in Injection(S, 0..n - 1)
    <3> HIDE DEF R
    <3> QED
      BY <1>5, <2>1 DEF Injection, IsInjective
  <2>3. IsFiniteSet(0..n - 1) /\ Cardinality(0..n - 1) = n
    <3>1. 0 \in Int /\ n - 1 \in Int
      BY <1>2
    <3> QED
      BY <1>2, <3>1, FS_Interval
  <2>4. R \in Surjection(S, 0..n - 1)
    <3> HIDE DEF R
    <3> QED
      BY <1>1, <2>2, <2>3, FS_Injection
  <2> HIDE DEF R
  <2> QED
    BY <2>4 DEF Surjection
<1>7. PICK s : s = Sorted(S)
  OBVIOUS
<1>8. s = [k \in 1..n |-> CHOOSE f \in S : Cardinality(Before(S, f)) = k - 1]
  BY <1>1, <1>7 DEF Sorted
<1>9. ASSUME NEW k \in 1..n PROVE s[k] \in S /\ R[s[k]] = k - 1
  <2>1. k - 1 \in 0..n - 1
    BY <1>2
  <2>2. \E f \in S : Cardinality(Before(S, f)) = k - 1
    BY <1>3, <1>6, <2>1
  <2>3. s[k] = CHOOSE f \in S : Cardinality(Before(S, f)) = k - 1
    BY <1>8
  <2>4. s[k] \in S /\ Cardinality(Before(S, s[k])) = k - 1
    BY <2>2, <2>3
  <2> QED
    BY <2>4
<1>10. s \in [1..n -> S]
  BY <1>8, <1>9
<1>11. \A i, j \in 1..n : s[i] = s[j] => i = j
  <2> SUFFICES ASSUME NEW i \in 1..n, NEW j \in 1..n, s[i] = s[j] PROVE i = j
    OBVIOUS
  <2>1. R[s[i]] = i - 1 /\ R[s[j]] = j - 1
    BY <1>9
  <2> HIDE DEF R
  <2> QED
    BY <2>1
<1>12. \A f \in S : \E i \in 1..n : s[i] = f
  <2> SUFFICES ASSUME NEW f \in S PROVE \E i \in 1..n : s[i] = f
    OBVIOUS
  <2>1. R[f] \in 0..n - 1
    BY <1>3
  <2>2. PICK i : i = R[f] + 1
    OBVIOUS
  <2> HIDE DEF R
  <2>3. i \in 1..n /\ i - 1 = R[f]
    BY <1>2, <2>1, <2>2
  <2>4. s[i] \in S /\ R[s[i]] = R[f]
    BY <1>9, <2>3
  <2> QED
    BY <1>5, <2>3, <2>4
<1> QED
  BY <1>1, <1>2, <1>7, <1>10, <1>11, <1>12

\* Children of one directory have names of their own.
LEMMA NamesDiffer ==
  ASSUME NEW f \in Seq(Nat), NEW g \in Seq(Nat), f # << >>, g # << >>, Parent(f) = Parent(g),
         Last(f) = Last(g)
  PROVE  f = g
<1>1. /\ Len(f) \in Nat \ {0} /\ Len(g) \in Nat \ {0}
      /\ \A i \in 1..Len(f) : f[i] \in Nat
      /\ \A i \in 1..Len(g) : g[i] \in Nat
  BY EmptySeq, ElementOfSeq
<1>2. ASSUME NEW h \in Seq(Nat), Len(h) \in Nat \ {0}
      PROVE  Len(Parent(h)) = Len(h) - 1 /\ \A i \in 1..Len(h) - 1 : Parent(h)[i] = h[i]
  <2>1. 1 \in Int /\ Len(h) - 1 \in Int /\ \A i \in 1..Len(h) - 1 : h[i] \in Nat
    BY <1>2, ElementOfSeq
  <2>2. PICK n : n = Len(h) - 1
    OBVIOUS
  <2>3. Parent(h) = SubSeq(h, 1, n)
    BY <2>2 DEF Parent, Front
  <2>4. Len(SubSeq(h, 1, n)) = (IF 1 <= n THEN n - 1 + 1 ELSE 0)
        /\ \A i \in 1..n - 1 + 1 : SubSeq(h, 1, n)[i] = h[1 + i - 1]
    BY <2>1, <2>2, SubSeqProperties
  <2>5. n \in Nat /\ n - 1 + 1 = n /\ \A i \in 1..n : 1 + i - 1 = i
    BY <1>2, <2>2
  <2> QED
    BY <2>2, <2>3, <2>4, <2>5, SMTT(30)
<1>3. Len(f) = Len(g) /\ \A i \in 1..Len(f) - 1 : f[i] = g[i]
  <2>1. Len(f) - 1 = Len(g) - 1
    BY <1>1, <1>2
  <2>2. \A i \in 1..Len(f) - 1 : f[i] = g[i]
    BY <1>1, <1>2, <2>1
  <2> QED
    BY <1>1, <2>1, <2>2
<1>4. \A i \in 1..Len(f) : f[i] = g[i]
  BY <1>1, <1>3 DEF Last
<1> QED
  BY <1>3, <1>4, SeqEqual

\* So a listing has every child of the directory once.
LEMMA ListedOnce ==
  ASSUME NEW S \in SUBSET AllPaths, NEW d, NEW s, s = Children(S, d)
  PROVE  LET K == {f \in S : f # << >> /\ Parent(f) = d} IN
         /\ s \in Seq(K) /\ Len(s) \in Nat /\ Range(s) = K /\ IsInjective(s) /\ Len(s) = Cardinality(K)
         /\ DOMAIN s = 1..Len(s)
<1> DEFINE K == {f \in S : f # << >> /\ Parent(f) = d}
<1>1. IsFiniteSet(K)
  BY PathsAssumption, FS_Subset DEF PathsAssumption
<1>2. \A f \in K : f \in Seq(Nat) /\ f # << >> /\ Last(f) \in Nat
  <2> SUFFICES ASSUME NEW f \in K PROVE f \in Seq(Nat) /\ f # << >> /\ Last(f) \in Nat
    OBVIOUS
  <2>1. f \in Seq(Nat) /\ f # << >>
    BY PathsTyped
  <2>2. Len(f) \in 1..Len(f)
    BY <2>1, EmptySeq
  <2> QED
    BY <2>1, <2>2, ElementOfSeq DEF Last
<1>3. \A f, g \in K : Last(f) = Last(g) => f = g
  BY <1>2, NamesDiffer
<1>4. PICK n : n = Cardinality(K)
  OBVIOUS
<1>5. s = Sorted(K)
  BY DEF Children
<1> HIDE DEF K
<1>6. /\ n \in Nat /\ s \in [1..n -> K] /\ \A f \in K : \E i \in 1..n : s[i] = f
      /\ \A i, j \in 1..n : s[i] = s[j] => i = j
  BY <1>1, <1>2, <1>3, <1>4, <1>5, EachHasItsPlace
<1>7. s \in Seq(K) /\ Len(s) = n /\ DOMAIN s = 1..n
  BY <1>6
<1>8. Range(s) = K
  BY <1>6, <1>7 DEF Range
<1>9. IsInjective(s)
  BY <1>6, <1>7 DEF IsInjective
<1> QED
  BY <1>4, <1>6, <1>7, <1>8, <1>9 DEF K

LEMMA MinOfTwo ==
  ASSUME NEW a \in Int, NEW b \in Int
  PROVE  Min({a, b}) = IF a <= b THEN a ELSE b
BY DEF Min

\* A part of a sequence, and what it holds.
IsPart(t, s, off, m) ==
  /\ Len(t) = IF off + 1 <= m THEN m - off ELSE 0
  /\ \A f : f \in Range(t) <=> \E i \in off + 1..m : f = s[i]
  /\ IsInjective(s) => IsInjective(t)

LEMMA PartOf ==
  ASSUME NEW K, NEW s \in Seq(K), NEW off \in Nat, NEW m \in Nat, m <= Len(s), NEW t,
         t = SubSeq(s, off + 1, m)
  PROVE  t \in Seq(K) /\ IsPart(t, s, off, m)
<1>1. Len(s) \in Nat /\ (\A i \in 1..Len(s) : s[i] \in K) /\ DOMAIN s = 1..Len(s)
  BY ElementOfSeq, LenProperties
<1>2. off + 1..m \subseteq 1..Len(s)
  BY <1>1
<1>3. \A i \in off + 1..m : s[i] \in K
  BY <1>1, <1>2
<1>4. PICK a : a = off + 1
  OBVIOUS
<1>5. /\ t \in Seq(K) /\ Len(t) = (IF a <= m THEN m - a + 1 ELSE 0)
      /\ \A i \in 1..m - a + 1 : t[i] = s[a + i - 1]
  <2>1. a \in Int /\ m \in Int /\ \A i \in a..m : s[i] \in K
    BY <1>3, <1>4
  <2>2. t = SubSeq(s, a, m)
    BY <1>4
  <2>3. SubSeq(s, a, m) \in Seq(K) /\ Len(SubSeq(s, a, m)) = (IF a <= m THEN m - a + 1 ELSE 0)
        /\ \A i \in 1..m - a + 1 : SubSeq(s, a, m)[i] = s[a + i - 1]
    BY <2>1, SubSeqProperties
  <2> QED
    BY <2>2, <2>3
<1>6. m - a + 1 = m - off /\ \A i \in Int : a + i - 1 = off + i
  BY <1>4
<1>7. PICK n : n = Len(t)
  OBVIOUS
<1>8. n = (IF off + 1 <= m THEN m - off ELSE 0) /\ n \in Nat
  BY <1>4, <1>5, <1>6, <1>7
<1>9. \A i \in 1..n : i \in 1..m - off /\ off + i \in off + 1..m
  BY <1>8
<1>10. \A i \in 1..n : t[i] = s[off + i]
  <2> SUFFICES ASSUME NEW i \in 1..n PROVE t[i] = s[off + i]
    OBVIOUS
  <2>1. i \in 1..m - a + 1 /\ a + i - 1 = off + i
    BY <1>6, <1>9
  <2> QED
    BY <2>1, <1>5
<1>11. DOMAIN t = 1..n
  BY <1>5, <1>7, LenProperties
<1>12. \A f : f \in Range(t) <=> \E i \in off + 1..m : f = s[i]
  <2>1. \A i \in off + 1..m : i - off \in 1..n /\ off + (i - off) = i
    BY <1>8
  <2>2. Range(t) = {t[k] : k \in 1..n}
    BY <1>11 DEF Range
  <2>3. ASSUME NEW i \in off + 1..m PROVE s[i] \in Range(t)
    <3>1. PICK k \in 1..n : off + k = i
      BY <2>1
    <3>2. t[k] = s[i]
      BY <3>1, <1>10
    <3> QED
      BY <3>2, <2>2
  <2> QED
    BY <1>9, <1>10, <2>2, <2>3
<1>13. ASSUME IsInjective(s) PROVE IsInjective(t)
  <2> SUFFICES ASSUME NEW i \in 1..n, NEW j \in 1..n, t[i] = t[j] PROVE i = j
    BY <1>11 DEF IsInjective
  <2>1. s[off + i] = s[off + j] /\ off + i \in DOMAIN s /\ off + j \in DOMAIN s
    BY <1>1, <1>2, <1>9, <1>10
  <2>2. off + i = off + j
    BY <2>1, <1>13 DEF IsInjective
  <2> QED
    BY <2>2
<1> QED
  BY <1>5, <1>7, <1>8, <1>12, <1>13 DEF IsPart

\* The rows of a page.
LEMMA RowsOf ==
  ASSUME NEW K, NEW s \in Seq(K), NEW limit \in Nat, NEW off \in Nat, NEW m, NEW t,
         m = Min({Len(s), off + OrDefault(limit)}), t = Rows(s, limit, off)
  PROVE  /\ m = IF Len(s) <= off + OrDefault(limit) THEN Len(s) ELSE off + OrDefault(limit)
         /\ OrDefault(limit) \in Nat \ {0} /\ m \in Nat
         /\ t \in Seq(K) /\ IsPart(t, s, off, m)
<1>1. Len(s) \in Nat
  BY LenProperties
<1>2. OrDefault(limit) \in Nat \ {0}
  BY ConstantsAssumption DEF ConstantsAssumption, OrDefault
<1>3. /\ m = IF Len(s) <= off + OrDefault(limit) THEN Len(s) ELSE off + OrDefault(limit)
      /\ m \in Nat /\ m <= Len(s)
  BY <1>1, <1>2, MinOfTwo
<1>4. t = SubSeq(s, off + 1, m)
  BY DEF Rows
<1>5. m \in Nat /\ m <= Len(s)
  BY <1>3
<1> QED
  BY <1>2, <1>3, <1>4, <1>5, PartOf

\* What the other pages hold; nothing, once the listing has come to its end.
LEMMA AfterOf ==
  ASSUME NEW K, NEW s \in Seq(K), NEW off \in Nat
  PROVE  /\ Len(s) \in Nat /\ DOMAIN s = 1..Len(s)
         /\ After(s, 0) = Range(s) /\ After(s, off) \in SUBSET Range(s) /\ Range(s) \in SUBSET K
         /\ Len(s) <= off => After(s, off) = {}
         /\ \A f : f \in After(s, off) <=> \E i \in off + 1..Len(s) : f = s[i]
<1>1. Len(s) \in Nat /\ DOMAIN s = 1..Len(s) /\ \A i \in 1..Len(s) : s[i] \in K
  BY ElementOfSeq, LenProperties
<1>2. Range(s) = {s[i] : i \in 1..Len(s)}
  BY <1>1 DEF Range
<1>3. 0 + 1 = 1 /\ \A i \in off + 1..Len(s) : i \in 1..Len(s)
  BY <1>1
<1>4. ASSUME Len(s) <= off PROVE off + 1..Len(s) = {}
  BY <1>1, <1>4
<1> QED
  BY <1>1, <1>2, <1>3, <1>4 DEF After

LEMMA PageTyped ==
  ASSUME dirs \subseteq AllPaths, files \subseteq AllPaths, NEW d, NEW limit \in Nat \ {0},
         NEW off \in Nat, NEW page, page = Listing(d, limit, off)
  PROVE  page.files \in Seq(Kids(d)) /\ page.dirs \in Seq(Kids(d)) /\ page.total \in Nat
<1>1. PICK ds : ds = Children(dirs, d)
  OBVIOUS
<1>2. PICK fs : fs = Children(files, d)
  OBVIOUS
<1>3. PICK dpage : dpage = Rows(ds, limit, off)
  OBVIOUS
<1>4. PICK fo : fo = FileOffset(Total(ds, dpage), off)
  OBVIOUS
<1>5. PICK fpage : fpage = Rows(fs, limit - Len(dpage), fo)
  OBVIOUS
<1>6. ds \in Seq(Kids(d)) /\ fs \in Seq(Kids(d)) /\ Len(ds) \in Nat /\ Len(fs) \in Nat
  <2>1. \A S \in SUBSET AllPaths : {f \in S : f # << >> /\ Parent(f) = d} \subseteq Kids(d)
    BY DEF Kids
  <2>2. /\ ds \in Seq({f \in dirs : f # << >> /\ Parent(f) = d}) /\ Len(ds) \in Nat
        /\ fs \in Seq({f \in files : f # << >> /\ Parent(f) = d}) /\ Len(fs) \in Nat
    <3>1. dirs \in SUBSET AllPaths /\ files \in SUBSET AllPaths
      OBVIOUS
    <3>2. ds \in Seq({f \in dirs : f # << >> /\ Parent(f) = d}) /\ Len(ds) \in Nat
      BY <1>1, <3>1, ListedOnce, ZenonT(30)
    <3>3. fs \in Seq({f \in files : f # << >> /\ Parent(f) = d}) /\ Len(fs) \in Nat
      BY <1>2, <3>1, ListedOnce
    <3> QED
      BY <3>2, <3>3
  <2>3. \A i \in 1..Len(ds) : ds[i] \in Kids(d)
    BY <2>1, <2>2, ElementOfSeq
  <2>4. \A i \in 1..Len(fs) : fs[i] \in Kids(d)
    BY <2>1, <2>2, ElementOfSeq
  <2>5. ds \in [1..Len(ds) -> Kids(d)] /\ fs \in [1..Len(fs) -> Kids(d)]
    BY <2>2, <2>3, <2>4, LenProperties
  <2> QED
    BY <2>2, <2>5
<1>7. dpage \in Seq(Kids(d)) /\ Len(dpage) \in 0..limit
  <2>1. OrDefault(limit) = limit
    BY DEF OrDefault
  <2>2. PICK m : m = Min({Len(ds), off + OrDefault(limit)})
    OBVIOUS
  <2>3. /\ dpage \in Seq(Kids(d)) /\ m \in Nat /\ Len(dpage) = (IF off + 1 <= m THEN m - off ELSE 0)
        /\ m = IF Len(ds) <= off + OrDefault(limit) THEN Len(ds) ELSE off + OrDefault(limit)
    BY <1>3, <1>6, <2>2, RowsOf DEF IsPart
  <2> QED
    BY <2>1, <2>3, <1>6
<1>8. fo \in Nat /\ Total(ds, dpage) \in Nat /\ limit - Len(dpage) \in Nat
  BY <1>4, <1>6, <1>7 DEF FileOffset, Total
<1>9. fpage \in Seq(Kids(d))
  BY <1>5, <1>6, <1>8, RowsOf
<1>10. Total(fs, fpage) \in Nat
  BY <1>6 DEF Total
<1>11. page = IF d \in dirs
              THEN [dirs |-> dpage, files |-> fpage, total |-> Total(ds, dpage) + Total(fs, fpage)]
              ELSE [dirs |-> << >>, files |-> << >>, total |-> 0]
  BY <1>1, <1>2, <1>3, <1>4, <1>5 DEF Listing
<1> QED
  BY <1>7, <1>8, <1>9, <1>10, <1>11

\* A page, and what comes after it.
LEMMA Splits ==
  ASSUME NEW K, NEW s \in Seq(K), IsInjective(s), NEW off \in Nat, NEW n \in Nat, off <= n,
         NEW m, (Len(s) <= n /\ m = Len(s)) \/ (n < Len(s) /\ m = n), NEW t \in Seq(K), IsPart(t, s, off, m)
  PROVE  /\ IsInjective(t) /\ Range(t) \subseteq Range(s)
         /\ Range(t) \cup After(s, n) = After(s, off) /\ Range(t) \cap After(s, n) = {}
<1>1. PICK k : k = Len(s)
  OBVIOUS
<1>2. \A f : f \in Range(t) <=> \E i \in off + 1..m : f = s[i]
  BY DEF IsPart
<1>3. /\ \A f : f \in After(s, n) <=> \E i \in n + 1..k : f = s[i]
      /\ \A f : f \in After(s, off) <=> \E i \in off + 1..k : f = s[i]
  BY <1>1, AfterOf
<1>4. /\ \A i \in off + 1..k : i \in off + 1..m \/ i \in n + 1..k
      /\ \A i \in off + 1..m : i \in off + 1..k /\ i \in DOMAIN s /\ i \notin n + 1..k
      /\ \A i \in n + 1..k : i \in off + 1..k /\ i \in DOMAIN s
  <2>1. k \in Nat /\ DOMAIN s = 1..k
    BY <1>1, LenProperties
  <2>2. (k <= n /\ m = k) \/ (n < k /\ m = n)
    BY <1>1
  <2>3. m \in Nat /\ m <= k /\ m <= n
    BY <2>1, <2>2
  <2>4. \A i \in off + 1..k : i \in off + 1..m \/ i \in n + 1..k
    BY <2>1, <2>2
  <2>5. \A i \in off + 1..m : i \in off + 1..k /\ i \in 1..k /\ i \notin n + 1..k
    BY <2>1, <2>3
  <2>6. \A i \in n + 1..k : i \in off + 1..k /\ i \in 1..k
    BY <2>1
  <2> QED
    BY <2>1, <2>4, <2>5, <2>6
<1>5. Range(t) \cup After(s, n) = After(s, off)
  <2>1. \A f : f \in Range(t) \/ f \in After(s, n) <=> f \in After(s, off)
    BY <1>2, <1>3, <1>4
  <2> QED
    BY <2>1
<1>6. ASSUME NEW f \in Range(t), f \in After(s, n) PROVE FALSE
  <2>1. PICK i \in off + 1..m : f = s[i]
    BY <1>2, <1>6
  <2>2. PICK j \in n + 1..k : f = s[j]
    BY <1>3, <1>6
  <2>3. i = j
    BY <2>1, <2>2, <1>4 DEF IsInjective
  <2> QED
    BY <2>3, <1>4
<1>7. Range(t) \subseteq Range(s)
  BY <1>2, <1>4 DEF Range
<1> QED
  BY <1>5, <1>6, <1>7 DEF IsPart

\* A page of a directory, if its entries are of one kind or all on it, is what comes
\* before the pages that follow; and if none follows, nothing is left.
SplitsOff(page, ds, fs, off) ==
  /\ IsInjective(page.files) /\ IsInjective(page.dirs)
  /\ Range(page.files) \subseteq files /\ Range(page.dirs) \subseteq dirs
  /\ Range(page.files) \cup After(fs, off + PageLimit) = After(fs, off)
  /\ Range(page.files) \cap After(fs, off + PageLimit) = {}
  /\ Range(page.dirs) \cup After(ds, off + PageLimit) = After(ds, off)
  /\ Range(page.dirs) \cap After(ds, off + PageLimit) = {}
  /\ Len(page.files) + Len(page.dirs) < PageLimit \/ page.total <= off + PageLimit =>
       After(fs, off + PageLimit) = {} /\ After(ds, off + PageLimit) = {}

LEMMA PageSplits ==
  ASSUME dirs \subseteq AllPaths, files \subseteq AllPaths, Closed(dirs, files),
         NEW d, d \in dirs => OnePage(d) \/ OneKind(d),
         NEW off \in Nat, off = 0 \/ off >= PageLimit, NEW page, page = Listing(d, PageLimit, off),
         NEW ds, ds = Children(dirs, d), NEW fs, fs = Children(files, d)
  PROVE  SplitsOff(page, ds, fs, off)
<1> USE DEF SplitsOff
<1>1. PICK dpage : dpage = Rows(ds, PageLimit, off)
  OBVIOUS
<1>2. PICK fo : fo = FileOffset(Total(ds, dpage), off)
  OBVIOUS
<1>3. PICK fpage : fpage = Rows(fs, PageLimit - Len(dpage), fo)
  OBVIOUS
<1>4. PageLimit \in Nat \ {0}
  BY ConstantsAssumption DEF ConstantsAssumption
<1>5. page = IF d \in dirs
             THEN [dirs |-> dpage, files |-> fpage, total |-> Total(ds, dpage) + Total(fs, fpage)]
             ELSE [dirs |-> << >>, files |-> << >>, total |-> 0]
  BY <1>1, <1>2, <1>3 DEF Listing
<1>6. /\ ds \in Seq(ChildDirs(d)) /\ Len(ds) \in Nat /\ Range(ds) = ChildDirs(d) /\ IsInjective(ds)
      /\ Len(ds) = Cardinality(ChildDirs(d))
  <2>1. dirs \in SUBSET AllPaths /\ ds = Children(dirs, d)
    OBVIOUS
  <2>2. PICK C : C = ChildDirs(d)
    OBVIOUS
  <2>3. C = {f \in dirs : f # << >> /\ Parent(f) = d}
    BY <2>2 DEF ChildDirs
  <2>4. ds \in Seq(C) /\ Len(ds) \in Nat /\ Range(ds) = C /\ IsInjective(ds) /\ Len(ds) = Cardinality(C)
    BY <2>1, <2>3, ListedOnce
  <2> QED
    BY <2>2, <2>4
<1>7. /\ fs \in Seq(ChildFiles(d)) /\ Len(fs) \in Nat /\ Range(fs) = ChildFiles(d) /\ IsInjective(fs)
      /\ Len(fs) = Cardinality(ChildFiles(d))
  <2>1. files \in SUBSET AllPaths /\ fs = Children(files, d)
    OBVIOUS
  <2>2. PICK C : C = ChildFiles(d)
    OBVIOUS
  <2>3. C = {f \in files : f # << >> /\ Parent(f) = d}
    BY <2>2 DEF ChildFiles
  <2>4. fs \in Seq(C) /\ Len(fs) \in Nat /\ Range(fs) = C /\ IsInjective(fs) /\ Len(fs) = Cardinality(C)
    BY <2>1, <2>3, ListedOnce
  <2> QED
    BY <2>2, <2>4
<1>8. PICK n : n = off + PageLimit
  OBVIOUS
<1>9. n \in Nat /\ off <= n /\ off < n /\ PageLimit <= n
  BY <1>4, <1>8
<1>10. /\ \A k \in Nat : Len(ds) <= k => After(ds, k) = {}
       /\ \A k \in Nat : Len(fs) <= k => After(fs, k) = {}
  BY <1>6, <1>7, AfterOf
<1>11. ChildDirs(d) \subseteq dirs /\ ChildFiles(d) \subseteq files
  BY DEF ChildDirs, ChildFiles
<1>12. \A x : IsInjective(<< >>) /\ Range(<< >>) = {} /\ Len(<< >>) = 0
  BY DEF IsInjective, Range
<1>13. CASE d \notin dirs
  <2>1. ChildDirs(d) = {} /\ ChildFiles(d) = {}
    <3>1. ASSUME NEW f \in dirs \cup files, f # << >> PROVE Parent(f) # d
      <4>1. f \in Seq(Nat) /\ Ancestors(f) \subseteq dirs
        BY DEF Closed
      <4>2. Len(f) - 1 \in 0..Len(f) - 1
        BY <3>1, <4>1, EmptySeq
      <4>3. Parent(f) \in Ancestors(f)
        BY <4>1, <4>2, AncestorsTyped DEF Parent, Front
      <4> QED
        BY <4>1, <4>3, <1>13
    <3> QED
      BY <3>1 DEF ChildDirs, ChildFiles
  <2>2. Len(ds) = 0 /\ Len(fs) = 0
    BY <2>1, <1>6, <1>7, FS_EmptySet
  <2>3. After(ds, off) = {} /\ After(fs, off) = {} /\ After(ds, n) = {} /\ After(fs, n) = {}
    BY <2>2, <1>9, <1>10
  <2>4. page.files = << >> /\ page.dirs = << >>
    BY <1>5, <1>13
  <2> QED
    BY <2>3, <2>4, <1>8, <1>12
<1>14. CASE d \in dirs
  <2>1. page.files = fpage /\ page.dirs = dpage /\ page.total = Total(ds, dpage) + Total(fs, fpage)
    BY <1>5, <1>14
  <2>2. OrDefault(PageLimit) = PageLimit
    BY <1>4 DEF OrDefault
  <2>3. PICK m : m = IF Len(ds) <= n THEN Len(ds) ELSE n
    OBVIOUS
  <2>4. dpage \in Seq(ChildDirs(d)) /\ IsPart(dpage, ds, off, m)
    <3>1. PICK k : k = Min({Len(ds), off + OrDefault(PageLimit)})
      OBVIOUS
    <3>2. /\ k = m
          /\ dpage \in Seq(ChildDirs(d)) /\ IsPart(dpage, ds, off, k)
      <4>1. PICK C : C = ChildDirs(d)
        OBVIOUS
      <4>2. PageLimit \in Nat /\ ds \in Seq(C)
        BY <4>1, <1>4, <1>6
      <4>3. k = m
        <5>1. k = Min({Len(ds), n}) /\ Len(ds) \in Int /\ n \in Int
          BY <3>1, <2>2, <1>6, <1>8, <1>9
        <5> QED
          BY <5>1, <2>3, MinOfTwo
      <4>4. dpage \in Seq(C)
        BY <4>2, <3>1, <1>1, RowsOf
      <4>5. IsPart(dpage, ds, off, k)
        BY <4>2, <3>1, <1>1, RowsOf
      <4> QED
        BY <4>1, <4>3, <4>4, <4>5
    <3> QED
      BY <3>2
  <2>5. /\ IsInjective(dpage) /\ Range(dpage) \subseteq Range(ds)
        /\ Range(dpage) \cup After(ds, n) = After(ds, off) /\ Range(dpage) \cap After(ds, n) = {}
    BY <2>3, <2>4, <1>6, <1>9, Splits
  <2>6. Len(dpage) = (IF off + 1 <= m THEN m - off ELSE 0) /\ Len(dpage) \in 0..PageLimit
    BY <2>3, <2>4, <1>4, <1>6, <1>8 DEF IsPart
  <2>7. Total(ds, dpage) = IF Len(dpage) = 0 THEN 0 ELSE Len(ds)
    BY <2>4, EmptySeq DEF Total
  <2>8. fo \in Nat /\ PageLimit - Len(dpage) \in Nat
    BY <2>6, <2>7, <1>2, <1>4, <1>6 DEF FileOffset
  <2>9. PICK k : k = Min({Len(fs), fo + OrDefault(PageLimit - Len(dpage))})
    OBVIOUS
  <2>10. /\ k = IF Len(fs) <= fo + OrDefault(PageLimit - Len(dpage)) THEN Len(fs)
                ELSE fo + OrDefault(PageLimit - Len(dpage))
         /\ OrDefault(PageLimit - Len(dpage)) \in Nat \ {0} /\ k \in Nat
         /\ fpage \in Seq(ChildFiles(d)) /\ IsPart(fpage, fs, fo, k)
    BY <2>8, <2>9, <1>3, <1>7, RowsOf
  <2>11. PICK mf : mf = IF Len(fs) <= n THEN Len(fs) ELSE n
    OBVIOUS
  <2>12. Len(fpage) \in Nat /\ Total(fs, fpage) = IF Len(fpage) = 0 THEN 0 ELSE Len(fs)
    BY <2>10, EmptySeq DEF Total
  <2>13. CASE Len(fs) = 0
    <3>1. Len(fpage) = 0
      BY <2>10, <2>8, <2>13 DEF IsPart
    <3>2. fpage = << >>
      BY <3>1, <2>10, EmptySeq
    <3>3. After(fs, off) = {} /\ After(fs, n) = {}
      BY <2>13, <1>9, <1>10
    <3>4. ASSUME Len(fpage) + Len(dpage) < PageLimit \/ Total(ds, dpage) + Total(fs, fpage) <= n
          PROVE  Len(ds) <= n
      BY <3>1, <3>4, <2>3, <2>6, <2>7, <2>12, <1>4, <1>6, <1>8
    <3> QED
      BY <3>2, <3>3, <3>4, <2>1, <2>5, <1>6, <1>8, <1>9, <1>10, <1>11, <1>12
  <2>14. CASE /\ IsPart(fpage, fs, off, mf)
              /\ Len(ds) = 0 \/ (Len(fs) <= PageLimit /\ Len(ds) <= PageLimit)
    <3>1. /\ IsInjective(fpage) /\ Range(fpage) \subseteq Range(fs)
          /\ Range(fpage) \cup After(fs, n) = After(fs, off) /\ Range(fpage) \cap After(fs, n) = {}
      BY <2>10, <2>11, <2>14, <1>7, <1>9, Splits
    <3>2. Len(fpage) = IF off + 1 <= mf THEN mf - off ELSE 0
      BY <2>14 DEF IsPart
    <3>3. ASSUME Len(fpage) + Len(dpage) < PageLimit \/ Total(ds, dpage) + Total(fs, fpage) <= n
          PROVE  Len(ds) <= n /\ Len(fs) <= n
      BY <3>2, <3>3, <2>3, <2>6, <2>7, <2>11, <2>12, <2>14, <1>4, <1>6, <1>7, <1>8
    <3> QED
      BY <3>1, <3>3, <2>1, <2>5, <1>6, <1>7, <1>8, <1>9, <1>10, <1>11
  <2>15. CASE Len(ds) = 0
    <3>1. Len(dpage) = 0
      BY <2>3, <2>6, <2>15, <1>9
    <3>2. fo = off
      BY <3>1, <2>7, <1>2 DEF FileOffset
    <3>3. k = mf
      BY <3>1, <3>2, <2>2, <2>10, <2>11, <1>4, <1>8
    <3> QED
      BY <3>2, <3>3, <2>10, <2>14, <2>15
  <2>16. CASE Len(fs) # 0 /\ Len(ds) + Len(fs) <= PageLimit
    <3>1. CASE off = 0
      <4>1. fo = 0
        BY <3>1, <2>7, <1>2, <1>6 DEF FileOffset
      <4>2. Len(dpage) = Len(ds)
        BY <3>1, <2>3, <2>6, <2>16, <1>4, <1>6, <1>7, <1>8
      <4>3. OrDefault(PageLimit - Len(dpage)) = PageLimit - Len(ds)
        BY <4>2, <2>16, <1>4, <1>6, <1>7 DEF OrDefault
      <4>4. k = mf
        BY <4>1, <4>3, <3>1, <2>10, <2>11, <2>16, <1>4, <1>6, <1>7, <1>8
      <4>5. IsPart(fpage, fs, off, mf) /\ Len(fs) <= PageLimit /\ Len(ds) <= PageLimit
        BY <4>1, <4>4, <3>1, <2>10, <2>16, <1>4, <1>6, <1>7
      <4> QED
        BY <4>5, <2>14, Zenon
    <3>2. CASE off >= PageLimit
      <4>1. Len(dpage) = 0
        BY <3>2, <2>3, <2>6, <2>16, <1>4, <1>6, <1>7, <1>8
      <4>2. fo = off
        BY <4>1, <2>7, <1>2 DEF FileOffset
      <4>3. k = mf
        BY <4>1, <4>2, <3>2, <2>2, <2>10, <2>11, <2>16, <1>4, <1>6, <1>7, <1>8
      <4>4. IsPart(fpage, fs, off, mf) /\ Len(fs) <= PageLimit /\ Len(ds) <= PageLimit
        BY <4>2, <4>3, <2>10, <2>16, <1>4, <1>6, <1>7
      <4> QED
        BY <4>4, <2>14, Zenon
    <3> QED
      BY <3>1, <3>2
  <2>17. Len(fs) = 0 \/ Len(ds) = 0 \/ Len(ds) + Len(fs) <= PageLimit
    BY <1>6, <1>7, <1>14, FS_EmptySet DEF OnePage, OneKind
  <2> QED
    BY <2>13, <2>15, <2>16, <2>17
<1> QED
  BY <1>13, <1>14

-----------------------------------------------------------------------------
(* The recursion.                                                          *)

\* What stays of a stack when its top changes, another directory is put on it, or its
\* top is taken off.
LEMMA Replaced ==
  ASSUME NEW T, NEW s \in Seq(T), s # << >>, NEW e \in T, NEW n, n = Len(s),
         NEW t, t = [s EXCEPT ![n] = e]
  PROVE  /\ n \in Nat \ {0} /\ t \in Seq(T) /\ Len(t) = n /\ t # << >> /\ t[n] = e
         /\ \A i \in 1..n - 1 : t[i] = s[i]
<1>1. n \in Nat \ {0}
  BY EmptySeq
<1>2. n \in 1..Len(s)
  BY <1>1
<1>3. /\ t \in Seq(T) /\ Len(t) = n
      /\ \A j \in 1..Len(s) : t[j] = IF j = n THEN e ELSE s[j]
  BY <1>2, ExceptSeq
<1>4. t # << >>
  BY <1>1, <1>3, EmptySeq
<1>5. \A i \in 1..n - 1 : i \in 1..Len(s) /\ i # n
  BY <1>1
<1> QED
  BY <1>1, <1>2, <1>3, <1>4, <1>5

LEMMA Pushed ==
  ASSUME NEW T, NEW s \in Seq(T), s # << >>, NEW e \in T, NEW n, n = Len(s), NEW f \in T,
         NEW t, t = Append([s EXCEPT ![n] = e], f)
  PROVE  /\ n \in Nat \ {0} /\ t \in Seq(T) /\ Len(t) = n + 1 /\ t # << >> /\ t[n] = e /\ t[n + 1] = f
         /\ \A i \in 1..n - 1 : t[i] = s[i]
<1>1. PICK r : r = [s EXCEPT ![n] = e]
  OBVIOUS
<1>2. /\ n \in Nat \ {0} /\ r \in Seq(T) /\ Len(r) = n /\ r[n] = e
      /\ \A i \in 1..n - 1 : r[i] = s[i]
  BY <1>1, Replaced
<1>3. t = Append(r, f)
  BY <1>1
<1>4. /\ t \in Seq(T) /\ t # << >> /\ Len(t) = Len(r) + 1
      /\ \A i \in 1..Len(r) : t[i] = r[i]
      /\ t[Len(r) + 1] = f
  BY <1>2, <1>3, AppendProperties
<1>5. n \in 1..Len(r) /\ \A i \in 1..n - 1 : i \in 1..Len(r)
  BY <1>2
<1> QED
  BY <1>2, <1>4, <1>5

LEMMA Popped ==
  ASSUME NEW T, NEW s \in Seq(T), s # << >>, NEW n, n = Len(s), NEW t, t = Front(s)
  PROVE  /\ n \in Nat \ {0} /\ t \in Seq(T) /\ Len(t) = n - 1
         /\ \A i \in 1..n - 1 : t[i] = s[i]
<1>1. n \in Nat \ {0}
  BY EmptySeq
<1>2. t = SubSeq(s, 0 + 1, n - 1) /\ 0 \in Nat /\ n - 1 \in Nat /\ n - 1 <= Len(s)
  BY <1>1 DEF Front
<1>3. t \in Seq(T) /\ IsPart(t, s, 0, n - 1)
  BY <1>2, PartOf
<1>4. Len(t) = n - 1
  BY <1>1, <1>3 DEF IsPart
<1>5. \A i \in 1..n - 1 : t[i] = s[i]
  <2>1. 1 \in Int /\ n - 1 \in Int /\ \A i \in 1..n - 1 : s[i] \in T
    BY <1>1, ElementOfSeq
  <2>2. PICK k : k = n - 1
    OBVIOUS
  <2>3. t = SubSeq(s, 1, k)
    BY <2>2 DEF Front
  <2>4. \A i \in 1..k - 1 + 1 : SubSeq(s, 1, k)[i] = s[1 + i - 1]
    BY <2>1, <2>2, SubSeqProperties
  <2>5. k - 1 + 1 = k /\ \A i \in 1..k : 1 + i - 1 = i
    BY <2>1, <2>2
  <2> QED
    BY <2>2, <2>3, <2>4, <2>5
<1> QED
  BY <1>1, <1>3, <1>4, <1>5

LEMMA TopTyped ==
  ASSUME Framed, Active, NEW n, n = Len(stack)
  PROVE  /\ stack \in Seq(FrameTypes) /\ stack # << >> /\ n \in Nat \ {0} /\ Top = stack[n] /\ Top \in FrameTypes
         /\ \A i \in 1..n : stack[i] \in FrameTypes
         /\ Top.files \in Seq(Kids(Top.dir)) /\ Top.subdirs \in Seq(Kids(Top.dir))
         /\ Top.off = 0 \/ Top.off >= PageLimit
         /\ pc \in {"start", "page"} => Top.files = << >> /\ Top.subdirs = << >>
<1>1. stack \in Seq(FrameTypes) /\ stack # << >>
  BY DEF Framed
<1>2. n \in Nat \ {0} /\ n \in 1..n
  BY <1>1, EmptySeq
<1>3. \A i \in 1..n : stack[i] \in FrameTypes
  BY <1>1, ElementOfSeq
<1> QED
  BY <1>1, <1>2, <1>3 DEF Framed, Top, Due

\* A child of a directory lies in it, and in all that lies above it.
LEMMA KidsOf ==
  ASSUME NEW p, NEW d \in Kids(p)
  PROVE  /\ d \in AllPaths /\ d \in Seq(Nat) /\ d # << >> /\ p \in Seq(Nat)
         /\ p \in Ancestors(d) /\ Len(d) = Len(p) + 1 /\ Len(p) \in Nat
         /\ \A g \in Ancestors(p) : g \in Ancestors(d)
         /\ \A g \in Ancestors(d) : g = p \/ g \in Ancestors(p)
<1>1. d \in AllPaths /\ d \in Seq(Nat) /\ d # << >> /\ p = Parent(d)
  BY PathsTyped DEF Kids
<1>2. Len(d) \in Nat \ {0}
  BY <1>1, EmptySeq
<1>3. PICK k : k = Len(d) - 1
  OBVIOUS
<1>4. k \in 0..Len(d) - 1 /\ p = SubSeq(d, 1, k)
  BY <1>1, <1>2, <1>3 DEF Parent, Front
<1>5. p \in Seq(Nat) /\ Len(p) = k /\ p \in Ancestors(d)
  BY <1>1, <1>4, AncestorsTyped
<1>6. ASSUME NEW g \in Ancestors(d) PROVE g = p \/ g \in Ancestors(p)
  <2>1. Len(g) \in 0..Len(d) - 1
    BY <1>1, AncestorsTyped
  <2>2. Len(g) = Len(p) \/ Len(g) < Len(p)
    BY <2>1, <1>2, <1>3, <1>5
  <2> QED
    BY <2>2, <1>1, <1>5, Linear
<1>7. \A g \in Ancestors(p) : g \in Ancestors(d)
  BY <1>1, <1>5, AncestorsAbove
<1>8. Len(d) = Len(p) + 1 /\ Len(p) \in Nat
  BY <1>2, <1>3, <1>5
<1> QED
  BY <1>1, <1>5, <1>6, <1>7, <1>8

\* The steps of the recursion keep every frame to its directory.
LEMMA FramedSet ==
  ASSUME Framed, Active, job' = job, NEW e \in FrameTypes, e.dir = Top.dir,
         e.files \in Seq(Kids(e.dir)), e.subdirs \in Seq(Kids(e.dir)),
         e.off = 0 \/ e.off >= PageLimit,
         pc' \in {"start", "page"} => e.files = << >> /\ e.subdirs = << >>,
         stack' = [stack EXCEPT ![Len(stack)] = e]
  PROVE  Framed'
<1>1. PICK n : n = Len(stack)
  OBVIOUS
<1>2. stack \in Seq(FrameTypes) /\ stack # << >> /\ Top = stack[n]
  BY <1>1, TopTyped
<1>3. /\ n \in Nat \ {0} /\ stack' \in Seq(FrameTypes) /\ Len(stack') = n /\ stack' # << >> /\ stack'[n] = e
      /\ \A i \in 1..n - 1 : stack'[i] = stack[i]
  BY <1>1, <1>2, Replaced
<1>4. \A i \in 1..n : stack'[i].dir = stack[i].dir
  <2>1. \A i \in 1..n : i = n \/ i \in 1..n - 1
    BY <1>3
  <2> QED
    BY <2>1, <1>2, <1>3
<1>5. ASSUME NEW i \in 1..n
      PROVE  /\ stack'[i].files \in Seq(Kids(stack'[i].dir)) /\ stack'[i].subdirs \in Seq(Kids(stack'[i].dir))
             /\ i > 1 => stack'[i].dir \in Kids(stack'[i - 1].dir)
             /\ \A j \in 1..i - 1 : stack'[j].dir \in Ancestors(stack'[i].dir)
             /\ Due(i)' => stack'[i].files = << >> /\ stack'[i].subdirs = << >>
             /\ stack'[i].off = 0 \/ stack'[i].off >= PageLimit
  <2>1. /\ i > 1 => stack'[i].dir \in Kids(stack'[i - 1].dir)
        /\ \A j \in 1..i - 1 : stack'[j].dir \in Ancestors(stack'[i].dir)
    <3>1. /\ i > 1 => stack[i].dir \in Kids(stack[i - 1].dir)
          /\ \A j \in 1..i - 1 : stack[j].dir \in Ancestors(stack[i].dir)
      BY <1>1 DEF Framed
    <3>2. (i > 1 => i - 1 \in 1..n) /\ \A j \in 1..i - 1 : j \in 1..n
      BY <1>3
    <3> QED
      BY <3>1, <3>2, <1>4
  <2>2. CASE i = n
    BY <2>1, <2>2, <1>3 DEF Due
  <2>3. CASE i \in 1..n - 1
    <3>1. stack'[i] = stack[i] /\ ~(i = n)
      BY <2>3, <1>3
    <3> QED
      BY <2>1, <3>1, <1>1, <1>3 DEF Framed, Due
  <2>4. i = n \/ i \in 1..n - 1
    BY <1>3
  <2> QED
    BY <2>2, <2>3, <2>4
<1>6. stack'[1].dir = job'.root
  <2>1. 1 \in 1..n
    BY <1>3
  <2>2. stack'[1].dir = stack[1].dir
    BY <2>1, <1>4
  <2>3. stack[1].dir = job.root
    BY DEF Framed
  <2> QED
    BY <2>2, <2>3
<1>7. job'.op = "browse" => Len(stack') = 1
  BY <1>1, <1>3 DEF Framed
<1> QED
  BY <1>3, <1>5, <1>6, <1>7 DEF Framed

LEMMA FramedPush ==
  ASSUME Framed, Active, job' = job, job.op # "browse", NEW e \in FrameTypes, e.dir = Top.dir,
         e.files \in Seq(Kids(e.dir)), e.subdirs \in Seq(Kids(e.dir)),
         e.off = 0 \/ e.off >= PageLimit, NEW d \in Kids(e.dir), pc' = "page",
         stack' = Append([stack EXCEPT ![Len(stack)] = e], Frame(d))
  PROVE  Framed'
<1>1. PICK n : n = Len(stack)
  OBVIOUS
<1>2. stack \in Seq(FrameTypes) /\ stack # << >> /\ Top = stack[n]
  BY <1>1, TopTyped
<1>3. PICK f : f = Frame(d)
  OBVIOUS
<1>4. /\ d \in AllPaths /\ f \in FrameTypes /\ f.dir = d /\ f.files = << >> /\ f.subdirs = << >> /\ f.off = 0
      /\ f.files \in Seq(Kids(f.dir)) /\ f.subdirs \in Seq(Kids(f.dir))
  BY <1>3, KidsOf, EmptySeq DEF Frame, FrameTypes
<1>5. /\ n \in Nat \ {0} /\ stack' \in Seq(FrameTypes) /\ Len(stack') = n + 1 /\ stack' # << >>
      /\ stack'[n] = e /\ stack'[n + 1] = f
      /\ \A i \in 1..n - 1 : stack'[i] = stack[i]
  BY <1>1, <1>2, <1>3, <1>4, Pushed
<1>6. \A i \in 1..n : stack'[i].dir = stack[i].dir
  <2>1. \A i \in 1..n : i = n \/ i \in 1..n - 1
    BY <1>5
  <2> QED
    BY <2>1, <1>2, <1>5
<1>7. ASSUME NEW i \in 1..n
      PROVE  /\ i > 1 => stack[i].dir \in Kids(stack[i - 1].dir) /\ i - 1 \in 1..n
             /\ \A j \in 1..i - 1 : j \in 1..n /\ stack[j].dir \in Ancestors(stack[i].dir)
  <2>1. /\ i > 1 => stack[i].dir \in Kids(stack[i - 1].dir)
        /\ \A j \in 1..i - 1 : stack[j].dir \in Ancestors(stack[i].dir)
    BY <1>1, Zenon DEF Framed
  <2>2. (i > 1 => i - 1 \in 1..n) /\ \A j \in 1..i - 1 : j \in 1..n
    BY <1>5
  <2> QED
    BY <2>1, <2>2
<1>8. ASSUME NEW i \in 1..n + 1
      PROVE  /\ stack'[i].files \in Seq(Kids(stack'[i].dir)) /\ stack'[i].subdirs \in Seq(Kids(stack'[i].dir))
             /\ i > 1 => stack'[i].dir \in Kids(stack'[i - 1].dir)
             /\ \A j \in 1..i - 1 : stack'[j].dir \in Ancestors(stack'[i].dir)
             /\ Due(i)' => stack'[i].files = << >> /\ stack'[i].subdirs = << >>
             /\ stack'[i].off = 0 \/ stack'[i].off >= PageLimit
  <2>1. CASE i = n + 1
    <3>1. stack'[i].dir = d /\ stack'[i - 1].dir = e.dir
      BY <2>1, <1>4, <1>5
    <3>2. ASSUME NEW j \in 1..i - 1 PROVE stack'[j].dir \in Ancestors(d)
      <4>1. j \in 1..n
        BY <2>1, <1>5
      <4>2. CASE j = n
        BY <4>2, <1>5, KidsOf
      <4>3. CASE j # n
        <5>1. n \in 1..n /\ j \in 1..n - 1
          BY <4>1, <4>3, <1>5
        <5>2. stack[j].dir \in Ancestors(e.dir)
          BY <5>1, <1>2, <1>7
        <5>3. stack'[j].dir = stack[j].dir
          BY <4>1, <1>6
        <5> QED
          BY <5>2, <5>3, KidsOf
      <4> QED
        BY <4>2, <4>3
    <3> QED
      BY <3>1, <3>2, <2>1, <1>4, <1>5
  <2>2. CASE i \in 1..n
    <3>1. /\ i > 1 => stack'[i].dir \in Kids(stack'[i - 1].dir)
          /\ \A j \in 1..i - 1 : stack'[j].dir \in Ancestors(stack'[i].dir)
      BY <2>2, <1>6, <1>7
    <3>2. ~Due(i)'
      BY <2>2, <1>5 DEF Due
    <3>3. CASE i = n
      BY <3>1, <3>2, <3>3, <1>5
    <3>4. CASE i # n
      <4>1. i \in 1..n - 1 /\ i \in 1..Len(stack)
        BY <2>2, <3>4, <1>1, <1>5
      <4>2. stack'[i] = stack[i]
        BY <4>1, <1>5
      <4> QED
        BY <3>1, <3>2, <4>1, <4>2 DEF Framed
    <3> QED
      BY <3>3, <3>4
  <2>3. i = n + 1 \/ i \in 1..n
    BY <1>5
  <2> QED
    BY <2>1, <2>2, <2>3
<1>9. stack'[1].dir = job'.root
  <2>1. 1 \in 1..n
    BY <1>5
  <2>2. stack'[1].dir = stack[1].dir
    BY <2>1, <1>6
  <2>3. stack[1].dir = job.root
    BY DEF Framed
  <2> QED
    BY <2>2, <2>3
<1> QED
  BY <1>5, <1>8, <1>9 DEF Framed

LEMMA FramedPop ==
  ASSUME Framed, Active, job' = job, Pop
  PROVE  Framed'
<1>1. PICK n : n = Len(stack)
  OBVIOUS
<1>2. stack \in Seq(FrameTypes) /\ stack # << >>
  BY <1>1, TopTyped
<1>3. stack' = Front(stack)
  BY DEF Pop
<1>4. /\ n \in Nat \ {0} /\ stack' \in Seq(FrameTypes) /\ Len(stack') = n - 1
      /\ \A i \in 1..n - 1 : stack'[i] = stack[i]
  BY <1>1, <1>2, <1>3, Popped, SMTT(30)
<1>5. ASSUME NEW i \in 1..n - 1
      PROVE  /\ stack'[i].files \in Seq(Kids(stack'[i].dir)) /\ stack'[i].subdirs \in Seq(Kids(stack'[i].dir))
             /\ i > 1 => stack'[i].dir \in Kids(stack'[i - 1].dir)
             /\ \A j \in 1..i - 1 : stack'[j].dir \in Ancestors(stack'[i].dir)
             /\ Due(i)' => stack'[i].files = << >> /\ stack'[i].subdirs = << >>
             /\ stack'[i].off = 0 \/ stack'[i].off >= PageLimit
  <2>1. i \in 1..Len(stack) /\ (i > 1 => i - 1 \in 1..n - 1) /\ \A j \in 1..i - 1 : j \in 1..n - 1
    BY <1>1, <1>4
  <2>2. ~Due(i)'
    BY <1>1 DEF Pop, Due
  <2>3. stack'[i] = stack[i] /\ (i > 1 => stack'[i - 1] = stack[i - 1])
        /\ \A j \in 1..i - 1 : stack'[j] = stack[j]
    BY <2>1, <1>4
  <2> QED
    BY <2>1, <2>2, <2>3 DEF Framed
<1>6. ASSUME Active'
      PROVE  stack' # << >> /\ stack'[1].dir = job'.root /\ job'.op # "browse"
  <2>1. n # 1
    BY <1>1, <1>6 DEF Pop, Active
  <2>2. n - 1 \in Nat \ {0} /\ 1 \in 1..n - 1
    BY <2>1, <1>4
  <2>3. stack' # << >> /\ stack'[1] = stack[1]
    BY <2>2, <1>4, EmptySeq
  <2> QED
    BY <2>1, <2>3, <1>1 DEF Framed
<1> QED
  BY <1>4, <1>5, <1>6 DEF Framed

-----------------------------------------------------------------------------
(* The tops of the stack that the steps make.                              *)

LEMMA KidsArePaths == ASSUME NEW d, NEW s \in Seq(Kids(d)) PROVE s \in Seq(AllPaths)
<1>1. s \in [1..Len(s) -> Kids(d)] /\ Len(s) \in Nat /\ Kids(d) \subseteq AllPaths
  BY LenProperties DEF Kids
<1>2. s \in [1..Len(s) -> AllPaths]
  BY <1>1
<1> QED
  BY <1>1, <1>2

LEMMA OffSet ==
  ASSUME NEW t \in FrameTypes, NEW o \in Nat, NEW e, e = [t EXCEPT !.off = o]
  PROVE  /\ e \in FrameTypes /\ e.dir = t.dir /\ e.off = o /\ e.files = t.files /\ e.subdirs = t.subdirs
         /\ e.more = t.more
BY DEF FrameTypes

LEMMA PageTop ==
  ASSUME TreeInv, Page
  PROVE  \E e, page :
           /\ page = Listing(Top.dir, IF job.op = "rmdir" THEN BigLimit ELSE PageLimit, Top.off)
           /\ e \in FrameTypes /\ e.dir = Top.dir /\ e.off = Top.off /\ e.files = page.files
           /\ e.subdirs = page.dirs /\ e.more = More(page)
           /\ e.files \in Seq(Kids(e.dir)) /\ e.subdirs \in Seq(Kids(e.dir))
           /\ stack' = [stack EXCEPT ![Len(stack)] = e]
<1>1. PICK limit : limit = IF job.op = "rmdir" THEN BigLimit ELSE PageLimit
  OBVIOUS
<1>2. PICK page : page = Listing(Top.dir, limit, Top.off)
  OBVIOUS
<1>3. PICK e : e = [Top EXCEPT !.files = page.files, !.subdirs = page.dirs, !.more = More(page)]
  OBVIOUS
<1>4. stack' = [stack EXCEPT ![Len(stack)] = e]
  BY <1>1, <1>2, <1>3 DEF Page, SetTop
<1>5. Active /\ Framed /\ dirs \subseteq AllPaths /\ files \subseteq AllPaths
  BY DEF TreeInv, Page, Active
<1>6. Top \in FrameTypes
  BY <1>5, TopTyped
<1>7. limit \in Nat \ {0} /\ Top.off \in Nat
  BY <1>1, <1>6, ConstantsAssumption DEF ConstantsAssumption, FrameTypes
<1>8. page.files \in Seq(Kids(Top.dir)) /\ page.dirs \in Seq(Kids(Top.dir))
  BY <1>2, <1>5, <1>7, PageTyped
<1>9. More(page) \in BOOLEAN
  <2>1. CASE job.op = "browse"
    BY <2>1 DEF More
  <2>2. CASE job.op = "rmdir"
    BY <2>2 DEF More
  <2>3. CASE job.op # "browse" /\ job.op # "rmdir"
    <3>1. Len(page.files) \in Int /\ Len(page.dirs) \in Int /\ PageLimit \in Int
      BY <1>8, LenProperties, ConstantsAssumption DEF ConstantsAssumption
    <3>2. More(page) = (Len(page.files) + Len(page.dirs) >= PageLimit)
      BY <2>3, Zenon DEF More
    <3> QED
      BY <3>1, <3>2
  <2> QED
    BY <2>1, <2>2, <2>3
<1>10. /\ e \in FrameTypes /\ e.dir = Top.dir /\ e.off = Top.off /\ e.files = page.files
       /\ e.subdirs = page.dirs /\ e.more = More(page)
  <2>1. PICK t : t = Top
    OBVIOUS
  <2>2. PICK a : a = page.files
    OBVIOUS
  <2>3. PICK b : b = page.dirs
    OBVIOUS
  <2>4. PICK m : m = More(page)
    OBVIOUS
  <2>5. /\ t \in FrameTypes /\ a \in Seq(Kids(t.dir)) /\ b \in Seq(Kids(t.dir)) /\ m \in BOOLEAN
        /\ e = [t EXCEPT !.files = a, !.subdirs = b, !.more = m]
    BY <2>1, <2>2, <2>3, <2>4, <1>3, <1>6, <1>8, <1>9
  <2>6. /\ e \in FrameTypes /\ e.dir = t.dir /\ e.off = t.off /\ e.files = a /\ e.subdirs = b /\ e.more = m
    BY <2>5, KidsArePaths DEF FrameTypes
  <2> QED
    BY <2>1, <2>2, <2>3, <2>4, <2>6
<1> QED
  BY <1>1, <1>2, <1>4, <1>8, <1>10

\* The head of a list, and the list without it.
LEMMA HeadAndTail ==
  ASSUME NEW K, NEW s \in Seq(K), s # << >>
  PROVE  /\ Head(s) \in K /\ Tail(s) \in Seq(K) /\ Head(s) \in Range(s)
         /\ Range(s) = Range(Tail(s)) \cup {Head(s)}
         /\ IsInjective(s) => IsInjective(Tail(s)) /\ Head(s) \notin Range(Tail(s))
<1>1. PICK k : k = Len(s)
  OBVIOUS
<1>2. PICK t : t = Tail(s)
  OBVIOUS
<1>3. k \in Nat \ {0} /\ DOMAIN s = 1..k
  BY <1>1, EmptySeq, LenProperties
<1>4. Head(s) \in K /\ t \in Seq(K) /\ Len(t) = k - 1 /\ \A i \in 1..Len(t) : t[i] = s[i + 1]
  BY <1>1, <1>2, HeadTailProperties
<1>5. DOMAIN t = 1..k - 1 /\ \A i \in 1..k - 1 : t[i] = s[i + 1] /\ i + 1 \in 1..k
  BY <1>3, <1>4, LenProperties
<1>6. Head(s) = s[1] /\ 1 \in 1..k
  BY <1>3
<1>7. \A i \in 2..k : i - 1 \in 1..k - 1 /\ i - 1 + 1 = i
  BY <1>3
<1>8. Range(s) = Range(t) \cup {Head(s)}
  <2>1. ASSUME NEW i \in 1..k PROVE s[i] = Head(s) \/ s[i] \in Range(t)
    <3>1. CASE i = 1
      BY <3>1, <1>6
    <3>2. CASE i \in 2..k
      <4>1. PICK j \in 1..k - 1 : j + 1 = i
        BY <3>2, <1>7
      <4>2. t[j] = s[i] /\ j \in DOMAIN t
        BY <4>1, <1>5
      <4> QED
        BY <4>2 DEF Range
    <3> QED
      BY <3>1, <3>2, <1>3
  <2>2. \A i \in 1..k - 1 : t[i] \in Range(s)
    BY <1>3, <1>5 DEF Range
  <2>3. Head(s) \in Range(s)
    BY <1>3, <1>6 DEF Range
  <2>4. \A x \in Range(t) : x \in Range(s)
    BY <2>2, <1>5 DEF Range
  <2>5. \A x \in Range(s) : x = Head(s) \/ x \in Range(t)
    BY <2>1, <1>3 DEF Range
  <2> QED
    BY <2>3, <2>4, <2>5
<1>9. ASSUME IsInjective(s) PROVE IsInjective(t) /\ Head(s) \notin Range(t)
  <2>1. \A i, j \in 1..k : s[i] = s[j] => i = j
    BY <1>3, <1>9 DEF IsInjective
  <2>2. ASSUME NEW i \in 1..k - 1, NEW j \in 1..k - 1, t[i] = t[j] PROVE i = j
    <3>1. i + 1 = j + 1
      BY <2>1, <2>2, <1>5
    <3> QED
      BY <3>1
  <2>3. ASSUME NEW i \in 1..k - 1 PROVE t[i] # Head(s)
    <3>1. i + 1 # 1
      OBVIOUS
    <3> QED
      BY <3>1, <2>1, <1>5, <1>6
  <2> QED
    BY <2>2, <2>3, <1>5 DEF IsInjective, Range
<1> QED
  BY <1>2, <1>4, <1>8, <1>9

LEMMA VisitTop ==
  ASSUME TreeInv, VisitFile
  PROVE  \E e, f :
           /\ f = Head(Top.files) /\ f \in Kids(Top.dir)
           /\ e \in FrameTypes /\ e.dir = Top.dir /\ e.off = Top.off /\ e.files = Tail(Top.files)
           /\ e.subdirs = Top.subdirs /\ e.more = Top.more
           /\ e.files \in Seq(Kids(e.dir)) /\ e.subdirs \in Seq(Kids(e.dir))
           /\ stack' = Append([stack EXCEPT ![Len(stack)] = e], Frame(f))
<1>1. PICK e : e = [Top EXCEPT !.files = Tail(@)]
  OBVIOUS
<1>2. PICK f : f = Head(Top.files)
  OBVIOUS
<1>3. stack' = Append([stack EXCEPT ![Len(stack)] = e], Frame(f))
  BY <1>1, <1>2 DEF VisitFile, Top
<1>4. Active /\ Framed /\ Top.files # << >>
  BY DEF TreeInv, VisitFile, Active
<1>5. Top \in FrameTypes /\ Top.files \in Seq(Kids(Top.dir)) /\ Top.subdirs \in Seq(Kids(Top.dir))
  BY <1>4, TopTyped
<1>6. f \in Kids(Top.dir) /\ Tail(Top.files) \in Seq(Kids(Top.dir))
  BY <1>2, <1>4, <1>5, HeadAndTail
<1>7. e = [Top EXCEPT !.files = Tail(Top.files)]
  BY <1>1
<1>8. /\ e \in FrameTypes /\ e.dir = Top.dir /\ e.off = Top.off /\ e.files = Tail(Top.files)
      /\ e.subdirs = Top.subdirs /\ e.more = Top.more
  <2>1. PICK t : t = Top
    OBVIOUS
  <2>2. PICK a : a = Tail(Top.files)
    OBVIOUS
  <2>3. t \in FrameTypes /\ a \in Seq(Kids(t.dir)) /\ e = [t EXCEPT !.files = a]
    BY <2>1, <2>2, <1>5, <1>6, <1>7
  <2>4. /\ e \in FrameTypes /\ e.dir = t.dir /\ e.off = t.off /\ e.files = a
        /\ e.subdirs = t.subdirs /\ e.more = t.more
    BY <2>3, KidsArePaths DEF FrameTypes
  <2> QED
    BY <2>1, <2>2, <2>4
<1> QED
  BY <1>2, <1>3, <1>5, <1>6, <1>8

LEMMA DescendTop ==
  ASSUME TreeInv, Descend
  PROVE  \E e, f :
           /\ f = Head(Top.subdirs) /\ f \in Kids(Top.dir)
           /\ e \in FrameTypes /\ e.dir = Top.dir /\ e.off = Top.off /\ e.files = Top.files
           /\ e.subdirs = Tail(Top.subdirs) /\ e.more = Top.more
           /\ e.files \in Seq(Kids(e.dir)) /\ e.subdirs \in Seq(Kids(e.dir))
           /\ stack' = Append([stack EXCEPT ![Len(stack)] = e], Frame(f))
<1>1. PICK e : e = [Top EXCEPT !.subdirs = Tail(@)]
  OBVIOUS
<1>2. PICK f : f = Head(Top.subdirs)
  OBVIOUS
<1>3. stack' = Append([stack EXCEPT ![Len(stack)] = e], Frame(f))
  BY <1>1, <1>2 DEF Descend, Top
<1>4. Active /\ Framed /\ Top.subdirs # << >>
  BY DEF TreeInv, Descend, Active
<1>5. Top \in FrameTypes /\ Top.files \in Seq(Kids(Top.dir)) /\ Top.subdirs \in Seq(Kids(Top.dir))
  BY <1>4, TopTyped
<1>6. f \in Kids(Top.dir) /\ Tail(Top.subdirs) \in Seq(Kids(Top.dir))
  BY <1>2, <1>4, <1>5, HeadAndTail
<1>7. e = [Top EXCEPT !.subdirs = Tail(Top.subdirs)]
  BY <1>1
<1>8. /\ e \in FrameTypes /\ e.dir = Top.dir /\ e.off = Top.off /\ e.files = Top.files
      /\ e.subdirs = Tail(Top.subdirs) /\ e.more = Top.more
  <2>1. PICK t : t = Top
    OBVIOUS
  <2>2. PICK a : a = Tail(Top.subdirs)
    OBVIOUS
  <2>3. t \in FrameTypes /\ a \in Seq(Kids(t.dir)) /\ e = [t EXCEPT !.subdirs = a]
    BY <2>1, <2>2, <1>5, <1>6, <1>7
  <2>4. /\ e \in FrameTypes /\ e.dir = t.dir /\ e.off = t.off /\ e.subdirs = a
        /\ e.files = t.files /\ e.more = t.more
    BY <2>3, KidsArePaths DEF FrameTypes
  <2> QED
    BY <2>1, <2>2, <2>4
<1> QED
  BY <1>2, <1>3, <1>5, <1>6, <1>8

\* `cask ls` and a delete take an entry from a list of the top.
LEMMA EntryTaken ==
  ASSUME Framed, Active
  PROVE  /\ Top.files # << >> /\ SetTop([Top EXCEPT !.files = Tail(@)]) =>
              \E e : /\ e \in FrameTypes /\ e.dir = Top.dir /\ e.off = Top.off /\ e.files = Tail(Top.files)
                     /\ e.subdirs = Top.subdirs /\ e.more = Top.more /\ Head(Top.files) \in Kids(Top.dir)
                     /\ e.files \in Seq(Kids(e.dir)) /\ e.subdirs \in Seq(Kids(e.dir))
                     /\ stack' = [stack EXCEPT ![Len(stack)] = e]
         /\ Top.subdirs # << >> /\ SetTop([Top EXCEPT !.subdirs = Tail(@)]) =>
              \E e : /\ e \in FrameTypes /\ e.dir = Top.dir /\ e.off = Top.off /\ e.files = Top.files
                     /\ e.subdirs = Tail(Top.subdirs) /\ e.more = Top.more /\ Head(Top.subdirs) \in Kids(Top.dir)
                     /\ e.files \in Seq(Kids(e.dir)) /\ e.subdirs \in Seq(Kids(e.dir))
                     /\ stack' = [stack EXCEPT ![Len(stack)] = e]
<1>1. Top \in FrameTypes /\ Top.files \in Seq(Kids(Top.dir)) /\ Top.subdirs \in Seq(Kids(Top.dir))
  BY TopTyped
<1>2. ASSUME Top.files # << >>, SetTop([Top EXCEPT !.files = Tail(@)])
      PROVE  \E e : /\ e \in FrameTypes /\ e.dir = Top.dir /\ e.off = Top.off /\ e.files = Tail(Top.files)
                    /\ e.subdirs = Top.subdirs /\ e.more = Top.more /\ Head(Top.files) \in Kids(Top.dir)
                    /\ e.files \in Seq(Kids(e.dir)) /\ e.subdirs \in Seq(Kids(e.dir))
                    /\ stack' = [stack EXCEPT ![Len(stack)] = e]
  <2>1. PICK e : e = [Top EXCEPT !.files = Tail(Top.files)]
    OBVIOUS
  <2>2. stack' = [stack EXCEPT ![Len(stack)] = e]
    BY <2>1, <1>2 DEF SetTop
  <2>3. Head(Top.files) \in Kids(Top.dir) /\ Tail(Top.files) \in Seq(Kids(Top.dir))
    BY <1>1, <1>2, HeadAndTail
  <2>4. /\ e \in FrameTypes /\ e.dir = Top.dir /\ e.off = Top.off /\ e.files = Tail(Top.files)
        /\ e.subdirs = Top.subdirs /\ e.more = Top.more
    <3>1. PICK t : t = Top
      OBVIOUS
    <3>2. PICK a : a = Tail(Top.files)
      OBVIOUS
    <3>3. t \in FrameTypes /\ a \in Seq(Kids(t.dir)) /\ e = [t EXCEPT !.files = a]
      BY <3>1, <3>2, <2>1, <2>3, <1>1
    <3>4. /\ e \in FrameTypes /\ e.dir = t.dir /\ e.off = t.off /\ e.files = a
          /\ e.subdirs = t.subdirs /\ e.more = t.more
      BY <3>3, KidsArePaths DEF FrameTypes
    <3> QED
      BY <3>1, <3>2, <3>4
  <2> QED
    BY <2>2, <2>3, <2>4, <1>1
<1>3. ASSUME Top.subdirs # << >>, SetTop([Top EXCEPT !.subdirs = Tail(@)])
      PROVE  \E e : /\ e \in FrameTypes /\ e.dir = Top.dir /\ e.off = Top.off /\ e.files = Top.files
                    /\ e.subdirs = Tail(Top.subdirs) /\ e.more = Top.more /\ Head(Top.subdirs) \in Kids(Top.dir)
                    /\ e.files \in Seq(Kids(e.dir)) /\ e.subdirs \in Seq(Kids(e.dir))
                    /\ stack' = [stack EXCEPT ![Len(stack)] = e]
  <2>1. PICK e : e = [Top EXCEPT !.subdirs = Tail(Top.subdirs)]
    OBVIOUS
  <2>2. stack' = [stack EXCEPT ![Len(stack)] = e]
    BY <2>1, <1>3 DEF SetTop
  <2>3. Head(Top.subdirs) \in Kids(Top.dir) /\ Tail(Top.subdirs) \in Seq(Kids(Top.dir))
    BY <1>1, <1>3, HeadAndTail
  <2>4. /\ e \in FrameTypes /\ e.dir = Top.dir /\ e.off = Top.off /\ e.files = Top.files
        /\ e.subdirs = Tail(Top.subdirs) /\ e.more = Top.more
    <3>1. PICK t : t = Top
      OBVIOUS
    <3>2. PICK a : a = Tail(Top.subdirs)
      OBVIOUS
    <3>3. t \in FrameTypes /\ a \in Seq(Kids(t.dir)) /\ e = [t EXCEPT !.subdirs = a]
      BY <3>1, <3>2, <2>1, <2>3, <1>1
    <3>4. /\ e \in FrameTypes /\ e.dir = t.dir /\ e.off = t.off /\ e.subdirs = a
          /\ e.files = t.files /\ e.more = t.more
      BY <3>3, KidsArePaths DEF FrameTypes
    <3> QED
      BY <3>1, <3>2, <3>4
  <2> QED
    BY <2>2, <2>3, <2>4, <1>1
<1> QED
  BY <1>2, <1>3

LEMMA NextTop ==
  ASSUME TreeInv, NextPage
  PROVE  \E e : /\ e \in FrameTypes /\ e.dir = Top.dir /\ e.off = Top.off + PageLimit /\ e.off >= PageLimit
                /\ e.files = << >> /\ e.subdirs = << >> /\ e.more = Top.more
                /\ e.files \in Seq(Kids(e.dir)) /\ e.subdirs \in Seq(Kids(e.dir))
                /\ stack' = [stack EXCEPT ![Len(stack)] = e]
<1>1. PICK e : e = [Top EXCEPT !.off = Top.off + PageLimit]
  OBVIOUS
<1>2. stack' = [stack EXCEPT ![Len(stack)] = e] /\ Top.files = << >> /\ Top.subdirs = << >>
  BY <1>1 DEF NextPage, SetTop
<1>3. Active /\ Framed
  BY DEF TreeInv, NextPage, Active
<1>4. Top \in FrameTypes /\ Top.files \in Seq(Kids(Top.dir)) /\ Top.subdirs \in Seq(Kids(Top.dir))
  BY <1>3, TopTyped
<1>5. Top.off + PageLimit \in Nat /\ Top.off + PageLimit >= PageLimit
  BY <1>4, ConstantsAssumption DEF ConstantsAssumption, FrameTypes
<1>6. /\ e \in FrameTypes /\ e.dir = Top.dir /\ e.off = Top.off + PageLimit /\ e.files = Top.files
      /\ e.subdirs = Top.subdirs /\ e.more = Top.more
  BY <1>1, <1>4, <1>5, OffSet
<1> QED
  BY <1>2, <1>4, <1>5, <1>6

-----------------------------------------------------------------------------
(* The steps.                                                              *)

LEMMA TreeInit == Init => TreeInv
<1> SUFFICES ASSUME Init PROVE TreeInv
  OBVIOUS
<1>1. PICK t \in Trees : dirs = t.dirs /\ files = t.files
  BY DEF Init
<1>2. Closed(dirs, files)
  BY <1>1, ClosedUp, ConstantsAssumption DEF ConstantsAssumption, Parent
<1>3. Filling
  BY EmptySeq DEF Init, Filling
<1>4. dirs \subseteq AllPaths /\ files \subseteq AllPaths /\ job.root \in AllPaths
  BY <1>1 DEF AllPaths, Init
<1>5. Framed
  <2>1. PICK f : f = Frame(job.root)
    OBVIOUS
  <2>2. /\ f \in FrameTypes /\ f.dir = job.root /\ f.files = << >> /\ f.subdirs = << >> /\ f.off = 0
        /\ f.files \in Seq(Kids(f.dir)) /\ f.subdirs \in Seq(Kids(f.dir))
    BY <2>1, <1>4, EmptySeq DEF Frame, FrameTypes
  <2>3. stack = <<f>>
    BY <2>1 DEF Init
  <2>4. stack \in Seq(FrameTypes) /\ Len(stack) = 1 /\ stack[1] = f /\ stack # << >>
    BY <2>2, <2>3
  <2>5. \A i \in 1..Len(stack) : i = 1
    BY <2>4
  <2>6. ASSUME NEW i \in 1..Len(stack)
        PROVE  /\ stack[i].files \in Seq(Kids(stack[i].dir)) /\ stack[i].subdirs \in Seq(Kids(stack[i].dir))
               /\ i > 1 => stack[i].dir \in Kids(stack[i - 1].dir)
               /\ \A j \in 1..i - 1 : stack[j].dir \in Ancestors(stack[i].dir)
               /\ Due(i) => stack[i].files = << >> /\ stack[i].subdirs = << >>
               /\ stack[i].off = 0 \/ stack[i].off >= PageLimit
    <3>1. i = 1 /\ stack[i] = f
      BY <2>4, <2>5
    <3>2. ~(i > 1) /\ \A j \in 1..i - 1 : FALSE
      BY <3>1
    <3> QED
      BY <3>1, <3>2, <2>2
  <2> QED
    BY <2>2, <2>4, <2>6 DEF Framed
<1>6. seen \in [AllPaths -> 0..2]
  BY DEF Init
<1> QED
  BY <1>2, <1>3, <1>4, <1>5, <1>6 DEF TreeInv, Init

LEMMA FramedStep == TreeInv /\ [Next]_vars => Framed'
<1> SUFFICES ASSUME TreeInv, [Next]_vars PROVE Framed'
  OBVIOUS
<1>1. Framed
  BY DEF TreeInv
<1>2. CASE Start
  <2>1. CASE stack' = << >> /\ pc' = "done"
    BY <2>1, EmptySeq DEF Framed, Active
  <2>2. CASE stack' = stack /\ pc' = "page" /\ job' = job
    <3>1. \A i : Due(i)' <=> Due(i)
      BY <2>2, <1>2 DEF Due, Start
    <3>2. Active
      BY <1>2 DEF Start, Active
    <3> QED
      BY <1>1, <2>2, <3>1, <3>2 DEF Framed
  <2> QED
    BY <2>1, <2>2, <1>2 DEF Start
<1>3. CASE Page
  <2>1. PICK e, page :
           /\ e \in FrameTypes /\ e.dir = Top.dir /\ e.off = Top.off
           /\ e.files \in Seq(Kids(e.dir)) /\ e.subdirs \in Seq(Kids(e.dir))
           /\ stack' = [stack EXCEPT ![Len(stack)] = e]
    BY <1>3, PageTop
  <2>2. Active /\ job' = job /\ pc' = "items"
    BY <1>3 DEF Page, Active
  <2>3. e.off = 0 \/ e.off >= PageLimit
    BY <2>1, <2>2, <1>1, TopTyped
  <2> QED
    BY <1>1, <2>1, <2>2, <2>3, FramedSet
<1>4. CASE VisitFile
  <2>1. PICK e, f :
           /\ f \in Kids(Top.dir) /\ e \in FrameTypes /\ e.dir = Top.dir /\ e.off = Top.off
           /\ e.files \in Seq(Kids(e.dir)) /\ e.subdirs \in Seq(Kids(e.dir))
           /\ stack' = Append([stack EXCEPT ![Len(stack)] = e], Frame(f))
    BY <1>4, VisitTop
  <2>2. Active /\ job' = job /\ pc' = "page" /\ job.op # "browse"
    BY <1>4 DEF VisitFile, Active
  <2>3. (e.off = 0 \/ e.off >= PageLimit) /\ f \in Kids(e.dir)
    BY <2>1, <2>2, <1>1, TopTyped
  <2> QED
    BY <1>1, <2>1, <2>2, <2>3, FramedPush
<1>5. CASE ShowEntry \/ DeleteOne
  <2>1. CASE stack' = stack /\ job' = job /\ pc' \notin {"start", "page"}
    BY <2>1, <1>1, <1>5 DEF Framed, Due, Active, ShowEntry, DeleteOne
  <2>2. CASE \/ Top.files # << >> /\ SetTop([Top EXCEPT !.files = Tail(@)])
             \/ Top.subdirs # << >> /\ SetTop([Top EXCEPT !.subdirs = Tail(@)])
    <3>1. Active /\ job' = job /\ pc' \notin {"start", "page"}
      BY <1>5 DEF ShowEntry, DeleteOne, Active
    <3>2. PICK e :
           /\ e \in FrameTypes /\ e.dir = Top.dir /\ e.off = Top.off
           /\ e.files \in Seq(Kids(e.dir)) /\ e.subdirs \in Seq(Kids(e.dir))
           /\ stack' = [stack EXCEPT ![Len(stack)] = e]
      BY <2>2, <3>1, <1>1, EntryTaken
    <3>3. e.off = 0 \/ e.off >= PageLimit
      BY <3>1, <3>2, <1>1, TopTyped
    <3> QED
      BY <1>1, <3>1, <3>2, <3>3, FramedSet
  <2> QED
    BY <2>1, <2>2, <1>5 DEF ShowEntry, DeleteOne
<1>6. CASE Descend
  <2>1. PICK e, f :
           /\ f \in Kids(Top.dir) /\ e \in FrameTypes /\ e.dir = Top.dir /\ e.off = Top.off
           /\ e.files \in Seq(Kids(e.dir)) /\ e.subdirs \in Seq(Kids(e.dir))
           /\ stack' = Append([stack EXCEPT ![Len(stack)] = e], Frame(f))
    BY <1>6, DescendTop
  <2>2. Active /\ job' = job /\ pc' = "page" /\ job.op # "browse"
    BY <1>6 DEF Descend, Active
  <2>3. (e.off = 0 \/ e.off >= PageLimit) /\ f \in Kids(e.dir)
    BY <2>1, <2>2, <1>1, TopTyped
  <2> QED
    BY <1>1, <2>1, <2>2, <2>3, FramedPush
<1>7. CASE NextPage
  <2>1. PICK e :
           /\ e \in FrameTypes /\ e.dir = Top.dir /\ e.off >= PageLimit
           /\ e.files = << >> /\ e.subdirs = << >>
           /\ e.files \in Seq(Kids(e.dir)) /\ e.subdirs \in Seq(Kids(e.dir))
           /\ stack' = [stack EXCEPT ![Len(stack)] = e]
    BY <1>7, NextTop
  <2>2. Active /\ job' = job
    BY <1>7 DEF NextPage, Active
  <2> QED
    BY <1>1, <2>1, <2>2, FramedSet
<1>8. CASE Leave
  <2>1. Active /\ job' = job
    BY <1>8 DEF Leave, Active
  <2>2. CASE Pop
    BY <1>1, <2>1, <2>2, FramedPop
  <2>3. CASE pc' = "failed" /\ stack' = stack
    BY <2>1, <2>3, <1>1 DEF Framed, Due, Active
  <2> QED
    BY <2>2, <2>3, <1>8 DEF Leave
<1>9. CASE Mkdir \/ InsertFile \/ DeleteFile \/ Finished \/ UNCHANGED vars
  BY <1>1, <1>9 DEF Mkdir, InsertFile, DeleteFile, Finished, vars, walk, Framed, Due, Active
<1> QED
  BY <1>2, <1>3, <1>4, <1>5, <1>6, <1>7, <1>8, <1>9 DEF Next, Walk

\* What a step may do to the tree and to the directories being made.
LEMMA TreeSteps ==
  ASSUME TreeInv, [Next]_vars
  PROVE  \/ dirs' = dirs /\ files' \subseteq files /\ writing' = writing /\ making' = making
         \/ /\ Leave /\ dirs' = dirs \ {Top.dir} /\ files' = files
            /\ Deletable(Top.dir) /\ ~BeingFilled(Top.dir) /\ writing' = writing /\ making' = making
         \/ Mkdir
         \/ InsertFile
<1>1. CASE Start \/ Page \/ VisitFile \/ ShowEntry \/ DeleteOne \/ Descend \/ NextPage
  BY <1>1 DEF Start, Page, VisitFile, ShowEntry, DeleteOne, Descend, NextPage, tree, other
<1>2. CASE Leave
  BY <1>2 DEF Leave, other
<1>3. CASE DeleteFile
  BY <1>3 DEF DeleteFile
<1>4. CASE Finished \/ UNCHANGED vars
  BY <1>4 DEF Finished, vars, tree, other
<1> QED
  BY <1>1, <1>2, <1>3, <1>4 DEF Next, Walk

LEMMA ClosedStep == TreeInv /\ [Next]_vars => Closed(dirs, files)'
<1> SUFFICES ASSUME TreeInv, [Next]_vars PROVE Closed(dirs', files')
  BY DEF Closed
<1> USE DEF TreeInv
<1>1. CASE dirs' = dirs /\ files' \subseteq files
  BY <1>1 DEF Closed
<1>2. CASE dirs' = dirs \ {Top.dir} /\ files' = files /\ Deletable(Top.dir)
  <2>1. \A f \in dirs \cup files : Top.dir \notin Ancestors(f)
    BY <1>2, NothingBelow DEF Deletable
  <2> QED
    BY <2>1, <1>2 DEF Closed
<1>3. CASE InsertFile
  <2>1. CASE ~ParentThere(writing)
    BY <1>3, <2>1 DEF InsertFile, tree
  <2>2. CASE ParentThere(writing)
    <3>1. /\ files' = files \cup {writing} /\ dirs' = dirs \cup making
          /\ writing \in Seq(Nat) /\ writing # << >> /\ making \subseteq Ancestors(writing)
      BY <1>3, <2>2, ConstantsAssumption DEF ConstantsAssumption, InsertFile, Filling
    <3>2. Ancestors(writing) \subseteq dirs \cup making
      <4>1. CASE making # {}
        BY <4>1 DEF Filling
      <4>2. CASE making = {}
        <5>1. Parent(writing) \in dirs
          BY <4>2, <2>2 DEF ParentThere
        <5>2. Len(writing) \in Nat \ {0}
          BY <3>1, EmptySeq
        <5>3. /\ Parent(writing) \in Ancestors(writing)
              /\ Len(Parent(writing)) = Len(writing) - 1
          <6>1. Len(writing) - 1 \in 0..Len(writing) - 1
            BY <5>2
          <6> QED
            BY <6>1, <3>1, AncestorsTyped DEF Parent, Front
        <5>4. ASSUME NEW g \in Ancestors(writing) PROVE g \in dirs
          <6>1. Len(g) \in 0..Len(writing) - 1
            BY <3>1, AncestorsTyped
          <6>2. CASE Len(g) = Len(Parent(writing))
            BY <6>2, <3>1, <5>1, <5>3, Linear
          <6>3. CASE Len(g) < Len(Parent(writing))
            <7>1. g \in Ancestors(Parent(writing))
              BY <6>3, <3>1, <5>3, Linear
            <7> QED
              BY <7>1, <5>1 DEF Closed
          <6> QED
            BY <6>1, <6>2, <6>3, <5>2, <5>3
        <5> QED
          BY <5>4
      <4> QED
        BY <4>1, <4>2
    <3>3. \A g \in making : g \in Seq(Nat) /\ Ancestors(g) \subseteq dirs \cup making
      BY <3>1, <3>2, AncestorsTyped, AncestorsAbove, ZenonT(30)
    <3> QED
      BY <3>1, <3>2, <3>3 DEF Closed
  <2> QED
    BY <2>1, <2>2
<1>4. CASE Mkdir
  BY <1>4, <1>1 DEF Mkdir, tree
<1> QED
  BY <1>1, <1>2, <1>3, <1>4, TreeSteps

LEMMA FillingStep == TreeInv /\ [Next]_vars => Filling'
<1> SUFFICES ASSUME TreeInv, [Next]_vars PROVE Filling'
  OBVIOUS
<1> USE DEF TreeInv
<1>1. CASE dirs' = dirs /\ writing' = writing /\ making' = making
  BY <1>1 DEF Filling
<1>2. CASE /\ dirs' = dirs \ {Top.dir} /\ Deletable(Top.dir) /\ ~BeingFilled(Top.dir)
           /\ writing' = writing /\ making' = making
  <2> SUFFICES ASSUME NEW g \in making, Top.dir \in Ancestors(writing), Top.dir \notin making PROVE FALSE
    BY <1>2 DEF Filling
  <2>1. PICK d : d = Top.dir
    OBVIOUS
  <2>2. /\ writing \in Seq(Nat) /\ g \in Ancestors(writing) /\ d \in Ancestors(writing)
        /\ Len(writing) \in Nat /\ Len(g) \in 0..Len(writing) - 1 /\ Len(d) \in 0..Len(writing) - 1
    <3>1. writing \in Seq(Nat)
      BY ConstantsAssumption, EmptySeq DEF ConstantsAssumption, Filling
    <3> QED
      BY <3>1, <2>1, AncestorsTyped DEF Filling
  <2>3. ~(Len(g) <= Len(d))
    BY <2>1, <2>2 DEF Filling
  <2>4. Len(d) + 1 < Len(writing)
    BY <2>2, <2>3
  <2>5. PICK h \in Ancestors(writing) : Len(h) = Len(d) + 1 /\ h # << >> /\ Parent(h) = d
    BY <2>2, <2>4, NextDown
  <2>6. h \in dirs \cup making
    BY <2>5 DEF Filling
  <2> QED
    BY <2>1, <2>5, <2>6, <1>2 DEF Deletable, BeingFilled
<1>3. CASE Mkdir
  <2>1. PICK f \in Written \ files : writing' = f /\ making' = Ancestors(f) \ dirs /\ dirs' = dirs
    BY <1>3 DEF Mkdir, tree
  <2>2. f \in Seq(Nat)
    BY <2>1, ConstantsAssumption DEF ConstantsAssumption
  <2>3. ASSUME NEW g \in making', NEW h \in Ancestors(f), Len(g) <= Len(h) PROVE h \notin dirs
    <3>1. g \in Ancestors(f) /\ g \notin dirs /\ Len(g) \in Nat /\ Len(h) \in Nat
      BY <2>1, <2>2, <2>3, AncestorsTyped
    <3>2. g = h \/ g \in Ancestors(h)
      BY <2>2, <2>3, <3>1, Linear
    <3> QED
      BY <3>1, <3>2 DEF Closed
  <2> QED
    BY <2>1, <2>2, <2>3 DEF Filling
<1>4. CASE InsertFile
  BY <1>4, EmptySeq DEF InsertFile, Filling
<1> QED
  BY <1>1, <1>2, <1>3, <1>4, TreeSteps

LEMMA SeenStep == TreeInv /\ [Next]_vars => (seen \in [AllPaths -> 0..2])'
<1> SUFFICES ASSUME TreeInv, [Next]_vars PROVE seen' \in [AllPaths -> 0..2]
  OBVIOUS
<1>1. ASSUME NEW f \in AllPaths, See(f) PROVE seen' \in [AllPaths -> 0..2]
  BY <1>1 DEF TreeInv, See
<1>2. ASSUME Active
      PROVE  /\ Top.files # << >> => Head(Top.files) \in AllPaths
             /\ Top.subdirs # << >> => Head(Top.subdirs) \in AllPaths
  <2>1. Top.files \in Seq(Kids(Top.dir)) /\ Top.subdirs \in Seq(Kids(Top.dir))
    BY <1>2, TopTyped DEF TreeInv
  <2>2. Kids(Top.dir) \subseteq AllPaths
    BY DEF Kids
  <2> QED
    BY <2>1, <2>2, HeadAndTail
<1>3. CASE Start
  <2>1. job.root \in AllPaths
    BY DEF TreeInv, AllPaths
  <2> QED
    BY <2>1, <1>1, <1>3 DEF Start, TreeInv
<1>4. CASE VisitFile \/ ShowEntry \/ DeleteOne
  <2>1. Active
    BY <1>4 DEF VisitFile, ShowEntry, DeleteOne, Active
  <2> QED
    BY <2>1, <1>1, <1>2, <1>4 DEF VisitFile, ShowEntry, DeleteOne, TreeInv
<1>5. CASE seen' = seen
  BY <1>5 DEF TreeInv
<1> QED
  BY <1>3, <1>4, <1>5 DEF Next, Walk, Page, Descend, NextPage, Leave, Mkdir, InsertFile, DeleteFile,
                          Finished, vars, walk

LEMMA PathsStep == TreeInv /\ [Next]_vars => (dirs \subseteq AllPaths /\ files \subseteq AllPaths)'
<1> SUFFICES ASSUME TreeInv, [Next]_vars PROVE dirs' \subseteq AllPaths /\ files' \subseteq AllPaths
  OBVIOUS
<1>1. CASE dirs' \subseteq dirs /\ files' \subseteq files
  BY <1>1 DEF TreeInv
<1>2. CASE Mkdir
  BY <1>2 DEF Mkdir, tree, TreeInv
<1>3. CASE InsertFile
  <2>1. writing \in Written /\ making \subseteq Ancestors(writing)
    BY <1>3 DEF InsertFile, TreeInv, Filling
  <2>2. writing \in AllPaths /\ making \subseteq AllPaths
    BY <2>1 DEF AllPaths
  <2> QED
    BY <2>2, <1>3 DEF InsertFile, tree, TreeInv
<1> QED
  BY <1>1, <1>2, <1>3, TreeSteps

\* mkdir(), deleteDirectory() and the schema: whatever the walk and the other client do,
\* every path lies in directories that are there, also those that the other client has
\* looked for only once, and every directory of the recursion is a child of the one it
\* came from, down from the directory the walk was asked for.
THEOREM TreeInvariant == Spec => []TreeInv
<1>1. TreeInv /\ [Next]_vars => TreeInv'
  <2> SUFFICES ASSUME TreeInv, [Next]_vars PROVE TreeInv'
    OBVIOUS
  <2>1. job' = job /\ pc' \in {"start", "page", "items", "done", "failed"}
    BY DEF TreeInv, Next, Walk, Start, Page, VisitFile, ShowEntry, DeleteOne, Descend, NextPage,
           Leave, Pop, Mkdir, InsertFile, DeleteFile, Finished, vars, walk
  <2>2. Closed(dirs, files)' /\ Filling' /\ Framed'
    BY ClosedStep, FillingStep, FramedStep
  <2>3. dirs' \subseteq AllPaths /\ files' \subseteq AllPaths /\ seen' \in [AllPaths -> 0..2]
    BY SeenStep, PathsStep
  <2>4. job' \in Jobs
    BY <2>1 DEF TreeInv
  <2> QED
    BY <2>1, <2>2, <2>3, <2>4 DEF TreeInv
<1> QED
  BY <1>1, TreeInit, PTL DEF Spec

\* A delete of a directory that succeeds (index.js:1195) leaves neither the directory
\* nor any path below it, whatever the other client writes while it runs.
THEOREM DeletesCompletely == Spec => DeleteIsComplete
<1> DEFINE Complete ==
      job.op = "rmdir" /\ pc' = "done" /\ pc # "done" =>
        /\ job.root \notin dirs'
        /\ \A f \in dirs' \cup files' : ~Below(job.root, f)
<1>1. TreeInv /\ [Next]_vars => Complete
  <2> SUFFICES ASSUME TreeInv, [Next]_vars, job.op = "rmdir", pc' = "done", pc # "done"
               PROVE  /\ job.root \notin dirs'
                      /\ \A f \in dirs' \cup files' : ~Below(job.root, f)
    OBVIOUS
  <2>1. Leave
    BY DEF TreeInv, Next, Walk, Start, Page, VisitFile, ShowEntry, DeleteOne, Descend, NextPage,
           Mkdir, InsertFile, DeleteFile, Finished, vars, walk
  <2>2. Pop /\ Len(stack) = 1 /\ Deletable(Top.dir) /\ dirs' = dirs \ {Top.dir} /\ files' = files
    BY <2>1 DEF Leave, Pop
  <2>3. Top.dir = job.root
    <3>1. Framed /\ Active
      BY <2>1 DEF TreeInv, Leave, Active
    <3> QED
      BY <3>1, <2>2 DEF Framed, Top
  <2>4. ASSUME NEW f \in dirs \cup files, Below(job.root, f) PROVE FALSE
    <3>1. f \in Seq(Nat) /\ job.root \in Seq(Nat) /\ Closed(dirs, files)
      BY ConstantsAssumption DEF ConstantsAssumption, TreeInv, Closed
    <3>2. job.root \in Ancestors(f)
      BY <2>4, <3>1, BelowIs
    <3> QED
      BY <3>1, <3>2, <2>2, <2>3, NothingBelow DEF Deletable
  <2> QED
    BY <2>2, <2>3, <2>4
<1> QED
  BY <1>1, TreeInvariant, PTL DEF Spec, DeleteIsComplete

\* The types of the tree and of a walk, which only ever goes down.
LEMMA TreeTypes == TreeInv => TypeOK
<1> SUFFICES ASSUME TreeInv PROVE TypeOK
  OBVIOUS
<1>1. ASSUME NEW f \in (dirs \cup files) \ {<< >>} PROVE Parent(f) \in dirs
  <2>1. f \in Seq(Nat) /\ f # << >> /\ Ancestors(f) \subseteq dirs
    BY DEF TreeInv, Closed
  <2>2. Len(f) - 1 \in 0..Len(f) - 1
    BY <2>1, EmptySeq
  <2> QED
    BY <2>1, <2>2, AncestorsTyped DEF Parent, Front
<1>2. ASSUME NEW i \in 1..Len(stack)
      PROVE  stack[i].dir \in AllPaths /\ (i > 1 => Below(stack[i - 1].dir, stack[i].dir))
  <2>1. stack[i] \in FrameTypes
    BY ElementOfSeq DEF TreeInv, Framed
  <2>2. ASSUME i > 1 PROVE Below(stack[i - 1].dir, stack[i].dir)
    <3>1. stack[i].dir \in Kids(stack[i - 1].dir)
      BY <2>2 DEF TreeInv, Framed
    <3> QED
      BY <3>1, KidsOf, BelowIs
  <2> QED
    BY <2>1, <2>2 DEF FrameTypes
<1> QED
  BY <1>1, <1>2 DEF TypeOK, TreeInv, Filling

-----------------------------------------------------------------------------
(* What a walk has still to do, from step to step.                         *)

\* Unless it is edited the tree is what it was, and the walk goes on.
LEMMA WalkGoesOn ==
  ASSUME TreeInv, Untouched, [Next]_vars
  PROVE  /\ Untouched' /\ job' = job /\ (~edited' => ~edited)
         /\ ~edited' /\ job.op \in {"list", "browse", "copy"} =>
              /\ dirs' = dirs /\ files' = files
              /\ Start \/ Page \/ VisitFile \/ ShowEntry \/ Descend \/ NextPage \/ Leave \/ UNCHANGED walk
<1>1. CASE Start \/ Page \/ VisitFile \/ ShowEntry \/ Descend \/ NextPage
  <2>1. UNCHANGED other /\ job' = job /\ dirs' = dirs /\ (job.op # "move" => files' = files)
    BY <1>1 DEF Start, Page, VisitFile, ShowEntry, Descend, NextPage, tree
  <2> QED
    BY <1>1, <2>1 DEF Untouched, other
<1>2. CASE DeleteOne \/ Leave
  BY <1>2 DEF DeleteOne, Leave, Untouched, other
<1>3. CASE Mkdir \/ DeleteFile
  BY <1>3 DEF Mkdir, DeleteFile, Edit, Untouched, walk
<1>4. CASE InsertFile
  BY <1>4 DEF InsertFile, Untouched, walk
<1>5. CASE Finished \/ UNCHANGED vars
  BY <1>5 DEF Finished, vars, tree, walk, other, Untouched
<1> QED
  BY <1>1, <1>2, <1>3, <1>4, <1>5 DEF Next, Walk

\* What is said of the tree stays as it is with it.
LEMMA TreeKept ==
  ASSUME dirs' = dirs, files' = files, job' = job
  PROVE  /\ \A d : ChildFiles(d)' = ChildFiles(d) /\ ChildDirs(d)' = ChildDirs(d)
         /\ \A d : FilesUnder(d)' = FilesUnder(d) /\ Under(d)' = Under(d)
         /\ \A d : (Virtual(d)' <=> Virtual(d)) /\ (Plain(d)' <=> Plain(d))
         /\ FilesUnder(job.root)' = FilesUnder(job.root)
<1>1. \A d : FilesUnder(d)' = FilesUnder(d) /\ Under(d)' = Under(d)
  BY DEF FilesUnder, Under
<1>2. \A d : Virtual(d)' <=> Virtual(d)
  BY DEF Virtual
<1>3. FilesUnder(job.root)' = FilesUnder(job.root) /\ Under(job.root)' = Under(job.root)
  BY DEF FilesUnder, Under
<1>4. \A d : Plain(d)' <=> Plain(d)
  BY <1>2, <1>3 DEF Plain
<1>5. \A d : ChildFiles(d)' = ChildFiles(d) /\ ChildDirs(d)' = ChildDirs(d)
  BY DEF ChildFiles, ChildDirs
<1> QED
  BY <1>1, <1>2, <1>3, <1>4, <1>5

\* The same frame owes the same.
LEMMA FrameKept ==
  ASSUME NEW i, dirs' = dirs, files' = files, stack'[i] = stack[i], Due(i)' <=> Due(i)
  PROVE  /\ OwesFiles(i)' = OwesFiles(i) /\ OwesDirs(i)' = OwesDirs(i)
         /\ OnceListed(i)' <=> OnceListed(i)
<1>1. (Continues(i)' <=> Continues(i)) /\ NextOff(i)' = NextOff(i)
  BY DEF Continues, NextOff
<1>2. LaterFiles(i)' = LaterFiles(i) /\ LaterDirs(i)' = LaterDirs(i)
  BY <1>1 DEF LaterFiles, LaterDirs
<1>3. OwesFiles(i)' = OwesFiles(i) /\ OwesDirs(i)' = OwesDirs(i)
  BY <1>2 DEF OwesFiles, OwesDirs
<1>4. OnceListed(i)' <=> OnceListed(i)
  BY <1>2 DEF OnceListed
<1> QED
  BY <1>3, <1>4

\* A frame that has handed on nothing but what is seen or is above it in the stack
\* has still all it needs.
LEMMA CoversKept ==
  ASSUME NEW i, Covers(i), dirs' = dirs, files' = files, job' = job, files \subseteq AllPaths,
         stack'[i].dir = stack[i].dir,
         \A f \in AllPaths : seen[f] >= 1 => seen'[f] >= 1,
         \A f \in OwesFiles(i) : f \in OwesFiles(i)' \/ seen'[f] >= 1,
         \A g \in OwesDirs(i) : g \in OwesDirs(i)' \/ (i < Len(stack') /\ g = stack'[i + 1].dir),
         i < Len(stack) => \/ i < Len(stack') /\ stack'[i + 1].dir = stack[i + 1].dir
                           \/ \A f \in FilesUnder(stack[i + 1].dir) : seen'[f] >= 1
  PROVE  Covers(i)'
<1>1. /\ \A d : ChildFiles(d)' = ChildFiles(d) /\ ChildDirs(d)' = ChildDirs(d)
      /\ \A d : FilesUnder(d)' = FilesUnder(d)
  BY TreeKept
<1>2. PICK d : d = stack[i].dir
  OBVIOUS
<1>3. ASSUME NEW f \in ChildFiles(d) PROVE f \in OwesFiles(i)' \/ seen'[f] >= 1
  <2>1. f \in OwesFiles(i) \/ seen[f] >= 1
    BY <1>2, <1>3 DEF Covers
  <2>2. f \in AllPaths
    BY <1>3 DEF ChildFiles
  <2> QED
    BY <2>1, <2>2
<1>4. ASSUME NEW g \in ChildDirs(d)
      PROVE  \/ g \in OwesDirs(i)' \/ (i < Len(stack') /\ g = stack'[i + 1].dir)
             \/ \A f \in FilesUnder(g) : seen'[f] >= 1
  <2>1. g \in OwesDirs(i) \/ (i < Len(stack) /\ g = stack[i + 1].dir) \/ AllSeen(g)
    BY <1>2, <1>4 DEF Covers
  <2>2. ASSUME AllSeen(g) PROVE \A f \in FilesUnder(g) : seen'[f] >= 1
    BY <2>2 DEF AllSeen, FilesUnder
  <2> QED
    BY <2>1, <2>2
<1>5. \A g : AllSeen(g)' <=> \A f \in FilesUnder(g) : seen'[f] >= 1
  BY <1>1 DEF AllSeen
<1>6. stack'[i].dir = d /\ ChildFiles(stack[i].dir)' = ChildFiles(d) /\ ChildDirs(stack[i].dir)' = ChildDirs(d)
  BY <1>2 DEF ChildFiles, ChildDirs
<1> QED
  BY <1>3, <1>4, <1>5, <1>6 DEF Covers

LEMMA OnceKept ==
  ASSUME NEW i, Once(i), dirs' = dirs, files' = files, job' = job,
         OwesFiles(i)' \subseteq OwesFiles(i), OwesDirs(i)' \subseteq OwesDirs(i),
         i < Len(stack') /\ stack'[i + 1].dir \in OwesDirs(i)' =>
           (i < Len(stack) /\ stack'[i + 1].dir = stack[i + 1].dir) \/ stack'[i + 1].dir \in files,
         \A f \in FilesUnder(job.root) : Plain(f) /\ seen'[f] >= 1 =>
           seen[f] >= 1 \/ (f \notin OwesFiles(i)' /\ \A g \in OwesDirs(i)' : ~Below(g, f))
  PROVE  Once(i)'
<1>1. FilesUnder(job.root)' = FilesUnder(job.root) /\ \A f : Plain(f)' <=> Plain(f)
  BY TreeKept
<1>2. ASSUME i < Len(stack'), stack'[i + 1].dir \in OwesDirs(i)' PROVE stack'[i + 1].dir \in files'
  BY <1>2 DEF Once
<1>3. ASSUME NEW f \in FilesUnder(job.root), Plain(f), seen'[f] >= 1
      PROVE  f \notin OwesFiles(i)' /\ \A g \in OwesDirs(i)' : ~Below(g, f)
  BY <1>3 DEF Once
<1> QED
  BY <1>1, <1>2, <1>3 DEF Once

-----------------------------------------------------------------------------
(* A walk into the depth.                                                  *)

LEMMA OnTheWay ==
  ASSUME TreeInv, Active, NEW i \in 1..Len(stack), NEW d, d = stack[i].dir
  PROVE  /\ d \in AllPaths /\ d \in Seq(Nat) /\ job.root \in Seq(Nat)
         /\ d = job.root \/ job.root \in Ancestors(d)
         /\ d \in dirs => d \in Under(job.root)
<1>1. stack[i] \in FrameTypes
  BY ElementOfSeq DEF TreeInv, Framed
<1>2. d \in AllPaths /\ d \in Seq(Nat) /\ job.root \in Seq(Nat)
  BY <1>1, PathsTyped, ConstantsAssumption DEF ConstantsAssumption, FrameTypes, TreeInv
<1>3. stack[1].dir = job.root
  BY DEF TreeInv, Framed
<1>4. d = job.root \/ job.root \in Ancestors(d)
  <2>1. CASE i = 1
    BY <2>1, <1>3
  <2>2. CASE i # 1
    <3>1. 1 \in 1..i - 1
      <4>1. i \in Nat /\ i > 1
        BY <2>2
      <4> QED
        BY <4>1
    <3>2. stack[1].dir \in Ancestors(stack[i].dir)
      BY <3>1 DEF TreeInv, Framed
    <3> QED
      BY <3>2, <1>3
  <2> QED
    BY <2>1, <2>2
<1>5. d \in dirs => d \in Under(job.root)
  BY <1>2, <1>4, BelowIs DEF Under
<1> QED
  BY <1>2, <1>4, <1>5

LEMMA ChildrenListed ==
  ASSUME TreeInv, NEW d, NEW k \in Nat
  PROVE  /\ After(Children(files, d), 0) = ChildFiles(d) /\ After(Children(dirs, d), 0) = ChildDirs(d)
         /\ After(Children(files, d), k) \subseteq ChildFiles(d)
         /\ After(Children(dirs, d), k) \subseteq ChildDirs(d)
<1>1. PICK s : s = Children(files, d)
  OBVIOUS
<1>2. PICK t : t = Children(dirs, d)
  OBVIOUS
<1>3. files \in SUBSET AllPaths /\ dirs \in SUBSET AllPaths
  BY DEF TreeInv
<1>4. s \in Seq(ChildFiles(d)) /\ Range(s) = ChildFiles(d)
  <2>1. PICK C : C = ChildFiles(d)
    OBVIOUS
  <2>2. C = {f \in files : f # << >> /\ Parent(f) = d}
    BY <2>1 DEF ChildFiles
  <2>3. s \in Seq(C) /\ Range(s) = C
    BY <1>1, <1>3, <2>2, ListedOnce
  <2> QED
    BY <2>1, <2>3
<1>5. t \in Seq(ChildDirs(d)) /\ Range(t) = ChildDirs(d)
  <2>1. PICK C : C = ChildDirs(d)
    OBVIOUS
  <2>2. C = {f \in dirs : f # << >> /\ Parent(f) = d}
    BY <2>1 DEF ChildDirs
  <2>3. t \in Seq(C) /\ Range(t) = C
    BY <1>2, <1>3, <2>2, ListedOnce
  <2> QED
    BY <2>1, <2>3
<1>6. After(s, 0) = ChildFiles(d) /\ After(s, k) \subseteq ChildFiles(d)
  BY <1>4, AfterOf
<1>7. After(t, 0) = ChildDirs(d) /\ After(t, k) \subseteq ChildDirs(d)
  BY <1>5, AfterOf
<1> QED
  BY <1>1, <1>2, <1>6, <1>7

\* A frame owes only what is in its directory.
LEMMA OwesAre ==
  ASSUME TreeInv, NEW i \in 1..Len(stack), OnceListed(i), NEW d, d = stack[i].dir
  PROVE  OwesFiles(i) \subseteq ChildFiles(d) /\ OwesDirs(i) \subseteq ChildDirs(d)
<1>1. stack[i] \in FrameTypes /\ stack[i].files \in Seq(Kids(d)) /\ stack[i].subdirs \in Seq(Kids(d))
  BY ElementOfSeq DEF TreeInv, Framed
<1>2. Range(stack[i].files) \subseteq Kids(d) /\ Range(stack[i].subdirs) \subseteq Kids(d)
  BY <1>1, AfterOf
<1>3. Range(stack[i].files) \subseteq ChildFiles(d) /\ Range(stack[i].subdirs) \subseteq ChildDirs(d)
  BY <1>2 DEF OnceListed, ChildFiles, ChildDirs, Kids
<1>4. NextOff(i) \in Nat
  BY <1>1, ConstantsAssumption DEF ConstantsAssumption, NextOff, FrameTypes
<1>5. LaterFiles(i) \subseteq ChildFiles(d) /\ LaterDirs(i) \subseteq ChildDirs(d)
  BY <1>4, ChildrenListed DEF LaterFiles, LaterDirs
<1> QED
  BY <1>3, <1>5 DEF OwesFiles, OwesDirs

\* A frame that has just been put on the stack owes all of its directory.
LEMMA NewFrame ==
  ASSUME TreeInv, dirs' = dirs, files' = files, NEW n \in Nat, Len(stack') = n, NEW d, stack'[n] = Frame(d),
         pc' = "page"
  PROVE  /\ OwesFiles(n)' = ChildFiles(d) /\ OwesDirs(n)' = ChildDirs(d)
         /\ OnceListed(n)' /\ Covers(n)'
<1>1. Due(n)' /\ Continues(n)' /\ NextOff(n)' = 0 /\ stack'[n].dir = d
  BY DEF Due, Continues, NextOff, Frame
<1>2. LaterFiles(n)' = ChildFiles(d) /\ LaterDirs(n)' = ChildDirs(d)
  BY <1>1, ChildrenListed DEF LaterFiles, LaterDirs
<1>3. /\ stack'[n].files = << >> /\ stack'[n].subdirs = << >>
      /\ Range(<< >>) = {} /\ IsInjective(<< >>)
  BY DEF Frame, Range, IsInjective
<1>4. OwesFiles(n)' = ChildFiles(d) /\ OwesDirs(n)' = ChildDirs(d)
  BY <1>2, <1>3 DEF OwesFiles, OwesDirs
<1>5. OnceListed(n)'
  BY <1>3 DEF OnceListed
<1>6. Covers(n)'
  <2>1. ChildFiles(stack[n].dir)' = ChildFiles(d) /\ ChildDirs(stack[n].dir)' = ChildDirs(d)
    BY <1>1 DEF ChildFiles, ChildDirs
  <2> QED
    BY <2>1, <1>4 DEF Covers
<1> QED
  BY <1>4, <1>5, <1>6

\* The top when an entry is taken off one of its lists.
LEMMA TopLess ==
  ASSUME dirs' = dirs, files' = files, NEW n, NEW t, NEW e, stack[n] = t, stack'[n] = e,
         e.dir = t.dir, e.off = t.off, e.more = t.more, ~Due(n), ~Due(n)'
  PROVE  /\ LaterFiles(n)' = LaterFiles(n) /\ LaterDirs(n)' = LaterDirs(n)
         /\ OwesFiles(n) = Range(t.files) \cup LaterFiles(n)
         /\ OwesDirs(n) = Range(t.subdirs) \cup LaterDirs(n)
         /\ OwesFiles(n)' = Range(e.files) \cup LaterFiles(n)
         /\ OwesDirs(n)' = Range(e.subdirs) \cup LaterDirs(n)
<1>1. (Continues(n)' <=> Continues(n)) /\ NextOff(n)' = NextOff(n)
  BY DEF Continues, NextOff
<1>2. LaterFiles(n)' = LaterFiles(n) /\ LaterDirs(n)' = LaterDirs(n)
  BY <1>1 DEF LaterFiles, LaterDirs
<1> QED
  BY <1>2 DEF OwesFiles, OwesDirs

\* The next file is taken.
LEMMA FileTaken ==
  ASSUME dirs' = dirs, files' = files, NEW n, NEW t, NEW e, stack[n] = t, stack'[n] = e,
         e.dir = t.dir, e.off = t.off, e.more = t.more, ~Due(n), ~Due(n)',
         NEW K, t.files \in Seq(K), t.files # << >>, e.files = Tail(t.files), e.subdirs = t.subdirs,
         OnceListed(n), NEW f, f = Head(t.files)
  PROVE  /\ OnceListed(n)' /\ OwesDirs(n)' = OwesDirs(n) /\ f \in files
         /\ f \in OwesFiles(n) /\ OwesFiles(n) = OwesFiles(n)' \cup {f} /\ f \notin OwesFiles(n)'
<1>1. /\ LaterFiles(n)' = LaterFiles(n) /\ LaterDirs(n)' = LaterDirs(n)
      /\ OwesFiles(n) = Range(t.files) \cup LaterFiles(n)
      /\ OwesDirs(n) = Range(t.subdirs) \cup LaterDirs(n)
      /\ OwesFiles(n)' = Range(e.files) \cup LaterFiles(n)
      /\ OwesDirs(n)' = Range(e.subdirs) \cup LaterDirs(n)
  BY TopLess
<1>2. /\ IsInjective(t.files) /\ IsInjective(t.subdirs)
      /\ Range(t.files) \cap LaterFiles(n) = {} /\ Range(t.subdirs) \cap LaterDirs(n) = {}
      /\ Range(t.files) \subseteq files /\ Range(t.subdirs) \subseteq dirs
  BY DEF OnceListed
<1>3. /\ f \in Range(t.files) /\ Range(t.files) = Range(e.files) \cup {f}
      /\ IsInjective(e.files) /\ f \notin Range(e.files)
  BY <1>2, HeadAndTail
<1>4. OnceListed(n)'
  BY <1>1, <1>2, <1>3 DEF OnceListed
<1> QED
  BY <1>1, <1>2, <1>3, <1>4

\* The next directory is taken.
LEMMA DirTaken ==
  ASSUME dirs' = dirs, files' = files, NEW n, NEW t, NEW e, stack[n] = t, stack'[n] = e,
         e.dir = t.dir, e.off = t.off, e.more = t.more, ~Due(n), ~Due(n)',
         NEW K, t.subdirs \in Seq(K), t.subdirs # << >>, e.subdirs = Tail(t.subdirs), e.files = t.files,
         OnceListed(n), NEW f, f = Head(t.subdirs)
  PROVE  /\ OnceListed(n)' /\ OwesFiles(n)' = OwesFiles(n) /\ f \in dirs
         /\ f \in OwesDirs(n) /\ OwesDirs(n) = OwesDirs(n)' \cup {f} /\ f \notin OwesDirs(n)'
<1>1. /\ LaterFiles(n)' = LaterFiles(n) /\ LaterDirs(n)' = LaterDirs(n)
      /\ OwesFiles(n) = Range(t.files) \cup LaterFiles(n)
      /\ OwesDirs(n) = Range(t.subdirs) \cup LaterDirs(n)
      /\ OwesFiles(n)' = Range(e.files) \cup LaterFiles(n)
      /\ OwesDirs(n)' = Range(e.subdirs) \cup LaterDirs(n)
  BY TopLess
<1>2. /\ IsInjective(t.files) /\ IsInjective(t.subdirs)
      /\ Range(t.files) \cap LaterFiles(n) = {} /\ Range(t.subdirs) \cap LaterDirs(n) = {}
      /\ Range(t.files) \subseteq files /\ Range(t.subdirs) \subseteq dirs
  BY DEF OnceListed
<1>3. /\ f \in Range(t.subdirs) /\ Range(t.subdirs) = Range(e.subdirs) \cup {f}
      /\ IsInjective(e.subdirs) /\ f \notin Range(e.subdirs)
  BY <1>2, HeadAndTail
<1>4. OnceListed(n)'
  BY <1>1, <1>2, <1>3 DEF OnceListed
<1> QED
  BY <1>1, <1>2, <1>3, <1>4

LEMMA SeenOnceMore ==
  ASSUME TreeInv, NEW f \in AllPaths, See(f)
  PROVE  /\ \A g \in AllPaths : seen[g] \in 0..2 /\ (seen[g] >= 1 => seen'[g] >= 1)
         /\ \A g \in AllPaths : g # f => seen'[g] = seen[g]
         /\ seen'[f] >= 1 /\ (~(seen[f] >= 1) => seen'[f] = 1)
<1>1. PICK v : v = IF seen[f] = 0 THEN 1 ELSE 2
  OBVIOUS
<1>2. seen' = [seen EXCEPT ![f] = v] /\ seen \in [AllPaths -> 0..2]
  BY <1>1 DEF See, TreeInv
<1>3. seen[f] \in 0..2 /\ v \in 1..2 /\ (~(seen[f] >= 1) => v = 1)
  BY <1>1, <1>2
<1>4. seen'[f] = v /\ \A g \in AllPaths : g # f => seen'[g] = seen[g]
  BY <1>2
<1> QED
  BY <1>2, <1>3, <1>4

\* A step that hands nothing on: the top owes what it did.
LEMMA DeepSame ==
  ASSUME TreeInv, Active, Deep, dirs' = dirs, files' = files, job' = job, seen' = seen, pc' # "done",
         NEW n, n = Len(stack), Len(stack') = n, stack'[n].dir = stack[n].dir,
         \A i \in 1..n - 1 : stack'[i] = stack[i],
         OwesFiles(n)' = OwesFiles(n), OwesDirs(n)' = OwesDirs(n), OnceListed(n)'
  PROVE  Deep'
<1>1. files \subseteq AllPaths /\ n \in Nat \ {0} /\ \A i \in 1..n : i = n \/ i \in 1..n - 1
  <2>1. n \in Nat \ {0}
    BY TopTyped DEF TreeInv
  <2> QED
    BY <2>1 DEF TreeInv
<1>2. \A i \in 1..n : stack'[i].dir = stack[i].dir
  BY <1>1
<1>3. ASSUME NEW i \in 1..n
      PROVE  OwesFiles(i)' = OwesFiles(i) /\ OwesDirs(i)' = OwesDirs(i) /\ OnceListed(i)'
  <2>1. OnceListed(i)
    BY DEF Deep
  <2>2. CASE i = n
    BY <2>2
  <2>3. CASE i \in 1..n - 1
    <3>1. i # n /\ stack'[i] = stack[i]
      BY <1>1, <2>3
    <3>2. Due(i)' <=> Due(i)
      BY <3>1 DEF Due
    <3> QED
      BY <2>1, <3>1, <3>2, FrameKept
  <2> QED
    BY <2>2, <2>3, <1>1
<1>4. ASSUME NEW i \in 1..n PROVE Covers(i)' /\ Once(i)'
  <2>1. Covers(i) /\ Once(i)
    BY DEF Deep
  <2>2. i < Len(stack) => i < Len(stack') /\ stack'[i + 1].dir = stack[i + 1].dir
    BY <1>1, <1>2
  <2>3. OwesFiles(i)' = OwesFiles(i) /\ OwesDirs(i)' = OwesDirs(i) /\ stack'[i].dir = stack[i].dir
    BY <1>2, <1>3
  <2>4. Covers(i)'
    BY <1>1, <2>1, <2>2, <2>3, CoversKept
  <2>5. i < Len(stack') => i < Len(stack) /\ stack'[i + 1].dir = stack[i + 1].dir
    BY <2>2
  <2>6. Once(i)'
    BY <2>1, <2>3, <2>5, OnceKept
  <2> QED
    BY <2>4, <2>6
<1>5. \A f \in FilesUnder(job.root)' : Plain(f)' => seen'[f] <= 1
  <2>1. FilesUnder(job.root)' = FilesUnder(job.root) /\ \A d : Plain(d)' <=> Plain(d)
    BY TreeKept
  <2> QED
    BY <2>1 DEF Deep
<1> QED
  BY <1>3, <1>4, <1>5 DEF Deep

LEMMA DeepStart ==
  ASSUME TreeInv, Undisturbed, Deep, dirs' = dirs, files' = files, job' = job, Start
  PROVE  Deep'
<1>1. pc = "start" /\ pc' = "page" /\ UNCHANGED <<stack, seen>> /\ Active
  BY DEF Undisturbed, Start, Active
<1>2. PICK n : n = Len(stack)
  OBVIOUS
<1>3. n \in Nat \ {0} /\ n \in 1..n
  BY <1>1, <1>2, TopTyped DEF TreeInv
<1>4. OnceListed(n)
  BY <1>1, <1>2, <1>3 DEF Deep
<1>5. Due(n)' <=> Due(n)
  BY <1>1 DEF Due
<1>6. OwesFiles(n)' = OwesFiles(n) /\ OwesDirs(n)' = OwesDirs(n) /\ OnceListed(n)'
  BY <1>1, <1>4, <1>5, FrameKept
<1> QED
  BY <1>1, <1>2, <1>6, DeepSame

\* A page is what the directory owed, and leaves the rest of it to those that follow.
LEMMA PageOwes ==
  ASSUME TreeInv, Undisturbed, dirs' = dirs, files' = files, job' = job, Page,
         NEW n, n = Len(stack)
  PROVE  /\ n \in Nat \ {0} /\ Len(stack') = n /\ stack'[n].dir = stack[n].dir
         /\ \A i \in 1..n - 1 : stack'[i] = stack[i]
         /\ OwesFiles(n)' = OwesFiles(n) /\ OwesDirs(n)' = OwesDirs(n) /\ OnceListed(n)'
<1>1. Active /\ Framed /\ pc = "page" /\ pc' = "items" /\ job.op # "rmdir"
  BY DEF TreeInv, Page, Active, Undisturbed
<1>2. /\ stack \in Seq(FrameTypes) /\ stack # << >> /\ n \in Nat \ {0} /\ Top = stack[n]
      /\ Top \in FrameTypes /\ (Top.off = 0 \/ Top.off >= PageLimit)
      /\ Top.files = << >> /\ Top.subdirs = << >>
  <2>1. /\ stack \in Seq(FrameTypes) /\ stack # << >> /\ n \in Nat \ {0} /\ Top = stack[n]
        /\ Top \in FrameTypes
    BY <1>1, TopTyped
  <2>2. Top.off = 0 \/ Top.off >= PageLimit
    BY <1>1, TopTyped
  <2>3. Top.files = << >> /\ Top.subdirs = << >>
    BY <1>1, TopTyped
  <2> QED
    BY <2>1, <2>2, <2>3
<1>3. PICK d : d = Top.dir
  OBVIOUS
<1>4. PICK off : off = Top.off
  OBVIOUS
<1>5. PICK e, page :
           /\ page = Listing(d, PageLimit, off)
           /\ e \in FrameTypes /\ e.dir = d /\ e.off = off /\ e.files = page.files
           /\ e.subdirs = page.dirs /\ e.more = More(page)
           /\ stack' = [stack EXCEPT ![n] = e]
  BY <1>1, <1>3, <1>4, PageTop
<1>6. /\ Len(stack') = n /\ stack'[n] = e /\ \A i \in 1..n - 1 : stack'[i] = stack[i]
  BY <1>2, <1>5, Replaced
<1>7. PICK ds : ds = Children(dirs, d)
  OBVIOUS
<1>8. PICK fs : fs = Children(files, d)
  OBVIOUS
<1>9. off \in Nat /\ (off = 0 \/ off >= PageLimit) /\ PageLimit \in Nat
  BY <1>2, <1>4, ConstantsAssumption DEF ConstantsAssumption, FrameTypes
<1>10. d \in dirs => OnePage(d) \/ OneKind(d)
  <2>1. n \in 1..Len(stack) /\ d = stack[n].dir
    BY <1>2, <1>3
  <2>2. d \in dirs => d \in Under(job.root)
    BY <2>1, <1>1, OnTheWay
  <2> QED
    BY <2>2 DEF Undisturbed
<1>11. dirs \subseteq AllPaths /\ files \subseteq AllPaths /\ Closed(dirs, files)
  BY DEF TreeInv
<1>11a. SplitsOff(page, ds, fs, off)
  BY <1>5, <1>7, <1>8, <1>9, <1>10, <1>11, PageSplits
<1>12. /\ IsInjective(page.files) /\ IsInjective(page.dirs)
       /\ Range(page.files) \subseteq files /\ Range(page.dirs) \subseteq dirs
       /\ Range(page.files) \cup After(fs, off + PageLimit) = After(fs, off)
       /\ Range(page.files) \cap After(fs, off + PageLimit) = {}
       /\ Range(page.dirs) \cup After(ds, off + PageLimit) = After(ds, off)
       /\ Range(page.dirs) \cap After(ds, off + PageLimit) = {}
  BY <1>11a DEF SplitsOff
<1>13. ASSUME ~e.more PROVE After(fs, off + PageLimit) = {} /\ After(ds, off + PageLimit) = {}
  <2>1. Len(page.files) + Len(page.dirs) < PageLimit \/ page.total <= off + PageLimit
    <3>1. page.files \in Seq(Kids(d)) /\ page.dirs \in Seq(Kids(d)) /\ page.total \in Nat
      BY <1>5, <1>9, <1>11, ConstantsAssumption, PageTyped DEF ConstantsAssumption
    <3>2. Len(page.files) \in Nat /\ Len(page.dirs) \in Nat
      BY <3>1, LenProperties
    <3>3. ~More(page)
      BY <1>5, <1>13
    <3>4. PICK k : k = Len(page.files) + Len(page.dirs)
      OBVIOUS
    <3>5. PICK t : t = page.total
      OBVIOUS
    <3>6. k \in Int /\ t \in Int /\ off + PageLimit \in Int /\ PageLimit \in Int
      BY <3>1, <3>2, <3>4, <3>5, <1>9
    <3>7. CASE job.op = "browse"
      <4>1. ~(off + PageLimit < t)
        BY <3>3, <3>5, <3>7, <1>4 DEF More
      <4>2. t <= off + PageLimit
        BY <4>1, <3>6
      <4> QED
        BY <4>2, <3>5
    <3>8. CASE job.op # "browse"
      <4>1. ~(k >= PageLimit)
        BY <3>3, <3>4, <3>8, <1>1 DEF More
      <4>2. k < PageLimit
        BY <4>1, <3>6
      <4> QED
        BY <4>2, <3>4
    <3> QED
      BY <3>7, <3>8
  <2>2. Len(page.files) + Len(page.dirs) < PageLimit \/ page.total <= off + PageLimit =>
              After(fs, off + PageLimit) = {} /\ After(ds, off + PageLimit) = {}
    BY <1>11a DEF SplitsOff
  <2> QED
    BY <2>1, <2>2
<1>14. /\ Due(n) /\ Continues(n) /\ NextOff(n) = off
       /\ ~Due(n)' /\ (Continues(n)' <=> e.more) /\ NextOff(n)' = off + PageLimit
  BY <1>1, <1>2, <1>3, <1>4, <1>5, <1>6 DEF Due, Continues, NextOff
<1>15. LaterFiles(n) = After(fs, off) /\ LaterDirs(n) = After(ds, off)
  BY <1>2, <1>3, <1>7, <1>8, <1>14 DEF LaterFiles, LaterDirs
<1>16. LaterFiles(n)' = After(fs, off + PageLimit) /\ LaterDirs(n)' = After(ds, off + PageLimit)
  BY <1>5, <1>6, <1>7, <1>8, <1>13, <1>14 DEF LaterFiles, LaterDirs
<1>17. Range(<< >>) = {}
  BY DEF Range
<1>18. OwesFiles(n) = After(fs, off) /\ OwesDirs(n) = After(ds, off)
  BY <1>2, <1>15, <1>17 DEF OwesFiles, OwesDirs
<1>19. OwesFiles(n)' = After(fs, off) /\ OwesDirs(n)' = After(ds, off)
  BY <1>5, <1>6, <1>12, <1>16 DEF OwesFiles, OwesDirs
<1>20. OnceListed(n)'
  BY <1>5, <1>6, <1>12, <1>16 DEF OnceListed
<1> QED
  BY <1>2, <1>3, <1>5, <1>6, <1>18, <1>19, <1>20

\* The same when the offset goes on to the next page.
LEMMA NextOwes ==
  ASSUME TreeInv, dirs' = dirs, files' = files, job' = job, NextPage,
         NEW n, n = Len(stack), OnceListed(n)
  PROVE  /\ n \in Nat \ {0} /\ Len(stack') = n /\ stack'[n].dir = stack[n].dir
         /\ \A i \in 1..n - 1 : stack'[i] = stack[i]
         /\ OwesFiles(n)' = OwesFiles(n) /\ OwesDirs(n)' = OwesDirs(n) /\ OnceListed(n)'
<1>1. Active /\ Framed /\ pc = "items" /\ pc' = "page" /\ Top.more /\ Top.files = << >> /\ Top.subdirs = << >>
  BY DEF TreeInv, NextPage, Active
<1>2. /\ stack \in Seq(FrameTypes) /\ stack # << >> /\ n \in Nat \ {0} /\ Top = stack[n]
  BY <1>1, TopTyped
<1>3. PICK e : /\ e \in FrameTypes /\ e.dir = Top.dir /\ e.off = Top.off + PageLimit
               /\ e.files = << >> /\ e.subdirs = << >>
               /\ stack' = [stack EXCEPT ![n] = e]
  BY NextTop
<1>4. /\ Len(stack') = n /\ stack'[n] = e /\ \A i \in 1..n - 1 : stack'[i] = stack[i]
  BY <1>2, <1>3, Replaced
<1>5. /\ Continues(n) /\ Continues(n)' /\ NextOff(n) = Top.off + PageLimit /\ NextOff(n)' = Top.off + PageLimit
  BY <1>1, <1>2, <1>3, <1>4 DEF Due, Continues, NextOff
<1>6. LaterFiles(n)' = LaterFiles(n) /\ LaterDirs(n)' = LaterDirs(n)
  BY <1>2, <1>3, <1>4, <1>5 DEF LaterFiles, LaterDirs
<1>7. OwesFiles(n)' = OwesFiles(n) /\ OwesDirs(n)' = OwesDirs(n) /\ OnceListed(n)'
  BY <1>1, <1>2, <1>3, <1>4, <1>6 DEF OwesFiles, OwesDirs, OnceListed
<1> QED
  BY <1>2, <1>3, <1>4, <1>7

LEMMA DeepPage ==
  ASSUME TreeInv, Undisturbed, Deep, dirs' = dirs, files' = files, job' = job, Page \/ NextPage
  PROVE  Deep'
<1>1. PICK n : n = Len(stack)
  OBVIOUS
<1>2. Active /\ seen' = seen /\ pc' # "done"
  BY DEF Page, NextPage, Active
<1>3. n \in Nat \ {0} /\ n \in 1..n
  BY <1>1, <1>2, TopTyped DEF TreeInv
<1>4. OnceListed(n)
  BY <1>1, <1>2, <1>3 DEF Deep
<1>5. /\ Len(stack') = n /\ stack'[n].dir = stack[n].dir
      /\ \A i \in 1..n - 1 : stack'[i] = stack[i]
      /\ OwesFiles(n)' = OwesFiles(n) /\ OwesDirs(n)' = OwesDirs(n) /\ OnceListed(n)'
  <2>1. CASE Page
    BY <1>1, <2>1, PageOwes
  <2>2. CASE NextPage
    BY <1>1, <1>4, <2>2, NextOwes
  <2> QED
    BY <2>1, <2>2
<1> QED
  BY <1>1, <1>2, <1>5, DeepSame

\* A directory on the way to a file that is a file itself.
LEMMA VirtualAbove ==
  ASSUME TreeInv, Active, NEW i \in 1..Len(stack), NEW d \in Kids(stack[i].dir), d \in dirs, d \in files,
         NEW h \in files, d \in Ancestors(h)
  PROVE  ~Plain(h)
<1>1. /\ d \in Seq(Nat) /\ stack[i].dir \in Seq(Nat) /\ stack[i].dir \in Ancestors(d)
      /\ \A g \in Ancestors(stack[i].dir) : g \in Ancestors(d)
  BY KidsOf
<1>2. PICK p : p = stack[i].dir
  OBVIOUS
<1>3. job.root \in Seq(Nat) /\ (p = job.root \/ job.root \in Ancestors(p))
  BY <1>2, OnTheWay
<1>4. job.root \in Ancestors(d)
  BY <1>1, <1>2, <1>3
<1>5. Below(job.root, d)
  BY <1>1, <1>3, <1>4, BelowIs
<1>6. h \in Seq(Nat)
  BY PathsTyped DEF TreeInv
<1>7. Below(d, h)
  BY <1>1, <1>6, BelowIs
<1> QED
  BY <1>5, <1>7 DEF Plain, Under, Virtual

\* A frame does not owe what is deeper in the tree, but for what is below a directory
\* that is a file too.
LEMMA NotOwedAbove ==
  ASSUME TreeInv, Active, Deep, NEW n, n = Len(stack), NEW f \in Kids(stack[n].dir), f \in files, Plain(f),
         NEW i \in 1..n
  PROVE  /\ i < n => f \notin OwesFiles(i)
         /\ \A g \in OwesDirs(i) : ~Below(g, f)
<1>1. PICK d : d = stack[i].dir
  OBVIOUS
<1>2. OwesFiles(i) \subseteq ChildFiles(d) /\ OwesDirs(i) \subseteq ChildDirs(d) /\ Once(i)
  <2>1. OnceListed(i) /\ Once(i)
    BY DEF Deep
  <2> QED
    BY <2>1, <1>1, OwesAre
<1>3. n \in Nat \ {0} /\ Framed /\ dirs \subseteq AllPaths /\ files \subseteq AllPaths
  BY TopTyped DEF TreeInv
<1>4. PICK p : p = stack[n].dir
  OBVIOUS
<1>5. /\ f \in Seq(Nat) /\ p \in Ancestors(f) /\ Len(f) = Len(p) + 1 /\ Len(p) \in Nat /\ Parent(f) = p
      /\ p \in Seq(Nat) /\ \A g \in Ancestors(p) : g \in Ancestors(f)
  BY <1>4, KidsOf DEF Kids
<1>6. i < n => d \in Ancestors(p)
  <2>1. i < n => i \in 1..n - 1 /\ n \in 1..Len(stack)
    BY <1>3
  <2> QED
    BY <2>1, <1>1, <1>3, <1>4 DEF Framed
<1>7. ASSUME i < n, f \in OwesFiles(i) PROVE FALSE
  <2>1. d = p
    BY <1>2, <1>5, <1>7 DEF ChildFiles
  <2>2. Len(d) \in 0..Len(p) - 1
    BY <1>5, <1>6, <1>7, AncestorsTyped
  <2> QED
    BY <2>1, <2>2, <1>5
<1>8. ASSUME NEW g \in OwesDirs(i), Below(g, f) PROVE FALSE
  <2>1. g \in dirs /\ g # << >> /\ Parent(g) = d /\ g \in Kids(d)
    BY <1>2, <1>3 DEF ChildDirs, Kids
  <2>2. g \in Seq(Nat) /\ Len(g) = Len(d) + 1 /\ Len(d) \in Nat /\ g \in Ancestors(f)
    <3>1. g \in Seq(Nat) /\ Len(g) = Len(d) + 1 /\ Len(d) \in Nat
      BY <2>1, KidsOf
    <3> QED
      BY <3>1, <1>5, <1>8, BelowIs
  <2>3. Len(g) \in 0..Len(f) - 1
    BY <2>2, <1>5, AncestorsTyped
  <2>4. CASE i = n
    BY <2>2, <2>3, <2>4, <1>1, <1>4, <1>5
  <2>5. CASE i < n
    <3>1. PICK e : e = stack[i + 1].dir
      OBVIOUS
    <3>2. i + 1 \in 1..Len(stack) /\ i + 1 > 1 /\ i + 1 - 1 = i /\ (i + 1 = n \/ i + 1 \in 1..n - 1)
      BY <2>5, <1>3
    <3>3. e \in Kids(d)
      BY <3>1, <3>2, <1>1, <1>3 DEF Framed
    <3>4. e \in Ancestors(f)
      <4>1. i + 1 \in 1..n - 1 => e \in Ancestors(p)
        BY <3>1, <1>3, <1>4, SMTT(30) DEF Framed
      <4> QED
        BY <4>1, <3>1, <3>2, <1>4, <1>5
    <3>5. Len(e) = Len(d) + 1
      BY <3>3, KidsOf
    <3>6. g = e
      BY <3>4, <3>5, <2>2, <1>5, Linear
    <3>7. g \in files
      BY <3>1, <3>6, <2>5, <1>2, <1>8 DEF Once
    <3>8. i \in 1..Len(stack) /\ g \in Kids(stack[i].dir)
      BY <2>1, <1>1
    <3> QED
      BY <3>7, <3>8, <2>1, <2>2, VirtualAbove
  <2> QED
    BY <2>4, <2>5, <1>3
<1> QED
  BY <1>7, <1>8

\* A directory goes onto the stack, off what the frame below it owes.
LEMMA DeepPush ==
  ASSUME TreeInv, Active, Deep, dirs' = dirs, files' = files, job' = job, pc' = "page",
         NEW n, n = Len(stack), Len(stack') = n + 1, stack'[n].dir = stack[n].dir,
         \A i \in 1..n - 1 : stack'[i] = stack[i], NEW f, stack'[n + 1] = Frame(f),
         f \in Kids(stack[n].dir), OnceListed(n)', OwesFiles(n)' \subseteq OwesFiles(n),
         OwesDirs(n)' \subseteq OwesDirs(n), \A g \in AllPaths : seen[g] >= 1 => seen'[g] >= 1,
         \A h \in OwesFiles(n) : h \in OwesFiles(n)' \/ seen'[h] >= 1,
         \A g \in OwesDirs(n) : g \in OwesDirs(n)' \/ g = f,
         f \in OwesDirs(n)' => f \in files,
         \A h \in FilesUnder(job.root) : Plain(h) => seen'[h] <= 1,
         \A h \in FilesUnder(job.root) : Plain(h) /\ seen'[h] >= 1 =>
           /\ f \notin Ancestors(h)
           /\ \/ seen[h] >= 1
              \/ /\ h \notin OwesFiles(n)' /\ \A i \in 1..n - 1 : h \notin OwesFiles(i)
                 /\ \A i \in 1..n : \A g \in OwesDirs(i) : ~Below(g, h)
  PROVE  Deep'
<1>1. files \subseteq AllPaths /\ n \in Nat \ {0} /\ (\A i \in 1..n : i = n \/ i \in 1..n - 1)
      /\ Closed(dirs, files)
  <2>1. n \in Nat \ {0}
    BY TopTyped DEF TreeInv
  <2> QED
    BY <2>1 DEF TreeInv
<1>2. \A i \in 1..n : stack'[i].dir = stack[i].dir
  BY <1>1
<1>3. ASSUME NEW i \in 1..n - 1
      PROVE  OwesFiles(i)' = OwesFiles(i) /\ OwesDirs(i)' = OwesDirs(i) /\ OnceListed(i)'
  <2>1. i # n /\ i # n + 1 /\ i \in 1..n
    BY <1>1
  <2>2. OnceListed(i)
    BY <2>1 DEF Deep
  <2>3. Due(i)' <=> Due(i)
    BY <2>1 DEF Due
  <2> QED
    BY <2>2, <2>3, FrameKept
<1>4. /\ OwesFiles(n + 1)' = ChildFiles(f) /\ OwesDirs(n + 1)' = ChildDirs(f)
      /\ OnceListed(n + 1)' /\ Covers(n + 1)'
  <2>1. n + 1 \in Nat
    BY <1>1
  <2> QED
    BY <2>1, NewFrame
<1>5. ASSUME NEW i \in 1..n PROVE OnceListed(i)' /\ Covers(i)' /\ Once(i)'
  <2>1. Covers(i) /\ Once(i)
    BY DEF Deep
  <2>2. i < Len(stack) => i < Len(stack') /\ stack'[i + 1].dir = stack[i + 1].dir
    BY <1>1, <1>2
  <2>3. i = n => stack'[i + 1].dir = f /\ i < Len(stack')
    BY <1>1 DEF Frame
  <2>4. /\ \A h \in OwesFiles(i) : h \in OwesFiles(i)' \/ seen'[h] >= 1
        /\ \A g \in OwesDirs(i) : g \in OwesDirs(i)' \/ (i < Len(stack') /\ g = stack'[i + 1].dir)
    BY <2>3, <1>1, <1>3
  <2>5. OnceListed(i)' /\ OwesFiles(i)' \subseteq OwesFiles(i) /\ OwesDirs(i)' \subseteq OwesDirs(i)
    BY <1>1, <1>3
  <2>6. Covers(i)'
    BY <1>1, <1>2, <2>1, <2>2, <2>4, CoversKept
  <2>7. i < Len(stack') /\ stack'[i + 1].dir \in OwesDirs(i)' =>
           (i < Len(stack) /\ stack'[i + 1].dir = stack[i + 1].dir) \/ stack'[i + 1].dir \in files
    <3>1. CASE i = n
      BY <3>1, <2>3
    <3>2. CASE i \in 1..n - 1
      <4>1. i < Len(stack)
        BY <3>2, <1>1
      <4> QED
        BY <4>1, <2>2
    <3> QED
      BY <3>1, <3>2, <1>1
  <2>8. \A h \in FilesUnder(job.root) : Plain(h) /\ seen'[h] >= 1 =>
           seen[h] >= 1 \/ (h \notin OwesFiles(i)' /\ \A g \in OwesDirs(i)' : ~Below(g, h))
    <3> SUFFICES ASSUME NEW h \in FilesUnder(job.root), Plain(h), seen'[h] >= 1, ~(seen[h] >= 1)
                 PROVE  h \notin OwesFiles(i)' /\ \A g \in OwesDirs(i)' : ~Below(g, h)
      OBVIOUS
    <3>1. \A g \in OwesDirs(i) : ~Below(g, h)
      OBVIOUS
    <3>2. h \notin OwesFiles(i)'
      BY <1>1, <1>3
    <3> QED
      BY <3>1, <3>2, <2>5
  <2>9. Once(i)'
    BY <2>1, <2>5, <2>7, <2>8, OnceKept
  <2> QED
    BY <2>5, <2>6, <2>9
<1>6. Once(n + 1)'
  <2>1. ~(n + 1 < Len(stack'))
    BY <1>1
  <2>2. FilesUnder(job.root)' = FilesUnder(job.root) /\ \A d : Plain(d)' <=> Plain(d)
    BY TreeKept
  <2>3. ASSUME NEW h \in FilesUnder(job.root), Plain(h), seen'[h] >= 1
        PROVE  h \notin ChildFiles(f) /\ \A g \in ChildDirs(f) : ~Below(g, h)
    <3>1. f \notin Ancestors(h) /\ h \in AllPaths /\ h \in Seq(Nat)
      BY <2>3, <1>1, PathsTyped DEF FilesUnder
    <3>2. h \notin ChildFiles(f)
      <4>1. h \in ChildFiles(f) => h \in Kids(f)
        BY <3>1 DEF ChildFiles, Kids
      <4> QED
        BY <4>1, <3>1, KidsOf
    <3>3. ASSUME NEW g \in ChildDirs(f), Below(g, h) PROVE FALSE
      <4>1. g \in Kids(f)
        BY <3>3 DEF ChildDirs, Kids, TreeInv
      <4>2. g \in Seq(Nat) /\ f \in Ancestors(g)
        BY <4>1, KidsOf
      <4>3. g \in Ancestors(h)
        BY <4>2, <3>1, <3>3, BelowIs
      <4> QED
        BY <4>2, <4>3, <3>1, AncestorsAbove
    <3> QED
      BY <3>2, <3>3
  <2> QED
    BY <2>1, <2>2, <2>3, <1>4 DEF Once
<1>7. \A h \in FilesUnder(job.root)' : Plain(h)' => seen'[h] <= 1
  <2>1. FilesUnder(job.root)' = FilesUnder(job.root) /\ \A d : Plain(d)' <=> Plain(d)
    BY TreeKept
  <2> QED
    BY <2>1
<1>8. \A i \in 1..Len(stack') : i = n + 1 \/ i \in 1..n
  BY <1>1
<1>9. \A i \in 1..Len(stack') : OnceListed(i)' /\ Covers(i)' /\ Once(i)'
  BY <1>4, <1>5, <1>6, <1>8
<1> QED
  BY <1>7, <1>9 DEF Deep

LEMMA DeepVisit ==
  ASSUME TreeInv, Undisturbed, Deep, dirs' = dirs, files' = files, job' = job, VisitFile
  PROVE  Deep'
<1>1. PICK n : n = Len(stack)
  OBVIOUS
<1>2. Active /\ Framed /\ pc = "items" /\ pc' = "page" /\ job.op # "move" /\ Top.files # << >>
  BY DEF TreeInv, VisitFile, Active, Undisturbed
<1>3. /\ stack \in Seq(FrameTypes) /\ stack # << >> /\ n \in Nat \ {0} /\ Top = stack[n]
      /\ Top.files \in Seq(Kids(Top.dir))
  BY <1>1, <1>2, TopTyped
<1>4. PICK t : t = Top
  OBVIOUS
<1>5. PICK e, f :
           /\ f = Head(t.files) /\ f \in Kids(t.dir)
           /\ e \in FrameTypes /\ e.dir = t.dir /\ e.off = t.off /\ e.files = Tail(t.files)
           /\ e.subdirs = t.subdirs /\ e.more = t.more
           /\ stack' = Append([stack EXCEPT ![n] = e], Frame(f))
  BY <1>1, <1>4, VisitTop
<1>6. PICK b : b = Frame(f)
  OBVIOUS
<1>7. f \in AllPaths /\ b \in FrameTypes
  BY <1>5, <1>6, KidsOf, EmptySeq DEF Frame, FrameTypes
<1>8. /\ Len(stack') = n + 1 /\ stack'[n] = e /\ stack'[n + 1] = Frame(f)
      /\ \A i \in 1..n - 1 : stack'[i] = stack[i]
  BY <1>1, <1>3, <1>5, <1>6, <1>7, Pushed
<1>9. n \in 1..Len(stack) /\ OnceListed(n) /\ Covers(n) /\ Once(n)
  <2>1. n \in 1..Len(stack)
    BY <1>1, <1>3
  <2> QED
    BY <2>1, <1>2 DEF Deep
<1>10. ~Due(n) /\ ~Due(n)'
  BY <1>2, <1>3, <1>8 DEF Due
<1>11. /\ OnceListed(n)' /\ OwesDirs(n)' = OwesDirs(n) /\ f \in files
       /\ f \in OwesFiles(n) /\ OwesFiles(n) = OwesFiles(n)' \cup {f} /\ f \notin OwesFiles(n)'
  <2>1. PICK K : K = Kids(t.dir)
    OBVIOUS
  <2>2. /\ stack[n] = t /\ stack'[n] = e /\ t.files \in Seq(K) /\ t.files # << >>
        /\ e.dir = t.dir /\ e.off = t.off /\ e.more = t.more /\ e.files = Tail(t.files)
        /\ e.subdirs = t.subdirs /\ f = Head(t.files)
    BY <2>1, <1>2, <1>3, <1>4, <1>5, <1>8
  <2> QED
    BY <2>2, <1>9, <1>10, FileTaken
<1>12. See(f)
  BY <1>4, <1>5, <1>11 DEF VisitFile
<1>13. /\ \A g \in AllPaths : seen[g] \in 0..2 /\ (seen[g] >= 1 => seen'[g] >= 1)
       /\ \A g \in AllPaths : g # f => seen'[g] = seen[g]
       /\ seen'[f] >= 1 /\ (~(seen[f] >= 1) => seen'[f] = 1)
  BY <1>7, <1>12, SeenOnceMore
<1>14. ASSUME NEW h \in FilesUnder(job.root), Plain(h) PROVE seen'[h] <= 1
  <2>1. h \in AllPaths
    BY DEF FilesUnder, TreeInv
  <2>2. CASE h # f
    BY <2>1, <2>2, <1>13, <1>14 DEF Deep
  <2>3. CASE h = f
    <3>1. ~(seen[f] >= 1)
      BY <2>3, <1>9, <1>11, <1>14 DEF Once
    <3> QED
      BY <3>1, <2>3, <1>13
  <2> QED
    BY <2>2, <2>3
<1>15. ASSUME NEW h \in FilesUnder(job.root), Plain(h), seen'[h] >= 1
       PROVE  /\ f \notin Ancestors(h)
              /\ \/ seen[h] >= 1
                 \/ /\ h \notin OwesFiles(n)' /\ \A i \in 1..n - 1 : h \notin OwesFiles(i)
                    /\ \A i \in 1..n : \A g \in OwesDirs(i) : ~Below(g, h)
  <2>1. h \in AllPaths /\ h \in files
    BY DEF FilesUnder, TreeInv
  <2>2. f \notin Ancestors(h)
    <3>1. ASSUME f \in Ancestors(h) PROVE f \in dirs
      BY <2>1, <3>1 DEF TreeInv, Closed
    <3>2. n \in 1..Len(stack) /\ f \in Kids(stack[n].dir)
      BY <1>3, <1>4, <1>5, <1>9
    <3> QED
      BY <3>1, <3>2, <2>1, <1>2, <1>11, <1>15, VirtualAbove
  <2>3. CASE h # f
    BY <2>1, <2>2, <2>3, <1>13, <1>15
  <2>4. CASE h = f
    <3>1. f \in Kids(stack[n].dir) /\ Plain(f)
      BY <2>4, <1>3, <1>4, <1>5, <1>15
    <3>2. ASSUME NEW i \in 1..n
          PROVE  (i < n => f \notin OwesFiles(i)) /\ \A g \in OwesDirs(i) : ~Below(g, f)
      BY <3>1, <1>1, <1>2, <1>11, NotOwedAbove
    <3>3. \A i \in 1..n - 1 : i \in 1..n /\ i < n
      BY <1>3
    <3>4. f \notin OwesFiles(n)'
      BY <1>11
    <3> QED
      BY <3>2, <3>3, <3>4, <2>2, <2>4
  <2> QED
    BY <2>3, <2>4
<1>16. /\ OwesFiles(n)' \subseteq OwesFiles(n) /\ OwesDirs(n)' \subseteq OwesDirs(n)
       /\ \A h \in OwesFiles(n) : h \in OwesFiles(n)' \/ seen'[h] >= 1
       /\ \A g \in OwesDirs(n) : g \in OwesDirs(n)' \/ g = f
       /\ stack'[n].dir = stack[n].dir /\ f \in Kids(stack[n].dir)
  BY <1>3, <1>4, <1>5, <1>8, <1>11, <1>13
<1> QED
  BY <1>1, <1>2, <1>8, <1>11, <1>13, <1>14, <1>15, <1>16, DeepPush

LEMMA DeepDescend ==
  ASSUME TreeInv, Undisturbed, Deep, dirs' = dirs, files' = files, job' = job, Descend
  PROVE  Deep'
<1>1. PICK n : n = Len(stack)
  OBVIOUS
<1>2. Active /\ Framed /\ pc = "items" /\ pc' = "page" /\ Top.subdirs # << >> /\ seen' = seen
  BY DEF TreeInv, Descend, Active
<1>3. /\ stack \in Seq(FrameTypes) /\ stack # << >> /\ n \in Nat \ {0} /\ Top = stack[n]
      /\ Top.subdirs \in Seq(Kids(Top.dir))
  BY <1>1, <1>2, TopTyped
<1>4. PICK t : t = Top
  OBVIOUS
<1>5. PICK e, f :
           /\ f = Head(t.subdirs) /\ f \in Kids(t.dir)
           /\ e \in FrameTypes /\ e.dir = t.dir /\ e.off = t.off /\ e.files = t.files
           /\ e.subdirs = Tail(t.subdirs) /\ e.more = t.more
           /\ stack' = Append([stack EXCEPT ![n] = e], Frame(f))
  BY <1>1, <1>4, DescendTop
<1>6. PICK b : b = Frame(f)
  OBVIOUS
<1>7. f \in AllPaths /\ b \in FrameTypes
  BY <1>5, <1>6, KidsOf, EmptySeq DEF Frame, FrameTypes
<1>8. /\ Len(stack') = n + 1 /\ stack'[n] = e /\ stack'[n + 1] = Frame(f)
      /\ \A i \in 1..n - 1 : stack'[i] = stack[i]
  BY <1>1, <1>3, <1>5, <1>6, <1>7, Pushed
<1>9. n \in 1..Len(stack) /\ OnceListed(n) /\ Covers(n) /\ Once(n)
  <2>1. n \in 1..Len(stack)
    BY <1>1, <1>3
  <2> QED
    BY <2>1, <1>2 DEF Deep
<1>10. ~Due(n) /\ ~Due(n)'
  BY <1>2, <1>3, <1>8 DEF Due
<1>11. /\ OnceListed(n)' /\ OwesFiles(n)' = OwesFiles(n) /\ f \in dirs
       /\ f \in OwesDirs(n) /\ OwesDirs(n) = OwesDirs(n)' \cup {f} /\ f \notin OwesDirs(n)'
  <2>1. PICK K : K = Kids(t.dir)
    OBVIOUS
  <2>2. /\ stack[n] = t /\ stack'[n] = e /\ t.subdirs \in Seq(K) /\ t.subdirs # << >>
        /\ e.dir = t.dir /\ e.off = t.off /\ e.more = t.more /\ e.subdirs = Tail(t.subdirs)
        /\ e.files = t.files /\ f = Head(t.subdirs)
    BY <2>1, <1>2, <1>3, <1>4, <1>5, <1>8
  <2> QED
    BY <2>2, <1>9, <1>10, DirTaken
<1>12. ASSUME NEW h \in FilesUnder(job.root), Plain(h) PROVE seen'[h] <= 1
  BY <1>2, <1>12 DEF Deep
<1>13. ASSUME NEW h \in FilesUnder(job.root), Plain(h), seen'[h] >= 1
       PROVE  f \notin Ancestors(h) /\ seen[h] >= 1
  <2>1. h \in Seq(Nat) /\ f \in Seq(Nat)
    BY <1>7, PathsTyped DEF FilesUnder, TreeInv
  <2>2. seen[h] >= 1
    BY <1>2, <1>13
  <2>3. ~Below(f, h)
    BY <2>2, <1>9, <1>11, <1>13 DEF Once
  <2> QED
    BY <2>1, <2>2, <2>3, BelowIs
<1>14. /\ OwesFiles(n)' \subseteq OwesFiles(n) /\ OwesDirs(n)' \subseteq OwesDirs(n)
       /\ \A h \in OwesFiles(n) : h \in OwesFiles(n)'
       /\ \A g \in OwesDirs(n) : g \in OwesDirs(n)' \/ g = f
       /\ stack'[n].dir = stack[n].dir /\ f \in Kids(stack[n].dir)
       /\ \A g \in AllPaths : seen[g] >= 1 => seen'[g] >= 1
  BY <1>2, <1>3, <1>4, <1>5, <1>8, <1>11
<1> QED
  BY <1>1, <1>2, <1>8, <1>11, <1>12, <1>13, <1>14, DeepPush

\* A directory is left when all that is in it has been seen.
LEMMA DeepLeave ==
  ASSUME TreeInv, Undisturbed, Deep, dirs' = dirs, files' = files, job' = job, Leave
  PROVE  Deep'
<1>1. PICK n : n = Len(stack)
  OBVIOUS
<1>2. /\ Active /\ Framed /\ pc = "items" /\ Top.files = << >> /\ Top.subdirs = << >> /\ ~Top.more
      /\ seen' = seen /\ Pop
  BY DEF TreeInv, Leave, Active, Undisturbed
<1>3. /\ stack \in Seq(FrameTypes) /\ stack # << >> /\ n \in Nat \ {0} /\ Top = stack[n]
  BY <1>1, <1>2, TopTyped
<1>4. /\ stack' \in Seq(FrameTypes) /\ Len(stack') = n - 1
      /\ \A i \in 1..n - 1 : stack'[i] = stack[i]
  <2>1. stack' = Front(stack)
    BY <1>2 DEF Pop
  <2> QED
    BY <2>1, <1>1, <1>3, Popped, SMTT(30)
<1>5. n \in 1..Len(stack) /\ Covers(n)
  <2>1. n \in 1..Len(stack)
    BY <1>1, <1>3
  <2> QED
    BY <2>1, <1>2 DEF Deep
<1>6. OwesFiles(n) = {} /\ OwesDirs(n) = {}
  <2>1. ~Continues(n)
    BY <1>2, <1>3 DEF Continues, Due
  <2>2. Range(<< >>) = {}
    BY DEF Range
  <2> QED
    BY <2>1, <2>2, <1>2, <1>3 DEF OwesFiles, OwesDirs, LaterFiles, LaterDirs
<1>7. PICK d : d = stack[n].dir
  OBVIOUS
<1>8. AllSeen(d)
  <2> SUFFICES ASSUME NEW f \in FilesUnder(d) PROVE seen[f] >= 1
    BY DEF AllSeen
  <2>1. /\ \A g \in ChildFiles(d) : seen[g] >= 1
        /\ \A g \in ChildDirs(d) : AllSeen(g)
    BY <1>1, <1>3, <1>5, <1>6, <1>7 DEF Covers
  <2>2. f \in files /\ f \in Seq(Nat) /\ Ancestors(f) \subseteq dirs /\ d \in Seq(Nat)
    BY <1>2, <1>5, <1>7, OnTheWay DEF FilesUnder, TreeInv, Closed
  <2>3. d \in Ancestors(f)
    BY <2>2, BelowIs DEF FilesUnder
  <2>4. Len(f) \in Nat /\ Len(d) \in 0..Len(f) - 1 /\ d = SubSeq(f, 1, Len(d))
    BY <2>2, <2>3, AncestorsTyped
  <2>5. CASE Len(d) + 1 = Len(f)
    <3>1. Len(d) = Len(f) - 1 /\ f # << >>
      BY <2>2, <2>4, <2>5, EmptySeq
    <3>2. Parent(f) = d
      BY <3>1, <2>4 DEF Parent, Front
    <3> QED
      BY <3>1, <3>2, <2>1, <2>2 DEF ChildFiles
  <2>6. CASE Len(d) + 1 < Len(f)
    <3>1. PICK g \in Ancestors(f) : Len(g) = Len(d) + 1 /\ g # << >> /\ Parent(g) = d
      BY <2>2, <2>3, <2>6, NextDown
    <3>2. g \in ChildDirs(d) /\ g \in Seq(Nat)
      BY <3>1, <2>2 DEF ChildDirs, TreeInv, Closed
    <3>3. Below(g, f)
      BY <3>1, <3>2, <2>2, BelowIs
    <3> QED
      BY <3>2, <3>3, <2>1, <2>2 DEF AllSeen, FilesUnder
  <2> QED
    BY <2>4, <2>5, <2>6
<1>9. ASSUME NEW i \in 1..n - 1 PROVE OnceListed(i)' /\ Covers(i)' /\ Once(i)'
  <2>1. i \in 1..n /\ i # n /\ i < n
    BY <1>3
  <2>2. OnceListed(i) /\ Covers(i) /\ Once(i)
    BY <2>1, <1>1, <1>2 DEF Deep
  <2>3. pc' \in {"items", "done"}
    BY <1>2 DEF Pop
  <2>4. Due(i)' <=> Due(i)
    BY <2>1, <2>3, <1>1 DEF Due
  <2>5. OwesFiles(i)' = OwesFiles(i) /\ OwesDirs(i)' = OwesDirs(i) /\ OnceListed(i)'
    BY <2>2, <2>4, <1>4, FrameKept
  <2>6. \/ i < Len(stack') /\ stack'[i + 1].dir = stack[i + 1].dir
        \/ \A f \in FilesUnder(stack[i + 1].dir) : seen'[f] >= 1
    <3>1. CASE i + 1 = n
      BY <3>1, <1>2, <1>7, <1>8 DEF AllSeen
    <3>2. CASE i + 1 # n
      <4>1. i + 1 \in 1..n - 1 /\ i < n - 1
        BY <3>2, <2>1, <1>3
      <4> QED
        BY <4>1, <1>4
    <3> QED
      BY <3>1, <3>2
  <2>7. Covers(i)'
    <3>1. files \subseteq AllPaths /\ stack'[i].dir = stack[i].dir
      BY <1>4 DEF TreeInv
    <3> QED
      BY <3>1, <2>2, <2>5, <2>6, <1>2, CoversKept
  <2>8. i < Len(stack') => i < Len(stack) /\ stack'[i + 1].dir = stack[i + 1].dir
    <3>1. i < n - 1 => i + 1 \in 1..n - 1 /\ i < n
      BY <2>1, <1>3
    <3> QED
      BY <3>1, <1>1, <1>4
  <2>9. Once(i)'
    BY <2>2, <2>5, <2>8, <1>2, OnceKept
  <2> QED
    BY <2>5, <2>7, <2>9
<1>10. \A h \in FilesUnder(job.root)' : Plain(h)' => seen'[h] <= 1
  <2>1. FilesUnder(job.root)' = FilesUnder(job.root) /\ \A h : Plain(h)' <=> Plain(h)
    BY TreeKept
  <2> QED
    BY <2>1, <1>2 DEF Deep
<1>11. pc' = "done" => AllSeen(job.root)'
  <2> SUFFICES ASSUME pc' = "done" PROVE AllSeen(job.root)'
    OBVIOUS
  <2>1. n = 1
    BY <1>1, <1>2 DEF Pop
  <2>2. d = job.root
    BY <2>1, <1>2, <1>7 DEF Framed
  <2> QED
    BY <2>2, <1>2, <1>8 DEF AllSeen, FilesUnder
<1>12. Active' => \A i \in 1..Len(stack') : OnceListed(i)' /\ Covers(i)' /\ Once(i)'
  BY <1>4, <1>9
<1> QED
  BY <1>10, <1>11, <1>12 DEF Deep

-----------------------------------------------------------------------------
(* A listing of one directory.                                             *)

LEMMA FlatSame ==
  ASSUME TreeInv, Active, Flat, dirs' = dirs, files' = files, job' = job, seen' = seen, pc' # "done",
         OwesFiles(1)' = OwesFiles(1), OwesDirs(1)' = OwesDirs(1), OnceListed(1)'
  PROVE  Flat'
<1>1. /\ \A d : ChildFiles(d)' = ChildFiles(d) /\ ChildDirs(d)' = ChildDirs(d)
      /\ \A d : Virtual(d)' <=> Virtual(d)
  BY TreeKept
<1>2. ChildFiles(job.root)' = ChildFiles(job.root) /\ ChildDirs(job.root)' = ChildDirs(job.root)
  BY DEF ChildFiles, ChildDirs
<1> QED
  BY <1>1, <1>2 DEF Flat

LEMMA OneFrame ==
  ASSUME TreeInv, Active, job.op = "browse"
  PROVE  /\ stack \in Seq(FrameTypes) /\ stack # << >> /\ Len(stack) = 1 /\ Top = stack[1]
         /\ stack[1].dir = job.root /\ 1 \in 1..Len(stack)
<1>1. Framed
  BY DEF TreeInv
<1>2. PICK n : n = Len(stack)
  OBVIOUS
<1>3. /\ stack \in Seq(FrameTypes) /\ stack # << >> /\ Top = stack[n]
  BY <1>1, <1>2, TopTyped
<1>4. n = 1 /\ stack[1].dir = job.root
  BY <1>1, <1>2 DEF Framed
<1> QED
  BY <1>2, <1>3, <1>4

LEMMA FlatPage ==
  ASSUME TreeInv, Undisturbed, job.op = "browse", Flat, dirs' = dirs, files' = files, job' = job,
         Start \/ Page \/ NextPage
  PROVE  Flat'
<1>1. Active /\ seen' = seen /\ pc' # "done"
  BY DEF Start, Page, NextPage, Active
<1>2. PICK n : n = Len(stack)
  OBVIOUS
<1>3. n = 1
  BY <1>1, <1>2, OneFrame
<1>4. OnceListed(n)
  BY <1>1, <1>3 DEF Flat
<1>5. OwesFiles(n)' = OwesFiles(n) /\ OwesDirs(n)' = OwesDirs(n) /\ OnceListed(n)'
  <2>1. CASE Start
    <3>1. stack' = stack /\ pc = "start" /\ pc' = "page"
      BY <2>1 DEF Start
    <3>2. Due(n)' <=> Due(n)
      BY <3>1 DEF Due
    <3> QED
      BY <3>1, <3>2, <1>4, FrameKept
  <2>2. CASE Page
    BY <1>2, <2>2, PageOwes
  <2>3. CASE NextPage
    BY <1>2, <1>4, <2>3, NextOwes
  <2> QED
    BY <2>1, <2>2, <2>3
<1>6. OwesFiles(1)' = OwesFiles(1) /\ OwesDirs(1)' = OwesDirs(1) /\ OnceListed(1)'
  BY <1>3, <1>5
<1> QED
  BY <1>1, <1>6, FlatSame

\* An entry is shown, of which the listing owed one kind only.
LEMMA FlatShow ==
  ASSUME TreeInv, Active, Flat, dirs' = dirs, files' = files, job' = job, pc' # "done",
         NEW f \in AllPaths, See(f), OnceListed(1)', OwesFiles(1)' \subseteq OwesFiles(1),
         OwesDirs(1)' \subseteq OwesDirs(1), f \in OwesFiles(1) \cup OwesDirs(1),
         \A g \in OwesFiles(1) : g \in OwesFiles(1)' \/ g = f,
         \A g \in OwesDirs(1) : g \in OwesDirs(1)' \/ g = f,
         f \in OwesFiles(1)' \cup OwesDirs(1)' => Virtual(f)
  PROVE  Flat'
<1>1. /\ \A d : ChildFiles(d)' = ChildFiles(d) /\ ChildDirs(d)' = ChildDirs(d)
      /\ \A d : Virtual(d)' <=> Virtual(d)
  BY TreeKept
<1>2. ChildFiles(job.root)' = ChildFiles(job.root) /\ ChildDirs(job.root)' = ChildDirs(job.root)
  BY DEF ChildFiles, ChildDirs
<1>3. /\ \A g \in AllPaths : seen[g] \in 0..2 /\ (seen[g] >= 1 => seen'[g] >= 1)
      /\ \A g \in AllPaths : g # f => seen'[g] = seen[g]
      /\ seen'[f] >= 1 /\ (~(seen[f] >= 1) => seen'[f] = 1)
  BY SeenOnceMore
<1>4. \A g \in ChildFiles(job.root) : g \in OwesFiles(1)' \/ seen'[g] >= 1
  <2> SUFFICES ASSUME NEW g \in ChildFiles(job.root) PROVE g \in OwesFiles(1)' \/ seen'[g] >= 1
    OBVIOUS
  <2>1. g \in AllPaths
    BY DEF ChildFiles, TreeInv
  <2>2. g \in OwesFiles(1) \/ seen[g] >= 1
    BY DEF Flat
  <2> QED
    BY <2>1, <2>2, <1>3
<1>5. \A g \in ChildDirs(job.root) : g \in OwesDirs(1)' \/ seen'[g] >= 1
  <2> SUFFICES ASSUME NEW g \in ChildDirs(job.root) PROVE g \in OwesDirs(1)' \/ seen'[g] >= 1
    OBVIOUS
  <2>1. g \in AllPaths
    BY DEF ChildDirs, TreeInv
  <2>2. g \in OwesDirs(1) \/ seen[g] >= 1
    BY DEF Flat
  <2> QED
    BY <2>1, <2>2, <1>3
<1>6. ASSUME NEW g \in AllPaths, ~Virtual(g), seen'[g] >= 1
      PROVE  g \notin OwesFiles(1)' \cup OwesDirs(1)'
  <2>1. CASE g = f
    BY <2>1, <1>6
  <2>2. CASE g # f
    <3>1. seen[g] >= 1
      BY <2>2, <1>3, <1>6
    <3> QED
      BY <3>1, <1>6 DEF Flat
  <2> QED
    BY <2>1, <2>2
<1>7. ASSUME NEW g \in AllPaths, ~Virtual(g) PROVE seen'[g] <= 1
  <2>1. CASE g = f
    <3>1. ~(seen[f] >= 1)
      BY <2>1, <1>7 DEF Flat
    <3> QED
      BY <3>1, <2>1, <1>3
  <2>2. CASE g # f
    BY <2>2, <1>3, <1>7 DEF Flat
  <2> QED
    BY <2>1, <2>2
<1> QED
  BY <1>1, <1>2, <1>4, <1>5, <1>6, <1>7 DEF Flat

LEMMA FlatEntry ==
  ASSUME TreeInv, Flat, dirs' = dirs, files' = files, job' = job, ShowEntry
  PROVE  Flat'
<1>1. Active /\ Framed /\ pc = "items" /\ pc' = "items" /\ job.op = "browse"
  BY DEF TreeInv, ShowEntry, Active
<1>2. /\ stack \in Seq(FrameTypes) /\ stack # << >> /\ Len(stack) = 1 /\ Top = stack[1]
      /\ stack[1].dir = job.root /\ 1 \in 1..Len(stack)
  BY <1>1, OneFrame
<1>3. OnceListed(1)
  BY <1>1 DEF Flat
<1>4. PICK t : t = Top
  OBVIOUS
<1>5. t.files \in Seq(Kids(t.dir)) /\ t.subdirs \in Seq(Kids(t.dir))
  BY <1>1, <1>4, TopTyped
<1>6. OwesFiles(1) \subseteq files /\ OwesDirs(1) \subseteq dirs
  BY <1>2, <1>3, OwesAre DEF ChildFiles, ChildDirs
<1>7. PICK K : K = Kids(t.dir)
  OBVIOUS
<1>8. ASSUME NEW e \in FrameTypes, stack' = [stack EXCEPT ![Len(stack)] = e]
      PROVE  stack[1] = t /\ stack'[1] = e /\ ~Due(1) /\ ~Due(1)'
  <2>1. stack'[1] = e
    BY <1>2, <1>8, Replaced
  <2> QED
    BY <2>1, <1>1, <1>2, <1>4 DEF Due
<1>9. CASE t.files # << >>
  <2>1. PICK f : f = Head(t.files)
    OBVIOUS
  <2>2. See(f) /\ SetTop([Top EXCEPT !.files = Tail(@)])
    BY <2>1, <1>4, <1>9 DEF ShowEntry
  <2>3. PICK e : /\ e \in FrameTypes /\ e.dir = t.dir /\ e.off = t.off /\ e.files = Tail(t.files)
                 /\ e.subdirs = t.subdirs /\ e.more = t.more /\ f \in Kids(t.dir)
                 /\ stack' = [stack EXCEPT ![Len(stack)] = e]
    BY <2>1, <2>2, <1>1, <1>4, <1>9, EntryTaken
  <2>4. /\ stack[1] = t /\ stack'[1] = e /\ ~Due(1) /\ ~Due(1)'
    BY <2>3, <1>8
  <2>5. t.files \in Seq(K)
    BY <1>5, <1>7
  <2>6. /\ OnceListed(1)' /\ OwesDirs(1)' = OwesDirs(1) /\ f \in files
        /\ f \in OwesFiles(1) /\ OwesFiles(1) = OwesFiles(1)' \cup {f} /\ f \notin OwesFiles(1)'
    BY <2>1, <2>3, <2>4, <2>5, <1>3, <1>9, FileTaken
  <2>7. f \in OwesFiles(1)' \cup OwesDirs(1)' => Virtual(f)
    BY <2>6, <1>6 DEF Virtual
  <2>8. f \in AllPaths
    BY <2>3 DEF Kids
  <2> QED
    BY <2>2, <2>6, <2>7, <2>8, <1>1, FlatShow
<1>10. CASE t.files = << >>
  <2>1. PICK f : f = Head(t.subdirs)
    OBVIOUS
  <2>2. See(f) /\ SetTop([Top EXCEPT !.subdirs = Tail(@)]) /\ t.subdirs # << >>
    BY <2>1, <1>4, <1>10 DEF ShowEntry
  <2>3. PICK e : /\ e \in FrameTypes /\ e.dir = t.dir /\ e.off = t.off /\ e.files = t.files
                 /\ e.subdirs = Tail(t.subdirs) /\ e.more = t.more /\ f \in Kids(t.dir)
                 /\ stack' = [stack EXCEPT ![Len(stack)] = e]
    BY <2>1, <2>2, <1>1, <1>4, EntryTaken
  <2>4. /\ stack[1] = t /\ stack'[1] = e /\ ~Due(1) /\ ~Due(1)'
    BY <2>3, <1>8
  <2>5. t.subdirs \in Seq(K)
    BY <1>5, <1>7
  <2>6. /\ OnceListed(1)' /\ OwesFiles(1)' = OwesFiles(1) /\ f \in dirs
        /\ f \in OwesDirs(1) /\ OwesDirs(1) = OwesDirs(1)' \cup {f} /\ f \notin OwesDirs(1)'
    BY <2>1, <2>2, <2>3, <2>4, <2>5, <1>3, DirTaken
  <2>7. f \in OwesFiles(1)' \cup OwesDirs(1)' => Virtual(f)
    BY <2>6, <1>6 DEF Virtual
  <2>8. f \in AllPaths
    BY <2>3 DEF Kids
  <2> QED
    BY <2>2, <2>6, <2>7, <2>8, <1>1, FlatShow
<1> QED
  BY <1>9, <1>10

LEMMA FlatLeave ==
  ASSUME TreeInv, job.op = "browse", Flat, dirs' = dirs, files' = files, job' = job, Leave
  PROVE  Flat'
<1>1. /\ Active /\ Top.files = << >> /\ Top.subdirs = << >> /\ ~Top.more /\ pc = "items"
      /\ seen' = seen /\ Pop
  BY DEF Leave, Active
<1>2. Len(stack) = 1 /\ Top = stack[1]
  BY <1>1, OneFrame
<1>3. pc' = "done"
  BY <1>1, <1>2 DEF Pop
<1>4. OwesFiles(1) = {} /\ OwesDirs(1) = {}
  <2>1. ~Continues(1)
    BY <1>1, <1>2 DEF Continues, Due
  <2>2. Range(<< >>) = {}
    BY DEF Range
  <2> QED
    BY <2>1, <2>2, <1>1, <1>2 DEF OwesFiles, OwesDirs, LaterFiles, LaterDirs
<1>5. /\ \A f \in ChildFiles(job.root) : seen[f] >= 1
      /\ \A g \in ChildDirs(job.root) : seen[g] >= 1
  BY <1>1, <1>4 DEF Flat
<1>6. \A d : Virtual(d)' <=> Virtual(d)
  BY TreeKept
<1>7. ChildFiles(job.root)' = ChildFiles(job.root) /\ ChildDirs(job.root)' = ChildDirs(job.root)
  BY DEF ChildFiles, ChildDirs
<1> QED
  BY <1>1, <1>3, <1>5, <1>6, <1>7 DEF Flat, Active

-----------------------------------------------------------------------------
(* A walk that nobody interferes with.                                     *)

LEMMA WalkInit == Init => WalkInv
<1> SUFFICES ASSUME Init PROVE WalkInv
  OBVIOUS
<1>1. TreeInv /\ Active /\ pc = "start"
  BY TreeInit DEF Init, Active
<1>2. PICK f : f = Frame(job.root)
  OBVIOUS
<1>3. Len(stack) = 1 /\ stack[1] = f
  <2>1. stack = <<f>>
    BY <1>2 DEF Init
  <2> QED
    BY <2>1
<1>4. \A g \in AllPaths : seen[g] = 0
  BY DEF Init
<1>5. /\ f.dir = job.root /\ f.off = 0 /\ f.files = << >> /\ f.subdirs = << >>
      /\ Range(<< >>) = {} /\ IsInjective(<< >>)
  BY <1>2 DEF Frame, Range, IsInjective
<1>6. Continues(1) /\ NextOff(1) = 0
  BY <1>1, <1>3, <1>5 DEF Continues, Due, NextOff
<1>7. LaterFiles(1) = ChildFiles(job.root) /\ LaterDirs(1) = ChildDirs(job.root)
  BY <1>1, <1>3, <1>5, <1>6, ChildrenListed DEF LaterFiles, LaterDirs
<1>8. OwesFiles(1) = ChildFiles(job.root) /\ OwesDirs(1) = ChildDirs(job.root)
  BY <1>3, <1>5, <1>7 DEF OwesFiles, OwesDirs
<1>9. OnceListed(1)
  BY <1>3, <1>5 DEF OnceListed
<1>10. Flat
  BY <1>1, <1>4, <1>8, <1>9 DEF Flat
<1>11. Covers(1)
  BY <1>3, <1>5, <1>8 DEF Covers
<1>12. \A h \in FilesUnder(job.root) : h \in AllPaths /\ seen[h] = 0
  BY <1>1, <1>4 DEF FilesUnder, TreeInv
<1>13. Once(1)
  BY <1>3, <1>12 DEF Once
<1>14. Deep
  <2>1. \A i \in 1..Len(stack) : i = 1
    BY <1>3
  <2> QED
    BY <2>1, <1>1, <1>9, <1>11, <1>12, <1>13 DEF Deep
<1> QED
  BY <1>10, <1>14 DEF WalkInv, Untouched, Init

\* A step in which the walk does nothing.
LEMMA WalkRests ==
  ASSUME TreeInv, dirs' = dirs, files' = files, UNCHANGED walk
  PROVE  /\ Deep => Deep'
         /\ job.op = "browse" /\ Flat => Flat'
<1>1. job' = job /\ pc' = pc /\ stack' = stack /\ seen' = seen
  BY DEF walk
<1>2. \A i : Due(i)' <=> Due(i)
  BY <1>1 DEF Due
<1>3. Active' <=> Active
  BY <1>1 DEF Active
<1>4. /\ \A d : ChildFiles(d)' = ChildFiles(d) /\ ChildDirs(d)' = ChildDirs(d)
      /\ \A d : FilesUnder(d)' = FilesUnder(d)
      /\ \A d : (Virtual(d)' <=> Virtual(d)) /\ (Plain(d)' <=> Plain(d))
      /\ FilesUnder(job.root)' = FilesUnder(job.root)
  BY <1>1, TreeKept
<1>5. ASSUME Deep PROVE Deep'
  <2>1. CASE Active
    <3>1. PICK n : n = Len(stack)
      OBVIOUS
    <3>2. n \in 1..Len(stack)
      BY <2>1, <3>1, TopTyped DEF TreeInv
    <3>3. OnceListed(n)
      BY <2>1, <3>2, <1>5 DEF Deep
    <3>4. OwesFiles(n)' = OwesFiles(n) /\ OwesDirs(n)' = OwesDirs(n) /\ OnceListed(n)'
      BY <3>3, <1>1, <1>2, FrameKept
    <3>5. pc' # "done"
      BY <2>1, <1>1 DEF Active
    <3> QED
      BY <2>1, <3>1, <3>4, <3>5, <1>1, <1>5, DeepSame
  <2>2. CASE ~Active
    <3>1. \A h \in FilesUnder(job.root)' : Plain(h)' => seen'[h] <= 1
      BY <1>1, <1>4, <1>5 DEF Deep
    <3>2. pc' = "done" => AllSeen(job.root)'
      BY <1>1, <1>4, <1>5 DEF Deep, AllSeen
    <3> QED
      BY <2>2, <3>1, <3>2, <1>3 DEF Deep
  <2> QED
    BY <2>1, <2>2
<1>6. ASSUME job.op = "browse", Flat PROVE Flat'
  <2>1. CASE Active
    <3>1. OnceListed(1)
      BY <2>1, <1>6 DEF Flat
    <3>2. OwesFiles(1)' = OwesFiles(1) /\ OwesDirs(1)' = OwesDirs(1) /\ OnceListed(1)'
      BY <3>1, <1>1, <1>2, FrameKept
    <3>3. pc' # "done"
      BY <2>1, <1>1 DEF Active
    <3> QED
      BY <2>1, <3>2, <3>3, <1>1, <1>6, FlatSame
  <2>2. CASE ~Active
    <3>1. ChildFiles(job.root)' = ChildFiles(job.root) /\ ChildDirs(job.root)' = ChildDirs(job.root)
      BY <1>1 DEF ChildFiles, ChildDirs
    <3> QED
      BY <2>2, <3>1, <1>1, <1>3, <1>4, <1>6 DEF Flat
  <2> QED
    BY <2>1, <2>2
<1> QED
  BY <1>5, <1>6

LEMMA WalkStep == TreeInv /\ WalkInv /\ [Next]_vars => WalkInv'
<1> SUFFICES ASSUME TreeInv, WalkInv, [Next]_vars PROVE WalkInv'
  OBVIOUS
<1>1. /\ Untouched' /\ job' = job /\ (~edited' => ~edited)
      /\ ~edited' /\ job.op \in {"list", "browse", "copy"} =>
           /\ dirs' = dirs /\ files' = files
           /\ Start \/ Page \/ VisitFile \/ ShowEntry \/ Descend \/ NextPage \/ Leave \/ UNCHANGED walk
  BY WalkGoesOn DEF WalkInv
<1> SUFFICES ASSUME Undisturbed' PROVE IF job.op = "browse" THEN Flat' ELSE Deep'
  BY <1>1 DEF WalkInv
<1>2. /\ ~edited' /\ job.op \in {"list", "browse", "copy"} /\ dirs' = dirs /\ files' = files
      /\ Start \/ Page \/ VisitFile \/ ShowEntry \/ Descend \/ NextPage \/ Leave \/ UNCHANGED walk
  BY <1>1 DEF Undisturbed
<1>3. Undisturbed
  <2>1. Under(job.root)' = Under(job.root)
    BY <1>1, <1>2 DEF Under
  <2>2. \A d : (OnePage(d)' <=> OnePage(d)) /\ (OneKind(d)' <=> OneKind(d))
    BY <1>2 DEF OnePage, OneKind, ChildDirs, ChildFiles
  <2> QED
    BY <2>1, <2>2, <1>1, <1>2 DEF Undisturbed
<1>4. CASE job.op = "browse"
  <2>1. Flat
    BY <1>3, <1>4 DEF WalkInv
  <2>2. ~VisitFile /\ ~Descend
    BY <1>4 DEF VisitFile, Descend
  <2>3. CASE Start \/ Page \/ NextPage
    BY <2>1, <2>3, <1>1, <1>2, <1>3, <1>4, FlatPage
  <2>4. CASE ShowEntry
    BY <2>1, <2>4, <1>1, <1>2, <1>4, FlatEntry
  <2>5. CASE Leave
    BY <2>1, <2>5, <1>1, <1>2, <1>4, FlatLeave
  <2>6. CASE UNCHANGED walk
    BY <2>1, <2>6, <1>2, <1>4, WalkRests
  <2> QED
    BY <2>2, <2>3, <2>4, <2>5, <2>6, <1>2, <1>4
<1>5. CASE job.op # "browse"
  <2>1. Deep
    BY <1>3, <1>5 DEF WalkInv
  <2>2. ~ShowEntry
    BY <1>5 DEF ShowEntry
  <2>3. CASE Start
    BY <2>1, <2>3, <1>1, <1>2, <1>3, <1>5, DeepStart
  <2>4. CASE Page \/ NextPage
    BY <2>1, <2>4, <1>1, <1>2, <1>3, <1>5, DeepPage
  <2>5. CASE VisitFile
    BY <2>1, <2>5, <1>1, <1>2, <1>3, <1>5, DeepVisit
  <2>6. CASE Descend
    BY <2>1, <2>6, <1>1, <1>2, <1>3, <1>5, DeepDescend
  <2>7. CASE Leave
    BY <2>1, <2>7, <1>1, <1>2, <1>3, <1>5, DeepLeave
  <2>8. CASE UNCHANGED walk
    BY <2>1, <2>8, <1>2, <1>5, WalkRests
  <2> QED
    BY <2>2, <2>3, <2>4, <2>5, <2>6, <2>7, <2>8, <1>2, <1>5
<1> QED
  BY <1>4, <1>5

LEMMA WalkCovers == TreeInv /\ WalkInv => NothingSkipped
<1> SUFFICES ASSUME TreeInv, WalkInv, pc = "done", Undisturbed
             PROVE  \A f \in Wanted :
                      /\ seen[f] >= 1
                      /\ seen[f] > 1 => \E d \in Under(job.root) : Virtual(d) /\ (d = f \/ Below(d, f))
  BY DEF NothingSkipped, Undisturbed
<1>1. \A f \in AllPaths : seen[f] \in 0..2
  BY DEF TreeInv
<1>2. CASE job.op = "browse"
  <2>1. Flat /\ Wanted = ChildDirs(job.root) \cup ChildFiles(job.root)
    BY <1>2 DEF WalkInv, Wanted
  <2> SUFFICES ASSUME NEW f \in ChildDirs(job.root) \cup ChildFiles(job.root)
               PROVE  /\ seen[f] >= 1
                      /\ seen[f] > 1 => \E d \in Under(job.root) : Virtual(d) /\ (d = f \/ Below(d, f))
    BY <2>1
  <2>2. f \in AllPaths /\ f \in Kids(job.root)
    BY DEF ChildDirs, ChildFiles, Kids, TreeInv
  <2>3. seen[f] >= 1
    BY <2>1 DEF Flat
  <2>4. ASSUME seen[f] > 1 PROVE Virtual(f)
    <3>1. ~Virtual(f) => seen[f] <= 1
      BY <2>1, <2>2 DEF Flat
    <3> QED
      BY <3>1, <2>2, <2>4, <1>1
  <2>5. Below(job.root, f)
    <3>1. f \in Seq(Nat) /\ job.root \in Seq(Nat) /\ job.root \in Ancestors(f)
      BY <2>2, KidsOf
    <3> QED
      BY <3>1, BelowIs
  <2>6. Virtual(f) => f \in Under(job.root)
    BY <2>5 DEF Virtual, Under
  <2> QED
    BY <2>3, <2>4, <2>6
<1>3. CASE job.op # "browse"
  <2>1. Deep /\ Wanted = FilesUnder(job.root)
    BY <1>3 DEF WalkInv, Wanted
  <2> SUFFICES ASSUME NEW f \in FilesUnder(job.root)
               PROVE  /\ seen[f] >= 1
                      /\ seen[f] > 1 => \E d \in Under(job.root) : Virtual(d) /\ (d = f \/ Below(d, f))
    BY <2>1
  <2>2. f \in AllPaths
    BY DEF FilesUnder, TreeInv
  <2>3. seen[f] >= 1
    BY <2>1 DEF Deep, AllSeen
  <2>4. ASSUME seen[f] > 1 PROVE ~Plain(f)
    <3>1. Plain(f) => seen[f] <= 1
      BY <2>1 DEF Deep
    <3> QED
      BY <3>1, <2>2, <2>4, <1>1
  <2> QED
    BY <2>3, <2>4 DEF Plain
<1> QED
  BY <1>2, <1>3

\* NothingSkipped: a copy, a recursive download and `cask ls` that nobody interferes
\* with handle every entry they are meant to, and no entry twice unless a directory on
\* the way to it is also a file, whatever the tree and the sizes of the pages.
THEOREM WalksCover == Spec => []NothingSkipped
<1>1. Spec => []TreeInv
  BY TreeInvariant
<1>2. Init => WalkInv
  BY WalkInit
<1>3. TreeInv /\ WalkInv /\ [Next]_vars => WalkInv'
  BY WalkStep
<1>4. TreeInv /\ WalkInv => NothingSkipped
  BY WalkCovers
<1> QED
  BY <1>1, <1>2, <1>3, <1>4, PTL DEF Spec
-----------------------------------------------------------------------------
(* What the handler of a request knows and has done at each of its steps.  *)

Verbs == {"GET", "WRITE", "DELETE", "COPY", "LIST"}
StepsOf(verb) ==
  CASE verb = "GET" -> {"get", "read", "exists"}
    [] verb = "WRITE" -> {"client", "lock", "upload", "stuck", "store"}
    [] verb = "COPY" -> {"copy", "copyFile", "client", "lock", "store", "dlook", "dlock"}
    [] verb = "DELETE" -> {"invalid", "dlook", "dlock"}
    [] verb = "LIST" -> {"list", "isFile"}

Bounds == Nat \cup {Absent}
RequestTypes ==
  [verb : Verbs, path : Paths, valid : BOOLEAN, range : [from : Bounds, to : Bounds],
   tag : Contents \cup {Absent}, meta : BOOLEAN, content : Contents \cup {Absent},
   hash : BOOLEAN, replace : BOOLEAN, soft : BOOLEAN, dest : Paths, move : BOOLEAN]
Proper(r) ==
  /\ r \in RequestTypes /\ r # Absent
  /\ r.verb = "WRITE" => r.content \in Contents
  /\ ~r.valid => r.verb = "DELETE"
  /\ r.move => r.verb = "COPY"
TargetOf(r) == IF r.verb = "COPY" THEN r.dest ELSE r.path

\* The file that is read, and the range of it that there is.
Reads(r, content) ==
  /\ content \in Contents /\ ~r.meta
  /\ r.range # H!NoRange => ~H!Unsatisfiable(H!Parsed(r.range, Size[content]), Size[content])

\* Of a request that is served: what it has found is or was there, a delete that
\* is late has seen the file go, and the delete of a move comes after the copy.
Serving(step, r, content, was, done) ==
  /\ step \in StepsOf(r.verb)
  /\ step = "exists" => Absent \in was
  /\ step = "read" => content \in was /\ Reads(r, content)
  /\ step = "store" \/ (step \in {"client", "lock"} /\ r.verb = "COPY") => content \in Contents
  /\ step = "store" /\ r.verb = "WRITE" => content = r.content
  /\ step \notin {"dlook", "dlock"} => done = {}
  /\ step = "dlook" => "late" \notin done
  /\ step \in {"dlook", "dlock"} /\ r.verb = "DELETE" =>
       done \subseteq {"late"} /\ (done # {} => Absent \in was)
  /\ step \in {"dlook", "dlock"} /\ r.verb = "COPY" => r.move /\ done \ {"late"} = {"wrote"}

\* Of one that has been answered: the answer is true.
Truthful(r, answer, was, done) ==
  /\ r.verb = "GET" => H!GetTruthful(r, answer, was)
  /\ H!ChangeTruthful(r, answer, done, was)

ClientInv(c) ==
  /\ handler[c] # "idle" =>
       /\ Proper(req[c]) /\ now[TargetOf(req[c])] \in ever[c]
       /\ Serving(handler[c], req[c], found[c], ever[c], did[c])
  /\ handler[c] = "idle" /\ reply[c] # Absent => Truthful(req[c], reply[c], ever[c], did[c])

HttpInv ==
  /\ H!TypeOK
  /\ handler = [c \in Clients |-> handler[c]] /\ req = [c \in Clients |-> req[c]]
  /\ reply = [c \in Clients |-> reply[c]]
  /\ \A c \in Clients : ClientInv(c)

-----------------------------------------------------------------------------
(* Requests and ranges.                                                    *)

LEMMA RequestsProper == \A m \in Methods : Proper(H!Request(m))
<1> SUFFICES ASSUME NEW m \in Methods PROVE Proper(H!Request(m))
  OBVIOUS
<1>0. H!Request(m) # Absent
  BY HttpAssumption DEF HttpAssumption
<1>1. PICK p : p = m[2] /\ p \in Paths
  BY HttpAssumption DEF HttpAssumption
<1>2. PICK r : r = H!Ask("GET", p)
  OBVIOUS
<1> DEFINE Asked(v) == H!Ask(v, p)
<1>3. \A v \in Verbs : Asked(v) \in RequestTypes
  BY <1>1 DEF H!Ask, H!NoRange, RequestTypes, Bounds, Verbs
<1>4. \A v \in Verbs : Asked(v).verb = v /\ Asked(v).valid /\ ~Asked(v).move
  BY DEF H!Ask
<1> HIDE DEF Asked
<1>5. CASE m[1] = "read"
  <2>1. H!Request(m) = [Asked("GET") EXCEPT !.range = [from |-> m[3], to |-> m[4]]]
    BY <1>1, <1>5 DEF H!Request, H!Read, Asked
  <2>2. m[3] \in Bounds /\ m[4] \in Bounds
    BY <1>5, HttpAssumption DEF HttpAssumption, Bounds
  <2> QED
    BY <2>1, <2>2, <1>0, <1>3, <1>4 DEF Proper, RequestTypes, Verbs
<1>6. CASE m[1] = "metadata"
  <2>1. H!Request(m) = [Asked("GET") EXCEPT !.meta = TRUE]
    BY <1>1, <1>6 DEF H!Request, H!Metadata, Asked
  <2> QED
    BY <2>1, <1>0, <1>3, <1>4 DEF Proper, RequestTypes, Verbs
<1>7. CASE m[1] = "ls"
  <2>1. H!Request(m) = Asked("LIST")
    BY <1>1, <1>7 DEF H!Request, H!Ls, Asked
  <2> QED
    BY <2>1, <1>0, <1>3, <1>4 DEF Proper, RequestTypes, Verbs
<1>8. CASE m[1] = "malformed"
  <2>1. H!Request(m) = [[Asked("DELETE") EXCEPT !.soft = FALSE] EXCEPT !.valid = FALSE]
    BY <1>1, <1>8 DEF H!Request, H!Malformed, H!Delete, Asked
  <2> QED
    BY <2>1, <1>0, <1>3, <1>4, ZenonT(30) DEF Proper, RequestTypes, Verbs
<1>9. CASE m[1] = "ifNoneMatch"
  <2>1. H!Request(m) = [Asked("GET") EXCEPT !.tag = m[3]]
    BY <1>1, <1>9 DEF H!Request, H!IfNoneMatch, Asked
  <2>2. m[3] \in Contents
    BY <1>9, HttpAssumption DEF HttpAssumption
  <2> QED
    BY <2>1, <2>2, <1>0, <1>3, <1>4 DEF Proper, RequestTypes, Verbs
<1>10. CASE m[1] = "writeHash"
  <2>1. H!Request(m) =
          [[Asked("WRITE") EXCEPT !.content = m[3], !.replace = TRUE] EXCEPT !.hash = TRUE]
    BY <1>1, <1>10 DEF H!Request, H!WriteHash, H!Write, Asked
  <2>2. m[3] \in Contents
    BY <1>10, HttpAssumption DEF HttpAssumption
  <2> QED
    BY <2>1, <2>2, <1>0, <1>3, <1>4, ZenonT(30) DEF Proper, RequestTypes, Verbs
<1>11. CASE m[1] = "write"
  <2>1. H!Request(m) = [Asked("WRITE") EXCEPT !.content = m[3], !.replace = m[4]]
    BY <1>1, <1>11 DEF H!Request, H!Write, Asked
  <2>2. m[3] \in Contents /\ m[4] \in BOOLEAN
    BY <1>11, HttpAssumption DEF HttpAssumption
  <2> QED
    BY <2>1, <2>2, <1>0, <1>3, <1>4, ZenonT(30) DEF Proper, RequestTypes, Verbs
<1>12. CASE m[1] = "delete"
  <2>1. H!Request(m) = [Asked("DELETE") EXCEPT !.soft = m[3]]
    BY <1>1, <1>12 DEF H!Request, H!Delete, Asked
  <2>2. m[3] \in BOOLEAN
    BY <1>12, HttpAssumption DEF HttpAssumption
  <2> QED
    BY <2>1, <2>2, <1>0, <1>3, <1>4 DEF Proper, RequestTypes, Verbs
<1>13. CASE m[1] = "copy"
  <2>1. H!Request(m) = [Asked("COPY") EXCEPT !.dest = m[3], !.replace = m[4], !.move = m[5]]
    BY <1>1, <1>13 DEF H!Request, H!Copy, Asked
  <2>2. m[3] \in Paths /\ m[4] \in BOOLEAN /\ m[5] \in BOOLEAN
    BY <1>13, HttpAssumption DEF HttpAssumption
  <2> QED
    BY <2>1, <2>2, <1>0, <1>3, <1>4, ZenonT(30) DEF Proper, RequestTypes, Verbs
<1> QED
  BY <1>5, <1>6, <1>7, <1>8, <1>9, <1>10, <1>11, <1>12, <1>13, HttpAssumption DEF HttpAssumption

\* parseRangeHeader() (fs.js:13): a range that it refuses asks for nothing, and of
\* one that it grants the bytes are those asked for, none of them past the end.
LEMMA RangesAsWanted ==
  ASSUME NEW r \in [from : Bounds, to : Bounds], r # H!NoRange, NEW size \in Nat,
         NEW q, q = H!Parsed(r, size)
  PROVE  /\ H!Unsatisfiable(q, size) => H!Wanted(r, size) = {}
         /\ ~H!Unsatisfiable(q, size) =>
              /\ H!Wanted(r, size) = H!Cut(q, size).from..H!Cut(q, size).to
              /\ H!Smaller(H!Cut(q, size).to, size - 1) = H!Cut(q, size).to
<1>1. r.from \in Bounds /\ r.to \in Bounds /\ ~(r.from = Absent /\ r.to = Absent)
  BY DEF H!NoRange
<1>2. Absent \notin Nat
  BY HttpAssumption DEF HttpAssumption
<1>3. CASE r.from = Absent /\ r.to = 0
  <2>1. q = [from |-> 0, to |-> -1]
    BY <1>3 DEF H!Parsed, H!Unsupported
  <2> QED
    BY <2>1, <1>3 DEF H!Unsatisfiable, H!Wanted
<1>4. CASE r.from = Absent /\ r.to # 0
  <2>1. r.to \in Nat /\ q = [from |-> H!Suffix(size, r.to), to |-> size - 1]
    BY <1>4, <1>1 DEF H!Parsed, Bounds
  <2> QED
    BY <2>1, <1>4 DEF H!Unsatisfiable, H!Wanted, H!Cut, H!Smaller, H!Suffix
<1>5. CASE r.from # Absent /\ r.to = Absent
  <2>1. r.from \in Nat /\ q = [from |-> r.from, to |-> size - 1]
    BY <1>5, <1>1 DEF H!Parsed, Bounds
  <2> QED
    BY <2>1, <1>5, <1>2 DEF H!Unsatisfiable, H!Wanted, H!Cut, H!Smaller
<1>6. CASE r.from # Absent /\ r.to # Absent
  <2>1. r.from \in Nat /\ r.to \in Nat /\ q = r
    BY <1>6, <1>1 DEF H!Parsed, Bounds
  <2> QED
    BY <2>1, <1>6, <1>2 DEF H!Unsatisfiable, H!Wanted, H!Cut, H!Smaller
<1> QED
  BY <1>3, <1>4, <1>5, <1>6

-----------------------------------------------------------------------------
(* The steps of a request.                                                 *)

LEMMA HttpInitial == H!Init => HttpInv
<1> SUFFICES ASSUME H!Init PROVE HttpInv
  OBVIOUS
<1>1. now \in [Paths -> Contents \cup {Absent}] /\ stored \subseteq Contents
  BY HttpAssumption DEF HttpAssumption, H!Init
<1>2. parents \subseteq Paths
  BY HttpAssumption DEF HttpAssumption, H!Init
<1>3. calls \in 0..MaxCalls /\ lock \in [Paths -> Clients \cup {Absent}]
  BY HttpAssumption DEF HttpAssumption, H!Init
<1>4. H!TypeOK
  BY <1>1, <1>2, <1>3 DEF H!Init, H!TypeOK
<1> QED
  BY <1>4 DEF H!Init, HttpInv, ClientInv

\* A client that does nothing, while another may change the file it asks about or
\* delete what it is about to delete.
LEMMA StandsBy ==
  ASSUME HttpInv, NEW d \in Clients,
         handler'[d] = handler[d], req'[d] = req[d], found'[d] = found[d], reply'[d] = reply[d],
         parents \subseteq parents',
         handler[d] = "idle" => ever'[d] = ever[d] /\ did'[d] = did[d],
         handler[d] # "idle" =>
           /\ ever[d] \subseteq ever'[d] /\ now'[TargetOf(req[d])] \in ever'[d]
           /\ \/ did'[d] = did[d]
              \/ /\ handler[d] = "dlock" /\ did'[d] = did[d] \cup {"late"}
                 /\ req[d].verb = "DELETE" => Absent \in ever'[d]
  PROVE  ClientInv(d)'
<1>1. CASE handler[d] = "idle"
  <2> SUFFICES ASSUME reply[d] # Absent PROVE Truthful(req[d], reply[d], ever[d], did[d])'
    BY <1>1 DEF ClientInv
  <2>1. PICK r, a, e, x : r = req[d] /\ a = reply[d] /\ e = ever[d] /\ x = did[d]
    OBVIOUS
  <2>2. Truthful(r, a, e, x)
    BY <1>1, <2>1 DEF HttpInv, ClientInv
  <2>3. Truthful(r, a, e, x)'
    BY <2>2 DEF Truthful, H!GetTruthful, H!ChangeTruthful
  <2> QED
    BY <1>1, <2>1, <2>3 DEF Truthful, H!GetTruthful, H!ChangeTruthful
<1>2. CASE handler[d] # "idle"
  <2>1. PICK s, r, f, e, x, y, z :
          /\ s = handler[d] /\ r = req[d] /\ f = found[d] /\ e = ever[d] /\ x = did[d]
          /\ y = ever'[d] /\ z = did'[d]
    OBVIOUS
  <2>2. Proper(r) /\ Serving(s, r, f, e, x)
    BY <1>2, <2>1 DEF HttpInv, ClientInv
  <2>3. e \subseteq y /\ (z = x \/ (s = "dlock" /\ z = x \cup {"late"} /\ (r.verb = "DELETE" => Absent \in y)))
    BY <1>2, <2>1
  <2>4. Serving(s, r, f, y, z)
    BY <2>2, <2>3 DEF Serving
  <2>5. now'[TargetOf(r)] \in y
    BY <1>2, <2>1
  <2> QED
    BY <1>2, <2>1, <2>2, <2>4, <2>5 DEF ClientInv, Proper, Serving, TargetOf, Reads
<1> QED
  BY <1>1, <1>2

\* A step that changes no file.
LEMMA Quiet ==
  ASSUME HttpInv, NEW c \in Clients, handler[c] # "idle", NEW step, NEW content, NEW answer,
         handler' = [handler EXCEPT ![c] = step], reply' = [reply EXCEPT ![c] = answer],
         found' = [found EXCEPT ![c] = content], content \in Contents \cup {Absent},
         lock' \in [Paths -> Clients \cup {Absent}],
         UNCHANGED <<now, parents, stored, req, did, ever, calls>>,
         step # "idle" => Serving(step, req[c], content, ever[c], did[c]),
         step = "idle" => Truthful(req[c], answer, ever[c], did[c])
  PROVE  HttpInv'
<1>1. H!TypeOK' /\ handler' = [d \in Clients |-> handler'[d]] /\ req' = [d \in Clients |-> req'[d]]
      /\ reply' = [d \in Clients |-> reply'[d]]
  BY DEF HttpInv, H!TypeOK
<1>2. ASSUME NEW d \in Clients \ {c} PROVE ClientInv(d)'
  <2>1. handler'[d] = handler[d] /\ req'[d] = req[d] /\ found'[d] = found[d] /\ reply'[d] = reply[d]
    BY DEF HttpInv, H!TypeOK
  <2>2. handler[d] # "idle" => now[TargetOf(req[d])] \in ever[d]
    BY DEF HttpInv, ClientInv
  <2> QED
    BY <2>1, <2>2, StandsBy
<1>3. ClientInv(c)'
  <2>1. handler'[c] = step /\ reply'[c] = answer /\ found'[c] = content
    BY DEF HttpInv, H!TypeOK
  <2>2. Proper(req[c]) /\ now[TargetOf(req[c])] \in ever[c]
    BY DEF HttpInv, ClientInv
  <2>3. PICK r, e, x : r = req[c] /\ e = ever[c] /\ x = did[c]
    OBVIOUS
  <2>4. CASE step = "idle"
    <3>1. Truthful(r, answer, e, x)
      BY <2>3, <2>4
    <3>2. Truthful(r, answer, e, x)'
      BY <3>1 DEF Truthful, H!GetTruthful, H!ChangeTruthful
    <3> QED
      BY <2>1, <2>3, <2>4, <3>2 DEF ClientInv, Truthful, H!GetTruthful, H!ChangeTruthful
  <2>5. CASE step # "idle"
    BY <2>1, <2>2, <2>5 DEF ClientInv, Proper, Serving, TargetOf, Reads
  <2> QED
    BY <2>4, <2>5
<1> QED
  BY <1>1, <1>2, <1>3 DEF HttpInv

\* The same, with the types that the cases need.
LEMMA ClientTyped ==
  ASSUME HttpInv, NEW c \in Clients
  PROVE  /\ handler = [handler EXCEPT ![c] = handler[c]] /\ reply = [reply EXCEPT ![c] = reply[c]]
         /\ found = [found EXCEPT ![c] = found[c]] /\ found[c] \in Contents \cup {Absent}
         /\ lock \in [Paths -> Clients \cup {Absent}] /\ H!Unlocked(c) \in [Paths -> Clients \cup {Absent}]
         /\ \A p \in Paths : now[p] \in Contents \cup {Absent}
         /\ handler[c] # "idle" =>
              /\ Proper(req[c]) /\ now[TargetOf(req[c])] \in ever[c]
              /\ Serving(handler[c], req[c], found[c], ever[c], did[c])
              /\ req[c].path \in Paths /\ req[c].dest \in Paths /\ TargetOf(req[c]) \in Paths
              /\ req[c].verb # "COPY" => TargetOf(req[c]) = req[c].path
         /\ H!Target(c) = TargetOf(req[c])
<1>1. H!Target(c) = TargetOf(req[c])
  BY DEF H!Target, TargetOf
<1>2. handler[c] # "idle" =>
              /\ Proper(req[c]) /\ now[TargetOf(req[c])] \in ever[c]
              /\ Serving(handler[c], req[c], found[c], ever[c], did[c])
  BY DEF HttpInv, ClientInv
<1>3. Proper(req[c]) => req[c].path \in Paths /\ req[c].dest \in Paths /\ TargetOf(req[c]) \in Paths
                        /\ (req[c].verb # "COPY" => TargetOf(req[c]) = req[c].path)
  BY DEF Proper, RequestTypes, TargetOf
<1>4. lock \in [Paths -> Clients \cup {Absent}] /\ H!Unlocked(c) \in [Paths -> Clients \cup {Absent}]
  BY DEF HttpInv, H!TypeOK, H!Unlocked
<1>5. \A p \in Paths : now[p] \in Contents \cup {Absent}
  BY DEF HttpInv, H!TypeOK
<1>6. found = [found EXCEPT ![c] = found[c]] /\ found[c] \in Contents \cup {Absent}
  BY DEF HttpInv, H!TypeOK
<1>7. handler = [handler EXCEPT ![c] = handler[c]] /\ reply = [reply EXCEPT ![c] = reply[c]]
  <2>1. PICK h, a : h = handler /\ a = reply
    OBVIOUS
  <2>2. h = [d \in Clients |-> h[d]] /\ a = [d \in Clients |-> a[d]]
    BY <2>1 DEF HttpInv
  <2>3. h = [h EXCEPT ![c] = h[c]] /\ a = [a EXCEPT ![c] = a[c]]
    BY <2>2
  <2> QED
    BY <2>1, <2>3
<1> QED
  BY <1>1, <1>2, <1>3, <1>4, <1>5, <1>6, <1>7

\* The answers: what is said of a file that is not looked at.
LEMMA StatusOnly ==
  ASSUME NEW status \in Nat, NEW a, a = H!Answer(status)
  PROVE  /\ a.status = status /\ a.tag = Absent /\ a.body = Absent /\ a.range = H!NoRange /\ a.bytes = {}
         /\ H!Ok(a) <=> status \in 200..299
         /\ H!Exists(a) = IF status \in 200..299 THEN "true"
                          ELSE IF status = 404 THEN "false" ELSE "throws"
BY DEF H!Answer, H!Ok, H!Exists, H!NoRange

\* A refusal or a failure of what has done nothing is true.
LEMMA RefusalTrue ==
  ASSUME NEW r, Proper(r), r.verb # "GET", NEW was, NEW done, NEW status \in {400, 404, 409, 500},
         done = {} \/ (status = 500 /\ ("deleted" \in done => "wrote" \in done))
  PROVE  Truthful(r, H!Answer(status), was, done)
<1>1. PICK a : a = H!Answer(status)
  OBVIOUS
<1>2. a.status = status /\ ~H!Ok(a)
  BY <1>1, StatusOnly
<1> QED
  BY <1>1, <1>2 DEF Truthful, H!ChangeTruthful

LEMMA Finishes ==
  ASSUME HttpInv, NEW c \in Clients, handler[c] # "idle", NEW content \in Contents \cup {Absent},
         found' = [found EXCEPT ![c] = content] \/ (found' = found /\ content = found[c]),
         NEW answer, H!Finish(c, answer),
         UNCHANGED <<now, parents, stored, req, did, ever, calls>>,
         Truthful(req[c], answer, ever[c], did[c])
  PROVE  HttpInv'
<1>1. found' = [found EXCEPT ![c] = content]
  BY ClientTyped
<1>2. /\ handler' = [handler EXCEPT ![c] = "idle"] /\ reply' = [reply EXCEPT ![c] = answer]
      /\ lock' \in [Paths -> Clients \cup {Absent}]
  BY ClientTyped DEF H!Finish, H!Goto
<1>3. PICK step : step = "idle"
  OBVIOUS
<1> QED
  BY <1>1, <1>2, <1>3, Quiet

LEMMA GoesOn ==
  ASSUME HttpInv, NEW c \in Clients, handler[c] # "idle", NEW content \in Contents \cup {Absent},
         found' = [found EXCEPT ![c] = content] \/ (found' = found /\ content = found[c]),
         NEW step, step # "idle", H!Goto(c, step), reply' = reply,
         lock' = lock \/ lock' \in [Paths -> Clients \cup {Absent}],
         UNCHANGED <<now, parents, stored, req, did, ever, calls>>,
         Serving(step, req[c], content, ever[c], did[c])
  PROVE  HttpInv'
<1>1. found' = [found EXCEPT ![c] = content]
  BY ClientTyped
<1>2. PICK answer : answer = reply[c]
  OBVIOUS
<1>3. reply' = [reply EXCEPT ![c] = answer]
  BY <1>2, ClientTyped
<1>4. lock' \in [Paths -> Clients \cup {Absent}]
  BY ClientTyped
<1>5. handler' = [handler EXCEPT ![c] = step]
  BY DEF H!Goto
<1> QED
  BY <1>1, <1>3, <1>4, <1>5, Quiet

LEMMA InvalidStep == ASSUME HttpInv, NEW c \in Clients, H!Invalid(c) PROVE HttpInv'
<1>1. handler[c] = "invalid" /\ found' = found
  BY DEF H!Invalid
<1>2. Truthful(req[c], H!Answer(400), ever[c], did[c])
  <2>1. Proper(req[c]) /\ req[c].verb # "GET" /\ did[c] = {}
    BY <1>1, ClientTyped DEF Serving, StepsOf, Proper, RequestTypes, Verbs
  <2> QED
    BY <2>1, RefusalTrue
<1> QED
  BY <1>1, <1>2, ClientTyped, Finishes DEF H!Invalid, H!store

LEMMA ClientStep == ASSUME HttpInv, NEW c \in Clients, H!Client(c) PROVE HttpInv'
<1>1. handler[c] = "client" /\ found' = found /\ reply' = reply
  BY DEF H!Client, H!locals
<1>2. Serving("lock", req[c], found[c], ever[c], did[c])
  BY <1>1, ClientTyped DEF Serving, StepsOf, Proper, RequestTypes, Verbs
<1> QED
  BY <1>1, <1>2, ClientTyped, GoesOn DEF H!Client, H!store, H!locals

LEMMA UploadStep == ASSUME HttpInv, NEW c \in Clients, H!Upload(c) PROVE HttpInv'
<1>1. handler[c] = "upload" /\ reply' = reply
  BY DEF H!Upload
<1>2. req[c].content \in Contents /\ Serving("store", req[c], req[c].content, ever[c], did[c])
  BY <1>1, ClientTyped DEF Serving, StepsOf, Proper, RequestTypes, Verbs
<1> QED
  BY <1>1, <1>2, ClientTyped, GoesOn DEF H!Upload, H!store

LEMMA AbandonStep == ASSUME HttpInv, NEW c \in Clients, H!Abandon(c) PROVE HttpInv'
<1>1. handler[c] = "upload" /\ reply' = reply /\ found' = found
  BY DEF H!Abandon, H!locals
<1>2. Serving("stuck", req[c], found[c], ever[c], did[c])
  BY <1>1, ClientTyped DEF Serving, StepsOf, Proper, RequestTypes, Verbs
<1> QED
  BY <1>1, <1>2, ClientTyped, GoesOn DEF H!Abandon, H!store, H!locals

LEMMA LockTimeoutStep == ASSUME HttpInv, NEW c \in Clients, H!LockTimeout(c) PROVE HttpInv'
<1>1. handler[c] = "lock" /\ found' = found
  BY DEF H!LockTimeout
<1>2. Truthful(req[c], H!Answer(H!Failed(c)), ever[c], did[c])
  <2>1. Proper(req[c]) /\ req[c].verb # "GET" /\ did[c] = {}
    BY <1>1, ClientTyped DEF Serving, StepsOf, Proper, RequestTypes, Verbs
  <2>2. H!Failed(c) \in {400, 404, 409, 500}
    BY DEF H!Failed
  <2> QED
    BY <2>1, <2>2, RefusalTrue
<1> QED
  BY <1>1, <1>2, ClientTyped, Finishes DEF H!LockTimeout, H!store

LEMMA RemoveTimeoutStep == ASSUME HttpInv, NEW c \in Clients, H!RemoveTimeout(c) PROVE HttpInv'
<1>1. handler[c] = "dlock" /\ found' = found
  BY DEF H!RemoveTimeout
<1>2. Truthful(req[c], H!Answer(500), ever[c], did[c])
  <2>1. Proper(req[c]) /\ req[c].verb # "GET" /\ "deleted" \notin did[c]
    BY <1>1, ClientTyped DEF Serving, StepsOf, Proper, RequestTypes, Verbs
  <2> QED
    BY <2>1, RefusalTrue
<1> QED
  BY <1>1, <1>2, ClientTyped, Finishes DEF H!RemoveTimeout, H!store

LEMMA LockStep == ASSUME HttpInv, NEW c \in Clients, H!Lock(c) PROVE HttpInv'
<1>1. handler[c] = "lock" /\ found' = found /\ UNCHANGED <<now, parents, stored, req, did, ever, calls>>
  BY DEF H!Lock, H!store
<1>2. \/ H!Finish(c, H!Answer(409)) \/ H!Finish(c, H!Answer(400))
      \/ /\ lock' = [lock EXCEPT ![H!Target(c)] = c] /\ reply' = reply
         /\ H!Goto(c, IF req[c].verb = "COPY" THEN "store" ELSE "upload")
  BY DEF H!Lock
<1>3. Proper(req[c]) /\ req[c].verb \in {"WRITE", "COPY"} /\ did[c] = {}
  BY <1>1, ClientTyped DEF Serving, StepsOf, Proper, RequestTypes, Verbs
<1>4. ASSUME NEW s \in {400, 409}, H!Finish(c, H!Answer(s)) PROVE HttpInv'
  <2>1. PICK a : a = H!Answer(s)
    OBVIOUS
  <2>2. Truthful(req[c], a, ever[c], did[c])
    BY <1>3, <2>1, RefusalTrue
  <2>3. handler[c] # "idle" /\ found[c] \in Contents \cup {Absent} /\ H!Finish(c, a)
    BY <1>1, <1>4, <2>1, ClientTyped
  <2> QED
    BY <2>2, <2>3, <1>1, Finishes
<1>5. CASE /\ lock' = [lock EXCEPT ![H!Target(c)] = c] /\ reply' = reply
           /\ H!Goto(c, IF req[c].verb = "COPY" THEN "store" ELSE "upload")
  <2>1. PICK step : step = IF req[c].verb = "COPY" THEN "store" ELSE "upload"
    OBVIOUS
  <2>2. Serving(step, req[c], found[c], ever[c], did[c])
    BY <1>1, <1>3, <2>1, ClientTyped DEF Serving, StepsOf
  <2>3. lock' \in [Paths -> Clients \cup {Absent}]
    BY <1>1, <1>5, ClientTyped
  <2> QED
    BY <2>1, <2>2, <2>3, <1>1, <1>5, ClientTyped, GoesOn
<1> QED
  BY <1>2, <1>4, <1>5

LEMMA CopyLookStep == ASSUME HttpInv, NEW c \in Clients, H!CopyLook(c) PROVE HttpInv'
<1>1. /\ handler[c] = "copy" /\ found' = found
      /\ UNCHANGED <<now, parents, stored, req, did, ever, calls>>
  BY DEF H!CopyLook, H!store
<1>2. Proper(req[c]) /\ req[c].verb = "COPY" /\ did[c] = {}
  BY <1>1, ClientTyped DEF Serving, StepsOf, Proper, RequestTypes, Verbs
<1>3. CASE H!Finish(c, H!Answer(200))
  <2>1. PICK a : a = H!Answer(200)
    OBVIOUS
  <2>2. a.status = 200
    BY <2>1, StatusOnly
  <2>3. Truthful(req[c], a, ever[c], did[c])
    BY <1>2, <2>2 DEF Truthful, H!ChangeTruthful
  <2> QED
    BY <2>1, <2>3, <1>1, <1>3, ClientTyped, Finishes
<1>4. CASE H!Goto(c, "copyFile") /\ UNCHANGED <<lock, reply>>
  <2>1. Serving("copyFile", req[c], found[c], ever[c], did[c])
    BY <1>1, <1>2, ClientTyped DEF Serving, StepsOf
  <2> QED
    BY <2>1, <1>1, <1>4, ClientTyped, GoesOn
<1> QED
  BY <1>3, <1>4 DEF H!CopyLook

LEMMA CopyFileStep == ASSUME HttpInv, NEW c \in Clients, H!CopyFile(c) PROVE HttpInv'
<1>1. PICK content : content = now[req[c].path]
  OBVIOUS
<1>2. /\ handler[c] = "copyFile" /\ found' = [found EXCEPT ![c] = content]
      /\ UNCHANGED <<now, parents, stored, req, did, ever, calls>>
  BY <1>1 DEF H!CopyFile, H!store
<1>3. Proper(req[c]) /\ req[c].verb = "COPY" /\ did[c] = {} /\ content \in Contents \cup {Absent}
  BY <1>1, <1>2, ClientTyped DEF Serving, StepsOf, Proper, RequestTypes, Verbs
<1>4. CASE H!Finish(c, H!Answer(404))
  <2>1. Truthful(req[c], H!Answer(404), ever[c], did[c])
    BY <1>3, RefusalTrue
  <2> QED
    BY <2>1, <1>2, <1>3, <1>4, ClientTyped, Finishes
<1>5. CASE content # Absent /\ H!Goto(c, "client") /\ UNCHANGED <<lock, reply>>
  <2>1. Serving("client", req[c], content, ever[c], did[c])
    BY <1>2, <1>3, <1>5, ClientTyped DEF Serving, StepsOf
  <2> QED
    BY <2>1, <1>2, <1>3, <1>5, ClientTyped, GoesOn
<1> QED
  BY <1>1, <1>4, <1>5 DEF H!CopyFile

LEMMA DeleteLookStep == ASSUME HttpInv, NEW c \in Clients, H!DeleteLook(c) PROVE HttpInv'
<1>1. PICK content : content = now[req[c].path]
  OBVIOUS
<1>2. /\ handler[c] = "dlook" /\ found' = [found EXCEPT ![c] = content]
      /\ UNCHANGED <<now, parents, stored, req, did, ever, calls>>
  BY <1>1 DEF H!DeleteLook, H!store
<1>3. /\ Proper(req[c]) /\ req[c].verb \in {"DELETE", "COPY"} /\ content \in Contents \cup {Absent}
      /\ Serving("dlook", req[c], found[c], ever[c], did[c])
  BY <1>1, <1>2, ClientTyped DEF Serving, StepsOf, Proper, RequestTypes, Verbs
<1>4. CASE H!Finish(c, H!Answer(404))
  <2>1. PICK a : a = H!Answer(404)
    OBVIOUS
  <2>2. a.status = 404 /\ ~H!Ok(a)
    BY <2>1, StatusOnly
  <2>3. Truthful(req[c], a, ever[c], did[c])
    BY <1>3, <2>2 DEF Truthful, H!ChangeTruthful, Serving
  <2> QED
    BY <2>1, <2>3, <1>2, <1>3, <1>4, ClientTyped, Finishes
<1>5. CASE H!Goto(c, "dlock") /\ UNCHANGED <<lock, reply>>
  <2>1. Serving("dlock", req[c], content, ever[c], did[c])
    BY <1>3 DEF Serving, StepsOf
  <2> QED
    BY <2>1, <1>2, <1>3, <1>5, ClientTyped, GoesOn
<1> QED
  BY <1>1, <1>4, <1>5 DEF H!DeleteLook

LEMMA ListStep == ASSUME HttpInv, NEW c \in Clients, H!List(c) \/ H!IsFile(c) PROVE HttpInv'
<1>1. /\ handler[c] \in {"list", "isFile"} /\ found' = found
      /\ UNCHANGED <<now, parents, stored, req, did, ever, calls>>
  BY DEF H!List, H!IsFile, H!store
<1>2. Proper(req[c]) /\ req[c].verb = "LIST" /\ did[c] = {}
  BY <1>1, ClientTyped DEF Serving, StepsOf, Proper, RequestTypes, Verbs
<1>3. ASSUME NEW s \in {200, 404, 409}, H!Finish(c, H!Answer(s)) PROVE HttpInv'
  <2>1. PICK a : a = H!Answer(s)
    OBVIOUS
  <2>2. a.status = s
    BY <2>1, StatusOnly
  <2>3. Truthful(req[c], a, ever[c], did[c])
    BY <1>2, <2>2 DEF Truthful, H!ChangeTruthful, Proper
  <2>4. handler[c] # "idle" /\ found[c] \in Contents \cup {Absent} /\ H!Finish(c, a)
    BY <1>1, <1>3, <2>1, ClientTyped
  <2> QED
    BY <2>3, <2>4, <1>1, Finishes
<1>4. CASE H!Goto(c, "isFile") /\ UNCHANGED <<lock, reply>>
  <2>1. Serving("isFile", req[c], found[c], ever[c], did[c])
    BY <1>1, <1>2, ClientTyped DEF Serving, StepsOf
  <2> QED
    BY <2>1, <1>1, <1>4, ClientTyped, GoesOn
<1> QED
  BY <1>3, <1>4 DEF H!List, H!IsFile

\* GET: the metadata, the bytes, and what is said of a file that is not there.
LEMMA GetStep == ASSUME HttpInv, NEW c \in Clients, H!Get(c) PROVE HttpInv'
<1>1. PICK r, content, range, was :
        /\ r = req[c] /\ content = now[r.path] /\ range = H!Parsed(r.range, Size[content])
        /\ was = ever[c]
  OBVIOUS
<1>2. /\ handler[c] = "get" /\ found' = [found EXCEPT ![c] = content]
      /\ UNCHANGED <<now, parents, stored, req, did, ever, calls>>
  BY <1>1 DEF H!Get, H!store
<1>3. \/ content = Absent /\ H!Goto(c, "exists") /\ UNCHANGED <<lock, reply>>
      \/ content # Absent /\ r.meta /\ H!Finish(c, [H!Answer(200) EXCEPT !.tag = content])
      \/ content # Absent /\ ~r.meta /\ r.tag = content
         /\ H!Finish(c, [H!Answer(304) EXCEPT !.tag = content])
      \/ content # Absent /\ ~r.meta /\ r.range # H!NoRange /\ H!Unsatisfiable(range, Size[content])
         /\ H!Finish(c, [H!Answer(416) EXCEPT !.tag = content])
      \/ /\ content # Absent /\ ~r.meta
         /\ ~(r.range # H!NoRange /\ H!Unsatisfiable(range, Size[content]))
         /\ H!Goto(c, "read") /\ UNCHANGED <<lock, reply>>
  BY <1>1 DEF H!Get
<1>4. /\ Proper(r) /\ r.verb = "GET" /\ did[c] = {} /\ content \in was
      /\ content \in Contents \cup {Absent}
      /\ r.meta \in BOOLEAN /\ r.range \in [from : Bounds, to : Bounds]
  BY <1>1, <1>2, ClientTyped DEF Serving, StepsOf, Proper, RequestTypes, Verbs
<1>5. handler[c] # "idle"
  BY <1>2
<1>6. ASSUME NEW s \in {200, 304, 416}, H!Finish(c, [H!Answer(s) EXCEPT !.tag = content]),
             content # Absent, s = 200 => r.meta, s = 304 => r.tag = content,
             s = 416 => H!Wanted(r.range, Size[content]) = {}
      PROVE  HttpInv'
  <2>1. PICK a : a = [H!Answer(s) EXCEPT !.tag = content]
    OBVIOUS
  <2>2. /\ a.status = s /\ a.tag = content /\ a.body = Absent
        /\ H!Exists(a) = IF s \in 200..299 THEN "true" ELSE IF s = 404 THEN "false" ELSE "throws"
    BY <2>1 DEF H!Answer, H!Exists, H!Ok
  <2>3. H!GetTruthful(r, a, was)
    BY <1>4, <1>6, <2>2 DEF H!GetTruthful
  <2>4. H!ChangeTruthful(r, a, did[c], was)
    BY <1>4, <2>2 DEF H!ChangeTruthful, Proper
  <2>5. Truthful(r, a, was, did[c])
    BY <2>3, <2>4 DEF Truthful
  <2>6. H!Finish(c, a)
    BY <1>6, <2>1
  <2> QED
    BY <2>5, <2>6, <1>1, <1>2, <1>4, <1>5, Finishes, ZenonT(30)
<1>7. ASSUME NEW step, Serving(step, r, content, was, did[c]), step # "idle", H!Goto(c, step),
             UNCHANGED <<lock, reply>>
      PROVE  HttpInv'
  BY <1>1, <1>2, <1>4, <1>5, <1>7, GoesOn
<1>8. CASE content = Absent /\ H!Goto(c, "exists") /\ UNCHANGED <<lock, reply>>
  <2>1. Serving("exists", r, content, was, did[c])
    BY <1>4, <1>8 DEF Serving, StepsOf
  <2> QED
    BY <1>7, <1>8, <2>1
<1>9. CASE /\ content # Absent /\ ~r.meta
           /\ ~(r.range # H!NoRange /\ H!Unsatisfiable(range, Size[content]))
           /\ H!Goto(c, "read") /\ UNCHANGED <<lock, reply>>
  <2>1. Serving("read", r, content, was, did[c])
    BY <1>1, <1>4, <1>9 DEF Serving, StepsOf, Reads
  <2> QED
    BY <1>7, <1>9, <2>1
<1>10. CASE /\ content # Absent /\ ~r.meta /\ r.range # H!NoRange
            /\ H!Unsatisfiable(range, Size[content])
            /\ H!Finish(c, [H!Answer(416) EXCEPT !.tag = content])
  <2>1. Size[content] \in Nat
    BY <1>4, <1>10, HttpAssumption DEF HttpAssumption
  <2>2. H!Wanted(r.range, Size[content]) = {}
    BY <1>1, <1>4, <1>10, <2>1, RangesAsWanted
  <2> QED
    BY <1>6, <1>10, <2>2
<1> QED
  BY <1>3, <1>6, <1>8, <1>9, <1>10

LEMMA MissingStep == ASSUME HttpInv, NEW c \in Clients, H!Missing(c) PROVE HttpInv'
<1>1. PICK r, was, s :
        /\ r = req[c] /\ was = ever[c]
        /\ s = IF now[r.path] # Absent \/ r.path \in parents THEN 409 ELSE 404
  OBVIOUS
<1>2. /\ handler[c] = "exists" /\ found' = found /\ H!Finish(c, H!Answer(s))
      /\ UNCHANGED <<now, parents, stored, req, did, ever, calls>>
  BY <1>1 DEF H!Missing, H!store
<1>3. /\ Proper(r) /\ r.verb = "GET" /\ did[c] = {} /\ now[r.path] \in was /\ Absent \in was
      /\ found[c] \in Contents \cup {Absent}
  BY <1>1, <1>2, ClientTyped DEF Serving, StepsOf, Proper, RequestTypes, Verbs
<1>4. PICK a : a = H!Answer(s)
  OBVIOUS
<1>5. s \in {404, 409} /\ (s = 409 => r.path \in parents \/ now[r.path] # Absent)
  BY <1>1
<1>6. /\ a.status = s /\ a.tag = Absent /\ a.body = Absent
      /\ H!Exists(a) = IF s \in 200..299 THEN "true" ELSE IF s = 404 THEN "false" ELSE "throws"
  BY <1>4, <1>5, StatusOnly
<1>7. H!GetTruthful(r, a, was)
  <2>1. H!Exists(a) # "true"
    BY <1>5, <1>6
  <2> QED
    BY <1>3, <1>5, <1>6, <2>1 DEF H!GetTruthful
<1>8. Truthful(r, a, was, did[c])
  BY <1>3, <1>5, <1>6, <1>7 DEF Truthful, H!ChangeTruthful, Proper
<1>9. handler[c] # "idle" /\ H!Finish(c, a)
  BY <1>2, <1>4
<1> QED
  BY <1>1, <1>2, <1>3, <1>8, <1>9, Finishes

LEMMA SendBodyStep == ASSUME HttpInv, NEW c \in Clients, H!SendBody(c) PROVE HttpInv'
<1>1. PICK r, content, f, was, ranged, range, last :
        /\ r = req[c] /\ content = now[r.path] /\ f = found[c] /\ was = ever[c]
        /\ ranged = (r.range # H!NoRange)
        /\ range = IF ranged THEN H!Cut(H!Parsed(r.range, Size[f]), Size[f])
                   ELSE [from |-> 0, to |-> Size[f] - 1]
        /\ last = IF ranged THEN H!Smaller(range.to, Size[content] - 1) ELSE Size[content] - 1
  OBVIOUS
<1>2. /\ handler[c] = "read" /\ handler[c] # "idle" /\ found' = found
      /\ UNCHANGED <<now, parents, stored, req, did, ever, calls>>
  BY <1>1 DEF H!SendBody, H!store
<1>3. /\ Proper(r) /\ r.verb = "GET" /\ did[c] = {} /\ content \in was
      /\ content \in Contents \cup {Absent} /\ f \in was /\ Reads(r, f)
      /\ r.range \in [from : Bounds, to : Bounds] /\ f \in Contents
  BY <1>1, <1>2, ClientTyped DEF Serving, StepsOf, Proper, RequestTypes, Verbs, Reads
<1>4. Absent \notin Contents /\ Size[f] \in Nat
  BY <1>3, HttpAssumption DEF HttpAssumption
<1>5. CASE content = Absent /\ H!Goto(c, "exists") /\ UNCHANGED <<lock, reply>>
  <2>1. Serving("exists", r, f, was, did[c])
    BY <1>3, <1>5 DEF Serving, StepsOf
  <2> QED
    BY <1>1, <1>2, <1>3, <1>5, <2>1, GoesOn
<1>6. CASE H!Finish(c, H!Answer(500))
  <2>1. PICK a : a = H!Answer(500)
    OBVIOUS
  <2>2. /\ a.status = 500 /\ a.tag = Absent /\ a.body = Absent /\ H!Exists(a) = "throws"
    BY <2>1, StatusOnly
  <2>3. Truthful(r, a, was, did[c])
    BY <1>3, <2>2 DEF Truthful, H!GetTruthful, H!ChangeTruthful, Proper
  <2>4. H!Finish(c, a)
    BY <1>6, <2>1
  <2> QED
    BY <1>1, <1>2, <1>3, <2>3, <2>4, Finishes
<1>7. ASSUME NEW a, H!Finish(c, a), content # Absent,
             a = [status |-> IF ranged THEN 206 ELSE 200, tag |-> f, range |-> range,
                  body |-> content, bytes |-> range.from..last]
      PROVE  HttpInv'
  <2>1. /\ a.status = (IF ranged THEN 206 ELSE 200) /\ a.tag = f /\ a.range = range /\ a.body = content
        /\ a.bytes = range.from..last
    BY <1>7
  <2>2. ranged => /\ H!Wanted(r.range, Size[f]) = range.from..range.to
                  /\ H!Smaller(range.to, Size[f] - 1) = range.to
    <3> SUFFICES ASSUME ranged PROVE /\ H!Wanted(r.range, Size[f]) = range.from..range.to
                                     /\ H!Smaller(range.to, Size[f] - 1) = range.to
      OBVIOUS
    <3>1. PICK q : q = H!Parsed(r.range, Size[f])
      OBVIOUS
    <3>2. ~H!Unsatisfiable(q, Size[f]) /\ r.range # H!NoRange
      BY <1>1, <1>3, <3>1 DEF Reads
    <3>3. range = H!Cut(q, Size[f])
      BY <1>1, <3>1
    <3> QED
      BY <3>1, <3>2, <3>3, <1>3, <1>4, RangesAsWanted
  <2>3. content = f => last = range.to
    <3>1. CASE ranged
      BY <1>1, <2>2, <3>1
    <3>2. CASE ~ranged
      BY <1>1, <3>2
    <3> QED
      BY <3>1, <3>2
  <2>4. was = {f} => content = f
    BY <1>3
  <2>5. a.status \in {200, 206} /\ (a.status = 206 => ranged) /\ ~r.meta /\ f # Absent
    BY <1>3, <1>4, <2>1 DEF Reads
  <2>6. H!GetTruthful(r, a, was)
    BY <1>3, <2>1, <2>2, <2>3, <2>4, <2>5 DEF H!GetTruthful
  <2>7. Truthful(r, a, was, did[c])
    BY <1>3, <2>5, <2>6 DEF Truthful, H!ChangeTruthful, Proper
  <2>8. Truthful(req[c], a, ever[c], did[c])
    BY <1>1, <1>3, <2>7
  <2>9. H!Finish(c, a) /\ found[c] \in Contents \cup {Absent}
    BY <1>1, <1>3, <1>7
  <2> QED
    BY <2>8, <2>9, <1>2, Finishes
<1> QED
  BY <1>1, <1>5, <1>6, <1>7, ZenonT(30) DEF H!SendBody

\* A request begins.
LEMMA ArriveStep == ASSUME HttpInv, NEW c \in Clients, H!Arrive(c) PROVE HttpInv'
<1>1. PICK r, step :
        /\ r \in {H!Request(m) : m \in Methods} /\ req' = [req EXCEPT ![c] = r]
        /\ ever' = [ever EXCEPT ![c] = {now[TargetOf(r)]}]
        /\ step = IF ~r.valid THEN "invalid"
                  ELSE CASE r.verb = "GET" -> "get" [] r.verb = "WRITE" -> "client"
                         [] r.verb = "DELETE" -> "dlook" [] r.verb = "COPY" -> "copy"
                         [] OTHER -> "list"
        /\ handler' = [handler EXCEPT ![c] = step]
  BY DEF H!Arrive, H!Goto, TargetOf
<1>2. /\ handler[c] = "idle" /\ calls < MaxCalls /\ calls' = calls + 1
      /\ found' = [found EXCEPT ![c] = Absent] /\ reply' = [reply EXCEPT ![c] = Absent]
      /\ did' = [did EXCEPT ![c] = {}] /\ UNCHANGED <<now, parents, stored, lock>>
  BY DEF H!Arrive, H!store
<1>3. Proper(r) /\ TargetOf(r) \in Paths /\ r.verb \in Verbs
  BY <1>1, RequestsProper DEF Proper, RequestTypes, TargetOf
<1>4. now[TargetOf(r)] \in Contents \cup {Absent}
  BY <1>3 DEF HttpInv, H!TypeOK
<1>5. H!TypeOK'
  <2>1. calls' \in 0..MaxCalls
    BY <1>2, HttpAssumption DEF HttpInv, H!TypeOK, HttpAssumption
  <2>2. found' \in [Clients -> Contents \cup {Absent}]
        /\ did' \in [Clients -> SUBSET {"wrote", "deleted", "late"}]
        /\ ever' \in [Clients -> SUBSET (Contents \cup {Absent})]
    BY <1>1, <1>2, <1>4 DEF HttpInv, H!TypeOK
  <2> QED
    BY <1>2, <2>1, <2>2 DEF HttpInv, H!TypeOK
<1>6. /\ handler' = [d \in Clients |-> handler'[d]] /\ req' = [d \in Clients |-> req'[d]]
      /\ reply' = [d \in Clients |-> reply'[d]]
  BY <1>1, <1>2 DEF HttpInv
<1>7. ASSUME NEW d \in Clients \ {c} PROVE ClientInv(d)'
  <2>1. /\ handler'[d] = handler[d] /\ req'[d] = req[d] /\ found'[d] = found[d]
        /\ reply'[d] = reply[d] /\ ever'[d] = ever[d] /\ did'[d] = did[d]
    BY <1>1, <1>2 DEF HttpInv, H!TypeOK
  <2>2. handler[d] # "idle" => now[TargetOf(req[d])] \in ever[d]
    BY DEF HttpInv, ClientInv
  <2> QED
    BY <2>1, <2>2, <1>2, StandsBy
<1>8. ClientInv(c)'
  <2>1. /\ handler'[c] = step /\ req'[c] = r /\ found'[c] = Absent /\ reply'[c] = Absent
        /\ ever'[c] = {now[TargetOf(r)]} /\ did'[c] = {}
    BY <1>1, <1>2 DEF HttpInv, H!TypeOK
  <2>2. step \in StepsOf(r.verb) /\ step \notin {"read", "exists", "store", "lock", "dlock"}
        /\ (step = "client" => r.verb = "WRITE") /\ (step = "dlook" => r.verb = "DELETE")
    BY <1>1, <1>3 DEF Proper, Verbs, StepsOf
  <2>3. Serving(step, r, Absent, {now[TargetOf(r)]}, {})
    BY <2>2 DEF Serving
  <2>4. ~(step = "idle")
    BY <1>1
  <2> QED
    BY <1>2, <1>3, <2>1, <2>3, <2>4 DEF ClientInv, Proper, Serving, TargetOf, Reads
<1> QED
  BY <1>5, <1>6, <1>7, <1>8 DEF HttpInv

\* A file of a path is made, replaced or deleted: who asks about it knows.
LEMMA Changes ==
  ASSUME HttpInv, NEW p \in Paths, NEW content \in Contents \cup {Absent}, H!Change(p, content)
  PROVE  /\ now' \in [Paths -> Contents \cup {Absent}] /\ parents \subseteq parents'
         /\ parents' \subseteq Paths /\ ever' \in [Clients -> SUBSET (Contents \cup {Absent})]
         /\ \A d \in Clients :
              /\ handler[d] = "idle" => ever'[d] = ever[d]
              /\ handler[d] # "idle" =>
                   ever[d] \subseteq ever'[d] /\ now'[TargetOf(req[d])] \in ever'[d]
              /\ handler[d] # "idle" /\ TargetOf(req[d]) = p => content \in ever'[d]
<1>1. now' = [now EXCEPT ![p] = content]
  BY DEF H!Change
<1>2. \A d \in Clients : H!Target(d) = TargetOf(req[d])
  BY DEF H!Target, TargetOf
<1>3. ever' = [d \in Clients |-> IF req[d] # Absent /\ TargetOf(req[d]) = p /\ handler[d] # "idle"
                                 THEN ever[d] \cup {content} ELSE ever[d]]
  <2>1. ever' = [d \in Clients |-> IF req[d] # Absent /\ H!Target(d) = p /\ handler[d] # "idle"
                                   THEN ever[d] \cup {content} ELSE ever[d]]
    BY DEF H!Change
  <2> QED
    BY <2>1, <1>2
<1>4. parents \subseteq parents' /\ parents' \subseteq Paths
  BY HttpAssumption DEF H!Change, HttpInv, H!TypeOK, HttpAssumption
<1>5. now' \in [Paths -> Contents \cup {Absent}] /\ ever' \in [Clients -> SUBSET (Contents \cup {Absent})]
  BY <1>1, <1>3 DEF HttpInv, H!TypeOK
<1>6. ASSUME NEW d \in Clients, handler[d] # "idle"
      PROVE  /\ ever[d] \subseteq ever'[d] /\ now'[TargetOf(req[d])] \in ever'[d]
             /\ TargetOf(req[d]) = p => content \in ever'[d]
  <2>1. Proper(req[d]) /\ TargetOf(req[d]) \in Paths /\ now[TargetOf(req[d])] \in ever[d]
    BY <1>6, ClientTyped
  <2>2. req[d] # Absent
    BY <2>1 DEF Proper
  <2> QED
    BY <1>1, <1>3, <1>6, <2>1, <2>2 DEF HttpInv, H!TypeOK
<1>7. \A d \in Clients : handler[d] = "idle" => ever'[d] = ever[d]
  BY <1>3
<1> QED
  BY <1>4, <1>5, <1>6, <1>7

\* write() replaces the file of its path (index.js:198), for a body or for a copy.
LEMMA StoreStep == ASSUME HttpInv, NEW c \in Clients, H!Store(c) PROVE HttpInv'
<1>1. PICK r, p, f, was, done :
        /\ r = req[c] /\ p = TargetOf(r) /\ f = found[c] /\ was = ever[c] /\ done = did[c]
  OBVIOUS
<1>2. /\ handler[c] = "store" /\ handler[c] # "idle" /\ UNCHANGED <<req, calls, found>>
  BY DEF H!Store
<1>3. /\ Proper(r) /\ r.verb \in {"WRITE", "COPY"} /\ done = {} /\ f \in Contents /\ p \in Paths
      /\ (r.verb = "WRITE" => f = r.content) /\ H!Target(c) = p
  BY <1>1, <1>2, ClientTyped DEF Serving, StepsOf, Proper, RequestTypes, Verbs
<1>4. CASE H!Finish(c, H!Answer(500)) /\ UNCHANGED <<H!store, found, did, ever>>
  <2>1. PICK a : a = H!Answer(500)
    OBVIOUS
  <2>2. Truthful(r, a, was, done)
    BY <1>3, <2>1, RefusalTrue
  <2>3. /\ found[c] \in Contents \cup {Absent} /\ Truthful(req[c], a, ever[c], did[c]) /\ H!Finish(c, a)
        /\ UNCHANGED <<now, parents, stored, req, did, ever, calls>>
    BY <1>1, <1>2, <1>3, <1>4, <2>1, <2>2 DEF H!store
  <2> QED
    BY <2>3, <1>2, Finishes
<1>5. CASE /\ H!Change(p, f) /\ stored' = stored \cup {f} /\ did' = [did EXCEPT ![c] = @ \cup {"wrote"}]
           /\ \/ /\ r.move /\ H!Goto(c, "dlook") /\ reply' = reply /\ lock' = [lock EXCEPT ![p] = Absent]
              \/ ~r.move /\ H!Finish(c, H!Created(c))
  <2>1. PICK y : y = ever'[c] /\ was \subseteq y /\ f \in y /\ now'[p] \in y
    BY <1>1, <1>2, <1>3, <1>5, Changes
  <2>2. did'[c] = {"wrote"} /\ \A d \in Clients \ {c} : did'[d] = did[d]
    BY <1>1, <1>3, <1>5 DEF HttpInv, H!TypeOK
  <2>3. ASSUME NEW step, NEW answer, handler' = [handler EXCEPT ![c] = step],
               reply' = [reply EXCEPT ![c] = answer], lock' \in [Paths -> Clients \cup {Absent}],
               step # "idle" => Serving(step, r, f, y, {"wrote"}),
               step = "idle" => Truthful(r, answer, y, {"wrote"})
        PROVE  HttpInv'
    <3>1. H!TypeOK'
      <4>1. did' \in [Clients -> SUBSET {"wrote", "deleted", "late"}] /\ stored' \subseteq Contents
        BY <1>3, <1>5 DEF HttpInv, H!TypeOK
      <4> QED
        BY <4>1, <1>2, <1>3, <1>5, <2>3, Changes DEF HttpInv, H!TypeOK
    <3>2. /\ handler' = [d \in Clients |-> handler'[d]] /\ req' = [d \in Clients |-> req'[d]]
          /\ reply' = [d \in Clients |-> reply'[d]]
      BY <1>2, <2>3 DEF HttpInv
    <3>3. ASSUME NEW d \in Clients \ {c} PROVE ClientInv(d)'
      <4>1. /\ handler'[d] = handler[d] /\ req'[d] = req[d] /\ found'[d] = found[d]
            /\ reply'[d] = reply[d] /\ did'[d] = did[d]
        BY <1>2, <2>2, <2>3 DEF HttpInv
      <4>2. /\ parents \subseteq parents'
            /\ handler[d] = "idle" => ever'[d] = ever[d]
            /\ handler[d] # "idle" => ever[d] \subseteq ever'[d] /\ now'[TargetOf(req[d])] \in ever'[d]
        BY <1>3, <1>5, Changes
      <4> QED
        BY <4>1, <4>2, StandsBy
    <3>4. ClientInv(c)'
      <4>1. /\ handler'[c] = step /\ reply'[c] = answer /\ found'[c] = f /\ req'[c] = r
            /\ ever'[c] = y /\ did'[c] = {"wrote"}
        BY <1>1, <1>2, <2>1, <2>2, <2>3 DEF HttpInv
      <4>2. CASE step = "idle"
        <5>1. Truthful(r, answer, y, {"wrote"})'
          <6>1. parents \subseteq parents'
            BY <1>3, <1>5, Changes
          <6> QED
            BY <2>3, <4>2, <6>1 DEF Truthful, H!GetTruthful, H!ChangeTruthful
        <5> QED
          BY <4>1, <4>2, <5>1 DEF ClientInv, Truthful, H!GetTruthful, H!ChangeTruthful
      <4>3. CASE step # "idle"
        <5>1. Serving(step, r, f, y, {"wrote"})
          BY <2>3, <4>3
        <5>2. now'[TargetOf(r)] \in y
          BY <1>1, <2>1
        <5> QED
          BY <4>1, <4>3, <5>1, <5>2, <1>3 DEF ClientInv, Proper, Serving, TargetOf, Reads
      <4> QED
        BY <4>2, <4>3
    <3> QED
      BY <3>1, <3>2, <3>3, <3>4 DEF HttpInv
  <2>4. CASE r.move /\ H!Goto(c, "dlook") /\ reply' = reply /\ lock' = [lock EXCEPT ![p] = Absent]
    <3>1. PICK step, answer : step = "dlook" /\ answer = reply[c]
      OBVIOUS
    <3>2. handler' = [handler EXCEPT ![c] = step] /\ step # "idle"
      BY <2>4, <3>1 DEF H!Goto
    <3>3. reply' = [reply EXCEPT ![c] = answer] /\ lock' \in [Paths -> Clients \cup {Absent}]
      BY <2>4, <3>1, <1>3, ClientTyped
    <3>4. Serving(step, r, f, y, {"wrote"})
      BY <1>3, <2>4, <3>1 DEF Serving, StepsOf, Proper
    <3> QED
      BY <2>3, <3>2, <3>3, <3>4
  <2>5. CASE ~r.move /\ H!Finish(c, H!Created(c))
    <3>1. PICK step, s, a : step = "idle" /\ s = (IF req[c].replace \/ req[c].verb = "COPY" THEN 200 ELSE 201)
                            /\ a = H!Answer(s)
      OBVIOUS
    <3>2. s \in Nat /\ s \in {200, 201}
      BY <3>1
    <3>3. a.status \in {200, 201} /\ a = H!Created(c)
      BY <3>1, <3>2, StatusOnly DEF H!Created
    <3>4. Truthful(r, a, y, {"wrote"})
      BY <1>3, <2>1, <2>5, <3>3 DEF Truthful, H!ChangeTruthful
    <3>5. handler' = [handler EXCEPT ![c] = step] /\ reply' = [reply EXCEPT ![c] = a]
      BY <2>5, <3>1, <3>3 DEF H!Finish, H!Goto
    <3>6. lock' \in [Paths -> Clients \cup {Absent}]
      BY <2>5, ClientTyped DEF H!Finish
    <3> QED
      BY <2>3, <3>1, <3>4, <3>5, <3>6
  <2> QED
    BY <1>5, <2>4, <2>5
<1> QED
  <2>1. \/ H!Finish(c, H!Answer(500)) /\ UNCHANGED <<H!store, found, did, ever>>
        \/ /\ H!Change(p, f) /\ stored' = stored \cup {f} /\ did' = [did EXCEPT ![c] = @ \cup {"wrote"}]
           /\ \/ /\ r.move /\ H!Goto(c, "dlook") /\ reply' = reply /\ lock' = [lock EXCEPT ![p] = Absent]
              \/ ~r.move /\ H!Finish(c, H!Created(c))
    BY <1>1, <1>3 DEF H!Store
  <2> QED
    BY <2>1, <1>4, <1>5

\* deleteFile() deletes the row it has looked up (index.js:872), if it is still there.
LEMMA RemoveStep == ASSUME HttpInv, NEW c \in Clients, H!Remove(c) PROVE HttpInv'
<1>1. PICK r, p, done : r = req[c] /\ p = r.path /\ done = did[c]
  OBVIOUS
<1>2. /\ handler[c] = "dlock" /\ handler[c] # "idle" /\ UNCHANGED <<req, calls, found>>
      /\ H!Finish(c, H!Answer(200)) /\ stored' \subseteq stored
  BY DEF H!Remove
<1>3. /\ Proper(r) /\ r.verb \in {"DELETE", "COPY"} /\ p \in Paths
      /\ Serving("dlock", r, found[c], ever[c], done)
      /\ (r.verb = "DELETE" => TargetOf(r) = p)
  BY <1>1, <1>2, ClientTyped DEF Serving, StepsOf, Proper, RequestTypes, Verbs
<1>4. \/ "late" \in done /\ UNCHANGED <<now, parents, ever>>
      \/ "late" \notin done /\ H!Change(p, Absent)
  BY <1>1 DEF H!Remove
<1>5. did' = [d \in Clients |->
               CASE d = c -> done \cup {"deleted"}
                 [] d # c /\ "late" \notin done /\ handler[d] = "dlock" /\ req[d].path = p ->
                      did[d] \cup {"late"}
                 [] OTHER -> did[d]]
  BY <1>1 DEF H!Remove
<1>6. /\ now' \in [Paths -> Contents \cup {Absent}] /\ parents \subseteq parents'
      /\ parents' \subseteq Paths /\ ever' \in [Clients -> SUBSET (Contents \cup {Absent})]
      /\ \A d \in Clients :
           /\ handler[d] = "idle" => ever'[d] = ever[d]
           /\ handler[d] # "idle" =>
                ever[d] \subseteq ever'[d] /\ now'[TargetOf(req[d])] \in ever'[d]
           /\ handler[d] # "idle" /\ TargetOf(req[d]) = p /\ "late" \notin done => Absent \in ever'[d]
  <2>1. CASE "late" \in done /\ UNCHANGED <<now, parents, ever>>
    <3>1. \A d \in Clients : handler[d] # "idle" => now[TargetOf(req[d])] \in ever[d]
      BY DEF HttpInv, ClientInv
    <3> QED
      BY <2>1, <3>1 DEF HttpInv, H!TypeOK
  <2>2. CASE "late" \notin done /\ H!Change(p, Absent)
    BY <2>2, <1>3, Changes
  <2> QED
    BY <1>4, <2>1, <2>2
<1>7. PICK a : a = H!Answer(200)
  OBVIOUS
<1>8. a.status = 200
  BY <1>7, StatusOnly
<1>9. /\ handler' = [handler EXCEPT ![c] = "idle"] /\ reply' = [reply EXCEPT ![c] = a]
      /\ lock' \in [Paths -> Clients \cup {Absent}]
  BY <1>2, <1>7, ClientTyped DEF H!Finish, H!Goto
<1>10. H!TypeOK'
  <2>1. did' \in [Clients -> SUBSET {"wrote", "deleted", "late"}]
    BY <1>1, <1>5 DEF HttpInv, H!TypeOK
  <2> QED
    BY <2>1, <1>2, <1>6, <1>9 DEF HttpInv, H!TypeOK
<1>11. /\ handler' = [d \in Clients |-> handler'[d]] /\ req' = [d \in Clients |-> req'[d]]
       /\ reply' = [d \in Clients |-> reply'[d]]
  BY <1>2, <1>9 DEF HttpInv
<1>12. ASSUME NEW d \in Clients \ {c} PROVE ClientInv(d)'
  <2>1. /\ handler'[d] = handler[d] /\ req'[d] = req[d] /\ found'[d] = found[d]
        /\ reply'[d] = reply[d]
    BY <1>2, <1>9 DEF HttpInv
  <2>2. \/ did'[d] = did[d]
        \/ /\ handler[d] = "dlock" /\ "late" \notin done /\ req[d].path = p
           /\ did'[d] = did[d] \cup {"late"}
    BY <1>5
  <2>3. /\ handler[d] = "idle" => ever'[d] = ever[d]
        /\ handler[d] # "idle" => ever[d] \subseteq ever'[d] /\ now'[TargetOf(req[d])] \in ever'[d]
    BY <1>6
  <2>4. ASSUME handler[d] = "dlock", "late" \notin done, req[d].path = p, req[d].verb = "DELETE"
        PROVE  Absent \in ever'[d]
    <3>1. TargetOf(req[d]) = p
      BY <2>4 DEF TargetOf
    <3> QED
      BY <3>1, <2>4, <1>6
  <2> QED
    BY <2>1, <2>2, <2>3, <2>4, <1>6, StandsBy
<1>13. ClientInv(c)'
  <2>1. PICK y, z : y = ever'[c] /\ z = done \cup {"deleted"}
    OBVIOUS
  <2>2. /\ handler'[c] = "idle" /\ reply'[c] = a /\ req'[c] = r /\ ever'[c] = y /\ did'[c] = z
    BY <1>1, <1>2, <1>5, <1>9, <2>1 DEF HttpInv
  <2>3. r.verb = "DELETE" => Absent \in y
    <3> SUFFICES ASSUME r.verb = "DELETE" PROVE Absent \in y
      OBVIOUS
    <3>1. CASE "late" \in done
      BY <3>1, <1>2, <1>3, <1>6, <2>1 DEF Serving
    <3>2. CASE "late" \notin done
      BY <3>2, <1>1, <1>2, <1>3, <1>6, <2>1
    <3> QED
      BY <3>1, <3>2
  <2>4. r.verb = "COPY" => done \ {"late"} = {"wrote"}
    BY <1>3 DEF Serving
  <2>5. Truthful(r, a, y, z)
    <3>1. r.verb = "COPY" => z \ {"late"} = {"wrote", "deleted"} /\ "wrote" \in z
      BY <2>1, <2>4
    <3> QED
      BY <1>3, <1>8, <2>3, <3>1 DEF Truthful, H!ChangeTruthful, Proper
  <2>6. r.verb # "GET"
    BY <1>3
  <2>7. H!ChangeTruthful(r, a, z, y)'
    BY <2>5 DEF Truthful, H!ChangeTruthful
  <2> QED
    BY <2>2, <2>6, <2>7 DEF ClientInv, Truthful, H!ChangeTruthful
<1> QED
  BY <1>10, <1>11, <1>12, <1>13 DEF HttpInv

\* Any number of clients may read, write, copy, delete and list at the same time.
THEOREM HttpInvariant == H!Spec => []HttpInv
<1>1. HttpInv /\ [H!Next]_(H!vars) => HttpInv'
  <2> SUFFICES ASSUME HttpInv, [H!Next]_(H!vars) PROVE HttpInv'
    OBVIOUS
  <2>1. ASSUME NEW c \in Clients, H!Arrive(c) \/ H!Serve(c) \/ H!Abandon(c) \/ H!RemoveTimeout(c)
        PROVE  HttpInv'
    BY <2>1, ArriveStep, InvalidStep, GetStep, SendBodyStep, MissingStep, ClientStep, LockStep,
       LockTimeoutStep, UploadStep, AbandonStep, StoreStep, CopyLookStep, CopyFileStep,
       DeleteLookStep, RemoveStep, RemoveTimeoutStep, ListStep DEF H!Serve
  <2>2. CASE UNCHANGED H!vars
    <3>1. UNCHANGED <<now, parents, stored, lock, handler, req, found, reply, ever, did, calls>>
      BY <2>2 DEF H!vars, H!store, H!locals
    <3>2. ASSUME NEW c \in Clients PROVE ClientInv(c)'
      <4>1. handler[c] # "idle" => now[TargetOf(req[c])] \in ever[c]
        BY DEF HttpInv, ClientInv
      <4> QED
        BY <3>1, <4>1, StandsBy
    <3>3. H!TypeOK'
      BY <3>1 DEF HttpInv, H!TypeOK
    <3> QED
      BY <3>1, <3>2, <3>3 DEF HttpInv
  <2> QED
    BY <2>1, <2>2 DEF H!Next
<1> QED
  BY <1>1, HttpInitial, PTL DEF H!Spec

\* What the server answers is true of the files (fs.js:61, fs.js:172, dir.js:11): of
\* the file that was there when it looked, whatever else was done meanwhile.
THEOREM AnswersAreTrue == H!Spec => []AnswersTruthful
<1>1. HttpInv => AnswersTruthful
  BY DEF HttpInv, ClientInv, Truthful, AnswersTruthful, H!AnswersTruthful
<1> QED
  BY <1>1, HttpInvariant, PTL

-----------------------------------------------------------------------------
(* Both side by side.                                                      *)

\* The types of the walk and of the requests; and a file or directory lies in a
\* directory that is there, whatever is deleted and written (directory.js:124).
THEOREM FilesTypes == Spec /\ H!Spec => []FilesTypeOK
<1>1. TreeInv /\ HttpInv => FilesTypeOK
  BY TreeTypes DEF HttpInv, FilesTypeOK
<1> QED
  BY <1>1, TreeInvariant, HttpInvariant, PTL
=============================================================================
