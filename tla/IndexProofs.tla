---------------------------- MODULE IndexProofs ----------------------------
(***************************************************************************)
(* What files are found by, for any files, writers, readers, rules,        *)
(* servers and tools: what the index has of each file, whoever else        *)
(* writes; the rows and companions behind it, and what readers are         *)
(* answered; the keys that a rule makes and the files it reaches.          *)
(*                                                                         *)
(* First the rows a write needs, the invariant of the writers, and the     *)
(* proof of IndexMatches.                                                  *)
(***************************************************************************)
EXTENDS Index, SequenceTheorems, WellFoundedInduction, TLAPS

-----------------------------------------------------------------------------
AllQuads(p, c) == CaskQuads(p) \o FileQuads(p, c)
Plain(p, c) == {t \in Triples(p, c) : t.p # TypePredicate}
IsQuad(q) == q = [s |-> q.s, p |-> q.p, o |-> q.o, lit |-> q.lit]

Entry == [id : Nat, content : Contents, nquads : Contents]
Job == [path : Paths, content : Contents, id : Nat]
Busy(w) == wpc[w] # "idle"

RowsIn(ix, i) == {e[2] : e \in {x \in ix : x[1] = i}}

\* Files have ids of their own, and the index what each was created with.
Indexed(f, ix, n) ==
  /\ n \in Nat /\ f \in [Paths -> Entry \cup {NoFile}]
  /\ \A p \in Paths : f[p] # NoFile =>
       f[p].id <= n /\ RowsIn(ix, f[p].id) = FileRows[p][f[p].nquads]
  /\ \A p, q \in Paths : f[p] # NoFile /\ f[q] # NoFile /\ p # q => f[p].id # f[q].id
  /\ \A e \in ix : e = <<e[1], e[2]>> /\ e[1] \in Nat /\ e[1] <= n
FilesIndexed == Indexed(file, index, writes)

\* What a writer works on: a path that no other does, under an id nobody has yet.
NotIn(f, ix, i) == (\A p \in Paths : f[p] # NoFile => f[p].id # i) /\ \A e \in ix : e[1] # i
Fresh(w) == NotIn(file, index, job[w].id)
Working ==
  /\ wpc \in [Writers -> {"idle", "insert", "replace", "delete"}]
  /\ job \in [Writers -> Job \cup {None}]
  /\ \A w \in Writers : Busy(w) =>
       /\ job[w] \in Job /\ job[w].id <= writes /\ Fresh(w)
       /\ wpc[w] # "insert" => file[job[w].path] # NoFile
  /\ \A w, v \in Writers : Busy(w) /\ Busy(v) /\ w # v =>
       job[w].path # job[v].path /\ job[w].id # job[v].id

IndexInv == FilesIndexed /\ Working

-----------------------------------------------------------------------------
(* The rows of a file.                                                     *)

LEMMA OwnRange ==
  ASSUME NEW T, NEW s \in Seq(T)
  PROVE  s \in Seq(Range(s)) /\ Range(s) = {s[i] : i \in 1 .. Len(s)} /\ Len(s) \in Nat
<1>1. Len(s) \in Nat /\ s \in [1 .. Len(s) -> T] /\ DOMAIN s = 1 .. Len(s)
  BY LenProperties
<1>2. Range(s) = {s[i] : i \in 1 .. Len(s)}
  BY <1>1 DEF Range
<1>3. s \in [1 .. Len(s) -> Range(s)]
  BY <1>1, <1>2
<1>4. s \in Seq(Range(s))
  BY <1>1, <1>3, SeqDef
<1> QED
  BY <1>1, <1>2, <1>4

LEMMA Concat ==
  \A s, t : s \in Seq(Range(s)) /\ t \in Seq(Range(t)) =>
    s \o t \in Seq(Range(s \o t)) /\ Range(s \o t) = Range(s) \cup Range(t)
<1> SUFFICES ASSUME NEW s, NEW t, s \in Seq(Range(s)), t \in Seq(Range(t))
             PROVE  s \o t \in Seq(Range(s \o t)) /\ Range(s \o t) = Range(s) \cup Range(t)
  OBVIOUS
<1> DEFINE S == Range(s)
           T == Range(t)
<1>1. /\ Len(s) \in Nat /\ Len(t) \in Nat /\ DOMAIN s = 1 .. Len(s) /\ DOMAIN t = 1 .. Len(t)
      /\ s \in Seq(S \cup T) /\ t \in Seq(S \cup T)
  BY LenProperties
<1> HIDE DEF S, T
<1>2. /\ s \o t \in Seq(S \cup T) /\ Len(s \o t) = Len(s) + Len(t)
      /\ \A i \in 1 .. Len(s) + Len(t) : (s \o t)[i] = IF i <= Len(s) THEN s[i] ELSE t[i - Len(s)]
  BY <1>1, ConcatProperties
<1>3. PICK u : u = s \o t
  OBVIOUS
<1>4. DOMAIN u = 1 .. Len(s) + Len(t)
  BY <1>2, <1>3, LenProperties
<1>5. ASSUME NEW x \in Range(u) PROVE x \in Range(s) \cup Range(t)
  <2>1. PICK i \in 1 .. Len(s) + Len(t) : x = u[i]
    BY <1>4, <1>5 DEF Range
  <2>2. CASE i <= Len(s)
    BY <2>1, <2>2, <1>1, <1>2, <1>3 DEF Range
  <2>3. CASE ~(i <= Len(s))
    <3>1. i - Len(s) \in 1 .. Len(t) /\ x = t[i - Len(s)]
      BY <2>1, <2>3, <1>1, <1>2, <1>3
    <3> QED
      BY <3>1, <1>1 DEF Range
  <2> QED
    BY <2>2, <2>3
<1>6. ASSUME NEW x \in Range(s) PROVE x \in Range(u)
  <2>1. PICK i \in 1 .. Len(s) : x = s[i]
    BY <1>1, <1>6 DEF Range
  <2>2. i \in 1 .. Len(s) + Len(t) /\ i <= Len(s)
    BY <1>1
  <2>3. x = u[i]
    BY <2>1, <2>2, <1>2, <1>3
  <2> QED
    BY <2>2, <2>3, <1>4 DEF Range
<1>7. ASSUME NEW x \in Range(t) PROVE x \in Range(u)
  <2>1. PICK i \in 1 .. Len(t) : x = t[i]
    BY <1>1, <1>7 DEF Range
  <2>2. PICK j : j = i + Len(s)
    OBVIOUS
  <2>3. j \in 1 .. Len(s) + Len(t) /\ ~(j <= Len(s)) /\ j - Len(s) = i
    BY <1>1, <2>2
  <2>4. x = u[j]
    BY <2>1, <2>3, <1>2, <1>3
  <2> QED
    BY <2>3, <2>4, <1>4 DEF Range
<1> QED
  BY <1>2, <1>3, <1>5, <1>6, <1>7, OwnRange

LEMMA QuadsTyped ==
  ASSUME NEW p \in Paths, NEW c \in Contents
  PROVE  /\ \E S : FileQuads(p, c) \in Seq(S)
         /\ AllQuads(p, c) \in Seq(Range(AllQuads(p, c)))
         /\ Range(FileQuads(p, c)) \subseteq Range(AllQuads(p, c))
         /\ \A q \in Range(AllQuads(p, c)) : IsQuad(q)
         /\ \A q \in Range(AllQuads(p, c)) : Typed(q) => q \in Range(FileQuads(p, c))
         /\ \E q \in Range(AllQuads(p, c)) : ~Typed(q)
<1> DEFINE n == [s |-> Node[p], p |-> "contentUrl", o |-> "file:" \o p, lit |-> FALSE]
<1>1. CaskQuads(p) \in Seq({n}) /\ Range(CaskQuads(p)) = {n} /\ IsQuad(n) /\ ~Typed(n)
  <2>1. IsQuad(n) /\ ~Typed(n)
    BY DEF IsQuad, Typed, TypePredicate
  <2>2. CaskQuads(p) = <<n>>
    BY DEF CaskQuads
  <2> HIDE DEF n
  <2>3. <<n>> \in Seq({n}) /\ Range(<<n>>) = {n}
    BY DEF Range
  <2> QED
    BY <2>1, <2>2, <2>3
<1>2. PICK S : FileQuads(p, c) \in Seq(S)
  BY ConstantsAssumption DEF ConstantsAssumption, FileQuads
<1>3. \A q \in Range(FileQuads(p, c)) : IsQuad(q)
  <2>1. CASE p \in RdfPaths
    BY <2>1, ConstantsAssumption, Zenon DEF ConstantsAssumption, FileQuads, IsQuad
  <2>2. CASE p \notin RdfPaths
    BY <2>2 DEF FileQuads, Range
  <2> QED
    BY <2>1, <2>2
<1> HIDE DEF n
<1>4. /\ AllQuads(p, c) \in Seq(Range(AllQuads(p, c)))
      /\ Range(AllQuads(p, c)) = {n} \cup Range(FileQuads(p, c))
  <2>1. CaskQuads(p) \in Seq(Range(CaskQuads(p))) /\ FileQuads(p, c) \in Seq(Range(FileQuads(p, c)))
    BY <1>1, <1>2, OwnRange
  <2> QED
    BY <1>1, <2>1, Concat DEF AllQuads
<1> QED
  BY <1>1, <1>2, <1>3, <1>4

\* The rows of each statement.
LEMMA StatementRows ==
  ASSUME NEW p \in Paths, NEW c \in Contents
  PROVE  LET A == Range(AllQuads(p, c))
             F == Range(FileQuads(p, c)) IN
         /\ \A i \in 1 .. 4 : \E S : Statements(p, c)[i] \in Seq(S)
         /\ Range(Statements(p, c)[1]) =
              {Subject(q, p) : q \in A} \cup {Predicate(q, p) : q \in A} \cup {Object(q, p) : q \in A}
         /\ Range(Statements(p, c)[2]) = {Type(q, p) : q \in F}
         /\ Range(Statements(p, c)[3]) = {Link(q, p) : q \in A}
         /\ Range(Statements(p, c)[4]) = {Literal(q, p) : q \in A}
<1> DEFINE all == AllQuads(p, c)
           A == Range(all)
           file1 == FileQuads(p, c)
           F == Range(file1)
           s1 == Rows(Subject, all, p)
           s2 == Rows(Predicate, all, p)
           s3 == Rows(Object, all, p)
           s4 == Rows(Type, file1, p)
           s5 == Rows(Link, all, p)
           s6 == Rows(Literal, all, p)
<1>1. Statements(p, c) = <<s1 \o s2 \o s3, s4, s5, s6>>
  BY DEF Statements, AllQuads
<1>2. /\ Len(all) \in Nat /\ DOMAIN all = 1 .. Len(all) /\ A = {all[i] : i \in 1 .. Len(all)}
      /\ Len(file1) \in Nat /\ DOMAIN file1 = 1 .. Len(file1) /\ F = {file1[i] : i \in 1 .. Len(file1)}
  <2>1. \E T : file1 \in Seq(T)
    BY QuadsTyped
  <2>2. all \in Seq(Range(all))
    BY QuadsTyped
  <2> HIDE DEF all, file1
  <2>3. \A T, s : s \in Seq(T) =>
          /\ Len(s) \in Nat /\ DOMAIN s = 1 .. Len(s) /\ Range(s) = {s[i] : i \in 1 .. Len(s)}
    BY LenProperties DEF Range
  <2> QED
    BY <2>1, <2>2, <2>3 DEF F
<1> HIDE DEF all, file1
<1>3. s1 \in Seq(Range(s1)) /\ Range(s1) = {Subject(q, p) : q \in A}
  BY <1>2 DEF Rows, Range
<1>4. s2 \in Seq(Range(s2)) /\ Range(s2) = {Predicate(q, p) : q \in A}
  BY <1>2 DEF Rows, Range
<1>5. s3 \in Seq(Range(s3)) /\ Range(s3) = {Object(q, p) : q \in A}
  BY <1>2 DEF Rows, Range
<1>6. s4 \in Seq(Range(s4)) /\ Range(s4) = {Type(q, p) : q \in F}
  BY <1>2 DEF Rows, Range
<1>7. s5 \in Seq(Range(s5)) /\ Range(s5) = {Link(q, p) : q \in A}
  BY <1>2 DEF Rows, Range
<1>8. s6 \in Seq(Range(s6)) /\ Range(s6) = {Literal(q, p) : q \in A}
  BY <1>2 DEF Rows, Range
<1> HIDE DEF s1, s2, s3, s4, s5, s6, A, F
<1>9. /\ s1 \o s2 \o s3 \in Seq(Range(s1 \o s2 \o s3))
      /\ Range(s1 \o s2 \o s3) = Range(s1) \cup Range(s2) \cup Range(s3)
  <2>1. s1 \o s2 \in Seq(Range(s1 \o s2)) /\ Range(s1 \o s2) = Range(s1) \cup Range(s2)
    BY <1>3, <1>4, Concat
  <2> QED
    BY <2>1, <1>5, Concat
<1>10. /\ Statements(p, c)[1] = s1 \o s2 \o s3 /\ Statements(p, c)[2] = s4
       /\ Statements(p, c)[3] = s5 /\ Statements(p, c)[4] = s6
  BY <1>1
<1>11. \A i \in 1 .. 4 : i = 1 \/ i = 2 \/ i = 3 \/ i = 4
  OBVIOUS
<1> QED
  BY <1>3, <1>4, <1>5, <1>6, <1>7, <1>8, <1>9, <1>10, <1>11 DEF A, F, all, file1

LEMMA Inserted ==
  ASSUME NEW S, NEW rs \in Seq(S), NEW r \in Range(rs), r # Nothing
  PROVE  r \in Range(Inserts(rs))
<1>1. Len(rs) \in Nat /\ DOMAIN rs = 1 .. Len(rs)
  BY LenProperties
<1>2. PICK j \in 1 .. Len(rs) : r = rs[j]
  BY <1>1 DEF Range
<1>3. PICK k : k = 3 * j
  OBVIOUS
<1>4. k \in 1 .. 3 * Len(rs) /\ ((k - 1) \div 3) + 1 = j /\ ((k - 1) % 3) + 1 = 3
  BY <1>1, <1>3
<1>5. WithUris(r)[3] = r
  BY DEF WithUris
<1>6. Inserts(rs)[k] = r
  BY <1>2, <1>4, <1>5 DEF Inserts
<1>7. k \in DOMAIN Inserts(rs)
  BY <1>4 DEF Inserts
<1> QED
  BY <1>6, <1>7, Zenon DEF Range

\* A write whose statements have nothing left to insert has all rows of its file.
LEMMA NothingLeft ==
  ASSUME NEW p \in Paths, NEW c \in Contents, NEW X,
         \A i \in 1 .. 4 : NeededRows[p][c][i] \subseteq X
  PROVE  FileRows[p][c] \subseteq X
<1> SUFFICES ASSUME NEW r \in FileRows[p][c] PROVE r \in X
  OBVIOUS
<1>1. PICK i \in 1 .. 4 : r \in Range(Statements(p, c)[i]) /\ r # Nothing
  BY DEF FileRows
<1>2. PICK S : Statements(p, c)[i] \in Seq(S)
  BY StatementRows
<1>3. r \in Range(Inserts(Statements(p, c)[i]))
  BY <1>1, <1>2, Inserted
<1>4. NeededRows[p][c][i] = Range(Inserts(Statements(p, c)[i])) \ {Nothing}
  BY DEF NeededRows, Needed
<1> QED
  BY <1>1, <1>3, <1>4

\* The rows of a file are those of its quads, kind by kind.
LEMMA RowsOfFile ==
  ASSUME NEW p \in Paths, NEW c \in Contents
  PROVE  LET A == Range(AllQuads(p, c))
             of(k) == {r \in FileRows[p][c] : r[1] = k} IN
         /\ of("subject") = {Subject(q, p) : q \in {x \in A : ~Typed(x)}}
         /\ of("object") = {Object(q, p) : q \in {x \in A : ~Typed(x) /\ ~x.lit}}
         /\ of("link") = {Link(q, p) : q \in {x \in A : ~Typed(x) /\ ~x.lit}}
         /\ of("predicate") = {Predicate(q, p) : q \in {x \in A : ~Typed(x)}}
         /\ of("type") = {Type(q, p) : q \in {x \in Range(FileQuads(p, c)) : Typed(x)}}
         /\ of("literal") =
              {Literal(q, p) : q \in {x \in A : ~Typed(x) /\ x.lit /\ x.p \in LiteralPredicates}}
<1> DEFINE A == Range(AllQuads(p, c))
           F == Range(FileQuads(p, c))
           R == FileRows[p][c]
           all ==
             {Subject(q, p) : q \in A} \cup {Predicate(q, p) : q \in A} \cup {Object(q, p) : q \in A}
             \cup {Type(q, p) : q \in F} \cup {Link(q, p) : q \in A} \cup {Literal(q, p) : q \in A}
<1>1. R = all \ {Nothing}
  <2>1. UNION {Range(Statements(p, c)[i]) : i \in 1 .. 4} =
          Range(Statements(p, c)[1]) \cup Range(Statements(p, c)[2])
          \cup Range(Statements(p, c)[3]) \cup Range(Statements(p, c)[4])
    <3>1. \A i \in 1 .. 4 : i = 1 \/ i = 2 \/ i = 3 \/ i = 4
      OBVIOUS
    <3>2. 1 \in 1 .. 4 /\ 2 \in 1 .. 4 /\ 3 \in 1 .. 4 /\ 4 \in 1 .. 4
      OBVIOUS
    <3> QED
      BY <3>1, <3>2
  <2>2. UNION {Range(Statements(p, c)[i]) : i \in 1 .. 4} = all
    BY <2>1, StatementRows
  <2> QED
    BY <2>2 DEF FileRows
<1>2. \A q : Typed(q) => Subject(q, p) = Nothing /\ Object(q, p) = Nothing /\ Link(q, p) = Nothing
  BY DEF Subject, Object, Link
<1>3. \A q : q.lit => Object(q, p) = Nothing /\ Link(q, p) = Nothing
  BY DEF Object, Link
<1>4. \A q : ~Typed(q) => Subject(q, p)[1] = "subject" /\ Subject(q, p) # Nothing
  BY DEF Subject, Nothing
<1>5. \A q : ~Typed(q) /\ ~q.lit =>
        /\ Object(q, p)[1] = "object" /\ Object(q, p) # Nothing
        /\ Link(q, p)[1] = "link" /\ Link(q, p) # Nothing
  BY DEF Object, Link, Nothing
<1>6. \A q : /\ Predicate(q, p) # Nothing => Predicate(q, p)[1] = "predicate"
             /\ Type(q, p) # Nothing => Type(q, p)[1] = "type"
             /\ Literal(q, p) # Nothing => Literal(q, p)[1] = "literal"
  BY DEF Predicate, Type, Literal
<1>10. \A q : /\ ~Typed(q) => Predicate(q, p)[1] = "predicate" /\ Predicate(q, p) # Nothing
              /\ Typed(q) => Predicate(q, p) = Nothing
              /\ Typed(q) => Type(q, p)[1] = "type" /\ Type(q, p) # Nothing
              /\ ~Typed(q) => Type(q, p) = Nothing
  BY DEF Predicate, Type, Nothing
<1>11. \A q : /\ ~Typed(q) /\ q.lit /\ q.p \in LiteralPredicates =>
                   Literal(q, p)[1] = "literal" /\ Literal(q, p) # Nothing
              /\ ~(~Typed(q) /\ q.lit /\ q.p \in LiteralPredicates) => Literal(q, p) = Nothing
  BY DEF Literal, Nothing
<1> HIDE DEF R, A, F
<1>7. {r \in R : r[1] = "subject"} = {Subject(q, p) : q \in {x \in A : ~Typed(x)}}
  BY <1>1, <1>2, <1>3, <1>4, <1>5, <1>6
<1>8. {r \in R : r[1] = "object"} = {Object(q, p) : q \in {x \in A : ~Typed(x) /\ ~x.lit}}
  BY <1>1, <1>2, <1>3, <1>4, <1>5, <1>6
<1>9. {r \in R : r[1] = "link"} = {Link(q, p) : q \in {x \in A : ~Typed(x) /\ ~x.lit}}
  BY <1>1, <1>2, <1>3, <1>4, <1>5, <1>6
<1>12. {r \in R : r[1] = "predicate"} = {Predicate(q, p) : q \in {x \in A : ~Typed(x)}}
  BY <1>1, <1>2, <1>3, <1>4, <1>5, <1>6, <1>10
<1>13. {r \in R : r[1] = "type"} = {Type(q, p) : q \in {x \in F : Typed(x)}}
  BY <1>1, <1>2, <1>3, <1>4, <1>5, <1>6, <1>10
<1>14. {r \in R : r[1] = "literal"} =
         {Literal(q, p) : q \in {x \in A : ~Typed(x) /\ x.lit /\ x.p \in LiteralPredicates}}
  BY <1>1, <1>2, <1>3, <1>4, <1>5, <1>6, <1>11
<1> QED
  BY <1>7, <1>8, <1>9, <1>12, <1>13, <1>14 DEF R, A, F

\* What the index has to have of a file is what its rows are.
LEMMA RowsSay ==
  ASSUME NEW p \in Paths, NEW c \in Contents
  PROVE  LET of(k) == {r \in FileRows[p][c] : r[1] = k} IN
         /\ of("link") = {<<"link", t.p, t.o>> : t \in {x \in Plain(p, c) : ~x.lit}}
         /\ of("subject") = {<<"subject", t.s>> : t \in Plain(p, c)}
         /\ of("object") = {<<"object", t.o>> : t \in {x \in Plain(p, c) : ~x.lit}}
         /\ of("predicate") = {<<"predicate", t.p>> : t \in Plain(p, c)}
         /\ of("type") = {<<"type", t.o>> : t \in {x \in Triples(p, c) : Typed(x)}}
         /\ of("literal") = {<<"literal", t.s, t.p, t.o>> :
                              t \in {x \in Plain(p, c) : x.lit /\ x.p \in LiteralPredicates}}
<1> DEFINE A == Range(AllQuads(p, c))
           F == Range(FileQuads(p, c))
           Said(q) == [q EXCEPT !.s = Resolve(q.s, p), !.o = Target(q, p)]
<1>1. \A q \in A : /\ Said(q).s = Resolve(q.s, p) /\ Said(q).o = Target(q, p)
                   /\ Said(q).p = q.p /\ Said(q).lit = q.lit
  <2> SUFFICES ASSUME NEW q \in A
               PROVE  /\ Said(q).s = Resolve(q.s, p) /\ Said(q).o = Target(q, p)
                      /\ Said(q).p = q.p /\ Said(q).lit = q.lit
    OBVIOUS
  <2>1. PICK a, b, d, e : q = [s |-> a, p |-> b, o |-> d, lit |-> e]
    BY QuadsTyped DEF IsQuad
  <2> QED
    BY <2>1
<1>2. Triples(p, c) = {Said(q) : q \in A}
  BY DEF Triples, AllQuads
<1>3. /\ \A q : q.lit \/ Typed(q) => Target(q, p) = q.o
      /\ \A q : ~q.lit /\ ~Typed(q) => Target(q, p) = Resolve(q.o, p)
  BY DEF Target
<1>4. F \subseteq A /\ \A q \in A : Typed(q) => q \in F
  BY QuadsTyped
<1> HIDE DEF A, F, Said
<1>5. /\ Plain(p, c) = {Said(q) : q \in {x \in A : ~Typed(x)}}
      /\ {x \in Triples(p, c) : Typed(x)} = {Said(q) : q \in {x \in F : Typed(x)}}
  BY <1>1, <1>2, <1>4 DEF Plain, Typed
<1>6. /\ {x \in Plain(p, c) : ~x.lit} = {Said(q) : q \in {x \in A : ~Typed(x) /\ ~x.lit}}
      /\ {x \in Plain(p, c) : x.lit /\ x.p \in LiteralPredicates}
           = {Said(q) : q \in {x \in A : ~Typed(x) /\ x.lit /\ x.p \in LiteralPredicates}}
  BY <1>1, <1>5
<1>7. {<<"link", t.p, t.o>> : t \in {x \in Plain(p, c) : ~x.lit}}
        = {Link(q, p) : q \in {x \in A : ~Typed(x) /\ ~x.lit}}
  BY <1>1, <1>3, <1>6 DEF Link
<1>8. {<<"subject", t.s>> : t \in Plain(p, c)} = {Subject(q, p) : q \in {x \in A : ~Typed(x)}}
  BY <1>1, <1>5 DEF Subject
<1>9. {<<"object", t.o>> : t \in {x \in Plain(p, c) : ~x.lit}}
        = {Object(q, p) : q \in {x \in A : ~Typed(x) /\ ~x.lit}}
  BY <1>1, <1>3, <1>6 DEF Object
<1>10. {<<"predicate", t.p>> : t \in Plain(p, c)} = {Predicate(q, p) : q \in {x \in A : ~Typed(x)}}
  BY <1>1, <1>5 DEF Predicate
<1>11. {<<"type", t.o>> : t \in {x \in Triples(p, c) : Typed(x)}}
         = {Type(q, p) : q \in {x \in F : Typed(x)}}
  BY <1>1, <1>3, <1>4, <1>5 DEF Type
<1>12. {<<"literal", t.s, t.p, t.o>> : t \in {x \in Plain(p, c) : x.lit /\ x.p \in LiteralPredicates}}
         = {Literal(q, p) : q \in {x \in A : ~Typed(x) /\ x.lit /\ x.p \in LiteralPredicates}}
  BY <1>1, <1>3, <1>6 DEF Literal
<1> QED
  BY <1>7, <1>8, <1>9, <1>10, <1>11, <1>12, RowsOfFile DEF A, F

-----------------------------------------------------------------------------
(* The writers.                                                            *)

LEMMA LeastOf ==
  ASSUME NEW S, S \subseteq Nat, S # {}
  PROVE  Min(S) \in S
<1>1. PICK x \in S : \A y \in S : ~(<<y, x>> \in OpToRel(<, Nat))
  BY NatLessThanWellFounded, WFMin
<1>2. \A y \in S : ~(y < x)
  BY <1>1 DEF OpToRel
<1>3. \A y \in S : x <= y
  BY <1>2
<1> QED
  BY <1>3, Zenon DEF Min

\* Files that come, that get another content, and that go.
LEMMA Put ==
  ASSUME NEW f, NEW ix, NEW n, Indexed(f, ix, n),
         NEW p \in Paths, NEW i \in Nat, i <= n, NotIn(f, ix, i),
         NEW c \in Contents, NEW d \in Contents
  PROVE  Indexed([f EXCEPT ![p] = [id |-> i, content |-> d, nquads |-> c]],
                 ix \cup ({i} \X FileRows[p][c]), n)
<1> DEFINE g == [f EXCEPT ![p] = [id |-> i, content |-> d, nquads |-> c]]
           R == FileRows[p][c]
           jx == ix \cup ({i} \X R)
<1>1. /\ g \in [Paths -> Entry \cup {NoFile}] /\ g[p].id = i /\ g[p].nquads = c
      /\ \A q \in Paths \ {p} : g[q] = f[q]
  BY DEF Indexed, Entry
<1>2. RowsIn(jx, i) = R
  <2>1. \A r \in R : <<i, r>> \in jx /\ <<i, r>>[1] = i /\ <<i, r>>[2] = r
    OBVIOUS
  <2>2. \A e \in jx : e[1] = i => e[2] \in R
    BY DEF NotIn
  <2> HIDE DEF jx, R
  <2> QED
    BY <2>1, <2>2 DEF RowsIn
<1>3. \A k : k # i => RowsIn(jx, k) = RowsIn(ix, k)
  BY DEF RowsIn
<1>4. \A e \in jx : e = <<e[1], e[2]>> /\ e[1] \in Nat /\ e[1] <= n
  BY DEF Indexed
<1> HIDE DEF g, jx
<1>5. ASSUME NEW q \in Paths, g[q] # NoFile
      PROVE  g[q].id <= n /\ RowsIn(jx, g[q].id) = FileRows[q][g[q].nquads]
  <2>1. CASE q = p
    BY <2>1, <1>1, <1>2
  <2>2. CASE q # p
    BY <2>2, <1>1, <1>3, <1>5 DEF Indexed, NotIn
  <2> QED
    BY <2>1, <2>2
<1>6. \A q, r \in Paths : g[q] # NoFile /\ g[r] # NoFile /\ q # r => g[q].id # g[r].id
  BY <1>1 DEF Indexed, NotIn
<1> QED
  BY <1>1, <1>4, <1>5, <1>6 DEF Indexed, g, jx

LEMMA Changed ==
  ASSUME NEW f, NEW ix, NEW n, Indexed(f, ix, n), NEW p \in Paths, f[p] # NoFile, NEW c \in Contents
  PROVE  Indexed([f EXCEPT ![p].content = c], ix, n)
<1> DEFINE g == [f EXCEPT ![p].content = c]
<1>1. f[p] \in Entry
  BY DEF Indexed
<1>2. /\ g \in [Paths -> Entry \cup {NoFile}] /\ g[p].id = f[p].id /\ g[p].nquads = f[p].nquads
      /\ \A q \in Paths \ {p} : g[q] = f[q]
  BY <1>1 DEF Indexed, Entry
<1> HIDE DEF g
<1> QED
  BY <1>2 DEF Indexed, g

LEMMA Dropped ==
  ASSUME NEW f, NEW ix, NEW n, Indexed(f, ix, n), NEW p \in Paths, f[p] # NoFile
  PROVE  Indexed([f EXCEPT ![p] = NoFile], {e \in ix : e[1] # f[p].id}, n)
<1> DEFINE g == [f EXCEPT ![p] = NoFile]
           jx == {e \in ix : e[1] # f[p].id}
<1>1. /\ g \in [Paths -> Entry \cup {NoFile}] /\ g[p] = NoFile
      /\ \A q \in Paths \ {p} : g[q] = f[q]
  BY DEF Indexed
<1>2. \A k : k # f[p].id => RowsIn(jx, k) = RowsIn(ix, k)
  BY DEF RowsIn
<1>3. \A q \in Paths \ {p} : f[q] # NoFile => f[q].id # f[p].id
  BY DEF Indexed
<1>4. \A e \in jx : e \in ix
  OBVIOUS
<1> HIDE DEF g, jx
<1>5. ASSUME NEW q \in Paths, g[q] # NoFile
      PROVE  g[q].id <= n /\ RowsIn(jx, g[q].id) = FileRows[q][g[q].nquads]
  BY <1>1, <1>2, <1>3, <1>5 DEF Indexed
<1> QED
  BY <1>1, <1>4, <1>5 DEF Indexed, g, jx

LEMMA IndexInit == Init => IndexInv
<1> SUFFICES ASSUME Init PROVE IndexInv
  OBVIOUS
<1>1. PICK start \in Starts :
        LET at(p) == {i \in DOMAIN start : start[i][1] = p}
            entry(i) == [id |-> i, content |-> start[i][2], nquads |-> start[i][2]] IN
        /\ writes = Len(start)
        /\ file = [p \in Paths |-> IF at(p) = {} THEN NoFile ELSE entry(Min(at(p)))]
        /\ index = UNION {{i} \X FileRows[start[i][1]][start[i][2]] : i \in DOMAIN start}
  BY DEF Init
<1> DEFINE at(p) == {i \in DOMAIN start : start[i][1] = p}
<1>2. /\ Len(start) \in Nat /\ DOMAIN start = 1 .. Len(start)
      /\ \A i \in 1 .. Len(start) : start[i] \in Paths \X Contents
  BY ConstantsAssumption, LenProperties, ElementOfSeq DEF ConstantsAssumption
<1>3. \A p \in Paths : at(p) # {} => Min(at(p)) \in 1 .. Len(start) /\ start[Min(at(p))][1] = p
  <2> SUFFICES ASSUME NEW p \in Paths, at(p) # {}
               PROVE  Min(at(p)) \in 1 .. Len(start) /\ start[Min(at(p))][1] = p
    OBVIOUS
  <2>1. at(p) \subseteq Nat
    BY <1>2
  <2>2. Min(at(p)) \in at(p)
    BY <2>1, LeastOf
  <2> QED
    BY <2>2, <1>2
<1>4. \A p \in Paths : file[p] # NoFile =>
        \E i \in 1 .. Len(start) :
          /\ start[i][1] = p /\ start[i][2] \in Contents
          /\ file[p] = [id |-> i, content |-> start[i][2], nquads |-> start[i][2]]
  <2> SUFFICES ASSUME NEW p \in Paths, file[p] # NoFile
               PROVE  \E i \in 1 .. Len(start) :
                        /\ start[i][1] = p /\ start[i][2] \in Contents
                        /\ file[p] = [id |-> i, content |-> start[i][2], nquads |-> start[i][2]]
    OBVIOUS
  <2>1. at(p) # {}
    BY <1>1
  <2>2. PICK i : i = Min(at(p))
    OBVIOUS
  <2>3. i \in 1 .. Len(start) /\ start[i][1] = p
    BY <2>1, <2>2, <1>3
  <2>4. file[p] = [id |-> i, content |-> start[i][2], nquads |-> start[i][2]]
    BY <2>1, <2>2, <1>1
  <2> QED
    BY <2>3, <2>4, <1>2
<1>5. \A e \in index : \E i \in 1 .. Len(start) : e \in {i} \X FileRows[start[i][1]][start[i][2]]
  BY <1>1, <1>2
<1>6. \A i \in 1 .. Len(start) : RowsIn(index, i) = FileRows[start[i][1]][start[i][2]]
  <2> SUFFICES ASSUME NEW i \in 1 .. Len(start) PROVE RowsIn(index, i) = FileRows[start[i][1]][start[i][2]]
    OBVIOUS
  <2>1. ASSUME NEW r \in RowsIn(index, i) PROVE r \in FileRows[start[i][1]][start[i][2]]
    <3>1. PICK e \in index : e[1] = i /\ r = e[2]
      BY <2>1 DEF RowsIn
    <3> QED
      BY <3>1, <1>5
  <2>2. ASSUME NEW r \in FileRows[start[i][1]][start[i][2]] PROVE r \in RowsIn(index, i)
    <3>1. <<i, r>> \in index
      BY <2>2, <1>1, <1>2
    <3> QED
      BY <3>1 DEF RowsIn
  <2> QED
    BY <2>1, <2>2
<1>7. FilesIndexed
  <2>1. writes \in Nat /\ writes = Len(start)
    BY <1>1, <1>2
  <2>2. file \in [Paths -> Entry \cup {NoFile}]
    <3>1. DOMAIN file = Paths /\ file = [p \in Paths |-> file[p]]
      BY <1>1
    <3>2. ASSUME NEW p \in Paths, file[p] # NoFile PROVE file[p] \in Entry
      <4>1. PICK i \in 1 .. Len(start) :
              /\ start[i][2] \in Contents
              /\ file[p] = [id |-> i, content |-> start[i][2], nquads |-> start[i][2]]
        BY <3>2, <1>4
      <4>2. i \in Nat
        BY <1>2
      <4> QED
        BY <4>1, <4>2 DEF Entry
    <3> QED
      BY <3>1, <3>2
  <2>3. \A p \in Paths : file[p] # NoFile =>
          file[p].id <= writes /\ RowsIn(index, file[p].id) = FileRows[p][file[p].nquads]
    <3> SUFFICES ASSUME NEW p \in Paths, file[p] # NoFile
                 PROVE  file[p].id <= writes /\ RowsIn(index, file[p].id) = FileRows[p][file[p].nquads]
      OBVIOUS
    <3>1. PICK i \in 1 .. Len(start) :
            /\ start[i][1] = p
            /\ file[p] = [id |-> i, content |-> start[i][2], nquads |-> start[i][2]]
      BY <1>4
    <3>2. file[p].id = i /\ file[p].nquads = start[i][2]
      BY <3>1
    <3>3. i <= writes
      BY <2>1, <1>2
    <3> QED
      BY <3>1, <3>2, <3>3, <1>6
  <2>4. \A p, q \in Paths : file[p] # NoFile /\ file[q] # NoFile /\ p # q => file[p].id # file[q].id
    <3>1. \A p \in Paths : file[p] # NoFile => start[file[p].id][1] = p
      <4> SUFFICES ASSUME NEW p \in Paths, file[p] # NoFile PROVE start[file[p].id][1] = p
        OBVIOUS
      <4>1. PICK i \in 1 .. Len(start) :
              /\ start[i][1] = p
              /\ file[p] = [id |-> i, content |-> start[i][2], nquads |-> start[i][2]]
        BY <1>4
      <4> QED
        BY <4>1
    <3> QED
      BY <3>1, Zenon
  <2>5. \A e \in index : e = <<e[1], e[2]>> /\ e[1] \in Nat /\ e[1] <= writes
    BY <2>1, <1>2, <1>5
  <2> QED
    BY <2>1, <2>2, <2>3, <2>4, <2>5 DEF FilesIndexed, Indexed
<1>8. Working
  BY DEF Init, Working, Busy
<1> QED
  BY <1>7, <1>8 DEF IndexInv

LEMMA StartStep ==
  ASSUME IndexInv, NEW w \in Writers, NEW p \in Paths, NEW c \in Contents,
         NEW step \in {"insert", "replace", "delete"}, Start(w, p, c, step),
         step # "insert" => file[p] # NoFile
  PROVE  IndexInv'
<1> USE DEF IndexInv
<1>1. /\ writes' = writes + 1 /\ file' = file /\ index' = index
      /\ job' = [job EXCEPT ![w] = [path |-> p, content |-> c, id |-> writes + 1]]
      /\ wpc' = [wpc EXCEPT ![w] = step] /\ ~Locked(p) /\ wpc[w] = "idle"
  BY DEF Start
<1>2. writes \in Nat /\ writes + 1 \in Nat
  BY DEF FilesIndexed, Indexed
<1>3. FilesIndexed'
  <2>1. \A q \in Paths : file[q] # NoFile => file[q].id \in Nat /\ file[q].id <= writes + 1
    BY <1>2 DEF FilesIndexed, Indexed, Entry
  <2>2. \A e \in index : e[1] <= writes + 1
    BY <1>2 DEF FilesIndexed, Indexed
  <2> QED
    BY <2>1, <2>2, <1>1, <1>2 DEF FilesIndexed, Indexed
<1>4. job'[w] = [path |-> p, content |-> c, id |-> writes + 1] /\ wpc'[w] = step
  BY <1>1 DEF Working
<1>5. ASSUME NEW v \in Writers, v # w
      PROVE  job'[v] = job[v] /\ wpc'[v] = wpc[v]
  BY <1>1, <1>5 DEF Working
<1>6. Fresh(w)'
  <2>1. \A q \in Paths : file[q] # NoFile => file[q].id # writes + 1
    BY <1>2 DEF FilesIndexed, Indexed, Entry
  <2>2. \A e \in index : e[1] # writes + 1
    BY <1>2 DEF FilesIndexed, Indexed
  <2> QED
    BY <2>1, <2>2, <1>1, <1>4 DEF Fresh, NotIn
<1>7. ASSUME NEW v \in Writers, v # w, Busy(v)'
      PROVE  /\ job'[v] \in Job /\ job'[v].id <= writes + 1 /\ Fresh(v)'
             /\ wpc'[v] # "insert" => file'[job'[v].path] # NoFile
             /\ job'[v].path # p /\ job'[v].id # writes + 1
  <2>1. Busy(v) /\ job[v] \in Job /\ job[v].id <= writes /\ Fresh(v)
    BY <1>5, <1>7 DEF Busy, Working
  <2>2. job[v].id \in Nat /\ job[v].id <= writes + 1 /\ job[v].id # writes + 1
    BY <2>1, <1>2 DEF Job
  <2>3. job[v].path # p
    BY <2>1, <1>1 DEF Locked, Busy, Working
  <2>4. wpc[v] # "insert" => file[job[v].path] # NoFile
    BY <2>1 DEF Working
  <2> QED
    BY <2>1, <2>2, <2>3, <2>4, <1>1, <1>5, <1>7 DEF Fresh, NotIn
<1>8. Working'
  <2>1. /\ wpc' \in [Writers -> {"idle", "insert", "replace", "delete"}]
        /\ job' \in [Writers -> Job \cup {None}] /\ job'[w] \in Job
    BY <1>1, <1>2, <1>4 DEF Working, Job
  <2>2. ASSUME NEW v \in Writers, Busy(v)'
        PROVE  /\ job'[v] \in Job /\ job'[v].id <= writes' /\ Fresh(v)'
               /\ wpc'[v] # "insert" => file'[job'[v].path] # NoFile
    <3>1. CASE v = w
      BY <3>1, <2>1, <1>1, <1>2, <1>4, <1>6
    <3>2. CASE v # w
      BY <3>2, <2>2, <1>1, <1>7
    <3> QED
      BY <3>1, <3>2
  <2>3. ASSUME NEW u \in Writers, NEW v \in Writers, Busy(u)', Busy(v)', u # v
        PROVE  job'[u].path # job'[v].path /\ job'[u].id # job'[v].id
    <3>1. CASE u # w /\ v # w
      <4>1. Busy(u) /\ Busy(v)
        BY <3>1, <2>3, <1>5 DEF Busy
      <4> QED
        BY <4>1, <3>1, <2>3, <1>5 DEF Working
    <3>2. CASE u = w
      BY <3>2, <2>3, <1>4, <1>7
    <3>3. CASE v = w
      BY <3>3, <2>3, <1>4, <1>7
    <3> QED
      BY <3>1, <3>2, <3>3
  <2> QED
    BY <2>1, <2>2, <2>3 DEF Working, Busy
<1> QED
  BY <1>3, <1>8

\* A writer that has ended, whether it has committed or not.
LEMMA EndStep ==
  ASSUME IndexInv, NEW w \in Writers, NEW done, EndJob(w, done), writes' = writes, FilesIndexed',
         \A v \in Writers \ {w} : Busy(v) =>
           /\ NotIn(file', index', job[v].id)
           /\ wpc[v] # "insert" => file'[job[v].path] # NoFile
  PROVE  IndexInv'
<1> USE DEF IndexInv
<1>1. wpc' = [wpc EXCEPT ![w] = "idle"] /\ job' = [job EXCEPT ![w] = None]
  BY DEF EndJob
<1>2. ~Busy(w)'
  BY <1>1 DEF Busy, Working
<1>3. ASSUME NEW v \in Writers, Busy(v)'
      PROVE  v # w /\ Busy(v) /\ job'[v] = job[v] /\ wpc'[v] = wpc[v]
  BY <1>1, <1>2, <1>3 DEF Working, Busy
<1>4. ASSUME NEW v \in Writers, Busy(v)'
      PROVE  /\ job'[v] \in Job /\ job'[v].id <= writes' /\ Fresh(v)'
             /\ wpc'[v] # "insert" => file'[job'[v].path] # NoFile
  <2>1. v # w /\ Busy(v) /\ job'[v] = job[v] /\ wpc'[v] = wpc[v]
    BY <1>3, <1>4
  <2>2. Fresh(v)'
    BY <2>1 DEF Fresh, NotIn
  <2> QED
    BY <2>1, <2>2 DEF Working
<1>5. /\ wpc' \in [Writers -> {"idle", "insert", "replace", "delete"}]
      /\ job' \in [Writers -> Job \cup {None}]
  BY <1>1 DEF Working
<1>6. \A u, v \in Writers : Busy(u)' /\ Busy(v)' /\ u # v =>
        job'[u].path # job'[v].path /\ job'[u].id # job'[v].id
  BY <1>3 DEF Working
<1> QED
  BY <1>4, <1>5, <1>6 DEF Working, Busy

LEMMA CommitStep ==
  ASSUME IndexInv, NEW w \in Writers, Commit(w) PROVE IndexInv'
<1> USE DEF IndexInv
<1>1. PICK j : j = job[w]
  OBVIOUS
<1>2. /\ wpc[w] = "insert" /\ Left(w) = {} /\ writes' = writes /\ EndJob(w, TRUE)
      /\ file' = [file EXCEPT ![j.path] = [id |-> j.id, content |-> j.content, nquads |-> j.content]]
      /\ index' = index \cup ({j.id} \X (FileRows[j.path][j.content] \cap (rows \cup held[w])))
  BY <1>1 DEF Commit
<1>3. Busy(w) /\ j \in Job /\ j.id <= writes /\ NotIn(file, index, j.id)
  BY <1>1, <1>2 DEF Working, Busy, Fresh
<1>4. j.path \in Paths /\ j.content \in Contents /\ j.id \in Nat
  BY <1>3 DEF Job
<1>5. FileRows[j.path][j.content] \subseteq rows \cup held[w]
  <2>1. \A i \in 1 .. 4 : NeededRows[j.path][j.content][i] \subseteq There(w)
    BY <1>1, <1>2 DEF Left
  <2> QED
    BY <2>1, <1>4, NothingLeft DEF There
<1>6. index' = index \cup ({j.id} \X FileRows[j.path][j.content])
  <2>1. FileRows[j.path][j.content] \cap (rows \cup held[w]) = FileRows[j.path][j.content]
    BY <1>5
  <2> QED
    BY <2>1, <1>2
<1>7. FilesIndexed'
  <2>1. Indexed(file, index, writes)
    BY DEF FilesIndexed
  <2>2. PICK g : g = [file EXCEPT ![j.path] = [id |-> j.id, content |-> j.content, nquads |-> j.content]]
    OBVIOUS
  <2>3. PICK jx : jx = index \cup ({j.id} \X FileRows[j.path][j.content])
    OBVIOUS
  <2>4. Indexed(g, jx, writes)
    BY <2>1, <2>2, <2>3, <1>3, <1>4, Put
  <2> QED
    BY <2>2, <2>3, <2>4, <1>2, <1>6 DEF FilesIndexed
<1>8. /\ file'[j.path] = [id |-> j.id, content |-> j.content, nquads |-> j.content]
      /\ file'[j.path] # NoFile
      /\ \A p \in Paths \ {j.path} : file'[p] = file[p]
  <2>1. file'[j.path] = [id |-> j.id, content |-> j.content, nquads |-> j.content]
    BY <1>2, <1>4 DEF FilesIndexed, Indexed
  <2>2. NoFile \notin [id : Nat, content : Contents, nquads : Contents]
    BY ConstantsAssumption DEF ConstantsAssumption
  <2> QED
    BY <2>1, <2>2, <1>2, <1>4 DEF FilesIndexed, Indexed
<1>9. ASSUME NEW v \in Writers \ {w}, Busy(v)
       PROVE  /\ NotIn(file', index', job[v].id)
              /\ wpc[v] # "insert" => file'[job[v].path] # NoFile
  <2>1. /\ job[v].id # j.id /\ job[v].path # j.path /\ job[v].path \in Paths
        /\ NotIn(file, index, job[v].id)
        /\ wpc[v] # "insert" => file[job[v].path] # NoFile
    BY <1>1, <1>3, <1>9 DEF Working, Job, Fresh
  <2>2. \A p \in Paths : file'[p] # NoFile => file'[p].id # job[v].id
    BY <2>1, <1>8 DEF NotIn
  <2>3. \A e \in index' : e[1] # job[v].id
    BY <2>1, <1>6 DEF NotIn
  <2> QED
    BY <2>1, <2>2, <2>3, <1>8 DEF NotIn
<1> QED
  BY <1>2, <1>7, <1>9, EndStep

LEMMA ReplaceStep ==
  ASSUME IndexInv, NEW w \in Writers, Replace(w) PROVE IndexInv'
<1> USE DEF IndexInv
<1>1. PICK j : j = job[w]
  OBVIOUS
<1>2. /\ wpc[w] = "replace" /\ writes' = writes /\ index' = index /\ EndJob(w, TRUE)
      /\ file' = [file EXCEPT ![j.path].content = j.content]
  BY <1>1 DEF Replace
<1>3. /\ Busy(w) /\ j \in Job /\ j.path \in Paths /\ j.content \in Contents
      /\ file[j.path] # NoFile
  BY <1>1, <1>2 DEF Working, Busy, Job
<1>4. FilesIndexed'
  BY <1>2, <1>3, Changed DEF FilesIndexed
<1>5. file'[j.path].id = file[j.path].id /\ \A p \in Paths \ {j.path} : file'[p] = file[p]
  BY <1>2, <1>3 DEF FilesIndexed, Indexed, Entry
<1>6. ASSUME NEW v \in Writers \ {w}, Busy(v)
      PROVE  /\ NotIn(file', index', job[v].id)
             /\ wpc[v] # "insert" => file'[job[v].path] # NoFile
  <2>1. /\ job[v].path # j.path /\ job[v].path \in Paths /\ NotIn(file, index, job[v].id)
        /\ wpc[v] # "insert" => file[job[v].path] # NoFile
    BY <1>1, <1>3, <1>6 DEF Working, Job, Fresh
  <2> QED
    BY <2>1, <1>2, <1>3, <1>5 DEF NotIn
<1> QED
  BY <1>2, <1>4, <1>6, EndStep

LEMMA DeleteStep ==
  ASSUME IndexInv, NEW w \in Writers, Delete(w) PROVE IndexInv'
<1> USE DEF IndexInv
<1>1. PICK p : p = job[w].path
  OBVIOUS
<1>2. /\ wpc[w] = "delete" /\ writes' = writes /\ EndJob(w, TRUE)
      /\ index' = {e \in index : e[1] # file[p].id} /\ file' = [file EXCEPT ![p] = NoFile]
  BY <1>1 DEF Delete, Without
<1>3. Busy(w) /\ p \in Paths /\ file[p] # NoFile
  BY <1>1, <1>2 DEF Working, Busy, Job
<1>4. FilesIndexed'
  BY <1>2, <1>3, Dropped DEF FilesIndexed
<1>5. file'[p] = NoFile /\ \A q \in Paths \ {p} : file'[q] = file[q]
  BY <1>2, <1>3 DEF FilesIndexed, Indexed
<1>6. ASSUME NEW v \in Writers \ {w}, Busy(v)
      PROVE  /\ NotIn(file', index', job[v].id)
             /\ wpc[v] # "insert" => file'[job[v].path] # NoFile
  <2>1. /\ job[v].path # p /\ job[v].path \in Paths /\ NotIn(file, index, job[v].id)
        /\ wpc[v] # "insert" => file[job[v].path] # NoFile
    BY <1>1, <1>3, <1>6 DEF Working, Job, Fresh
  <2> QED
    BY <2>1, <1>2, <1>5 DEF NotIn
<1> QED
  BY <1>2, <1>4, <1>6, EndStep

LEMMA FailStep ==
  ASSUME IndexInv, NEW w \in Writers, Fail(w) PROVE IndexInv'
<1>1. file' = file /\ index' = index /\ writes' = writes /\ EndJob(w, FALSE)
  BY DEF Fail
<1>2. FilesIndexed'
  BY <1>1 DEF IndexInv, FilesIndexed
<1>3. \A v \in Writers : Busy(v) =>
        /\ NotIn(file', index', job[v].id)
        /\ wpc[v] # "insert" => file'[job[v].path] # NoFile
  BY <1>1 DEF IndexInv, Working, Fresh
<1> QED
  BY <1>1, <1>2, <1>3, EndStep

LEMMA BeginStep ==
  ASSUME IndexInv, NEW w \in Writers, BeginWrite(w) \/ BeginDelete(w) PROVE IndexInv'
<1>1. CASE BeginWrite(w)
  <2>1. PICK u \in Uploads :
          Start(w, u[1], u[2], IF file[u[1]] = NoFile THEN "insert" ELSE "replace")
    BY <1>1 DEF BeginWrite
  <2>2. u[1] \in Paths /\ u[2] \in Contents
    BY ConstantsAssumption DEF ConstantsAssumption
  <2> QED
    BY <2>1, <2>2, StartStep
<1>2. CASE BeginDelete(w)
  <2>1. PICK p \in Paths : file[p] # NoFile /\ Start(w, p, file[p].content, "delete")
    BY <1>2 DEF BeginDelete
  <2>2. file[p].content \in Contents
    BY <2>1 DEF IndexInv, FilesIndexed, Indexed, Entry
  <2> QED
    BY <2>1, <2>2, StartStep
<1> QED
  BY <1>1, <1>2

\* The rows a write has inserted, the directories and the readers are no part of it.
LEMMA OtherStep ==
  ASSUME IndexInv, UNCHANGED <<file, index, writes, wpc, job>> PROVE IndexInv'
BY DEF IndexInv, FilesIndexed, Working, Busy, Fresh

LEMMA IndexStep == IndexInv /\ [Next]_vars => IndexInv'
<1> SUFFICES ASSUME IndexInv, [Next]_vars PROVE IndexInv'
  OBVIOUS
<1>1. CASE \E w \in Writers : Write(w)
  <2>1. PICK w \in Writers : Write(w)
    BY <1>1
  <2>2. CASE BeginWrite(w) \/ BeginDelete(w)
    BY <2>2, BeginStep
  <2>3. CASE InsertRows(w)
    BY <2>3, OtherStep DEF InsertRows, store
  <2>4. CASE Fail(w)
    BY <2>4, FailStep
  <2>5. CASE Commit(w)
    BY <2>5, CommitStep
  <2>6. CASE Replace(w)
    BY <2>6, ReplaceStep
  <2>7. CASE Delete(w)
    BY <2>7, DeleteStep
  <2> QED
    BY <2>1, <2>2, <2>3, <2>4, <2>5, <2>6, <2>7 DEF Write
<1>2. CASE Chmod
  BY <1>2, OtherStep DEF Chmod, store, writers
<1>3. CASE \E r \in Readers : Read(r)
  <2>1. UNCHANGED <<store, writers>>
    BY <1>3 DEF Read, Ask, Check, Row, Links, Query, ReadQuads, Done
  <2> QED
    BY <2>1, OtherStep DEF store, writers
<1>4. CASE UNCHANGED vars
  BY <1>4, OtherStep DEF vars, store, writers
<1> QED
  BY <1>1, <1>2, <1>3, <1>4 DEF Next

\* The invariant of the writers of src/src/lib/ld.js and src/src/index.js: files have
\* ids of their own and the index, under each, the rows the file was created with; a
\* write has an id that nothing is stored under, and a path that no other write has.
THEOREM IndexInvariant == Spec => []IndexInv
BY IndexInit, IndexStep, PTL DEF Spec

\* What the index was told of a file: what the content it was created with says.
Told == [p \in Paths |-> IF file[p] = NoFile THEN {} ELSE Triples(p, file[p].nquads)]
ToldBy(p) == Untyped(Told[p])

LEMMA ToldUnlessReplaced ==
  ASSUME NEW p \in Paths, ~Replaced(p) PROVE Told[p] = Says[p]
<1>1. CASE file[p] = NoFile
  BY <1>1 DEF Told, Says
<1>2. CASE file[p] # NoFile
  <2>1. FileQuads(p, file[p].content) = FileQuads(p, file[p].nquads)
    BY <1>2 DEF Replaced, FileQuads
  <2>2. Triples(p, file[p].content) = Triples(p, file[p].nquads)
    BY <2>1 DEF Triples
  <2> QED
    BY <1>2, <2>2 DEF Told, Says
<1> QED
  BY <1>1, <1>2

\* rdf.insert(): whatever other writers do and however many of them fail half-way, the
\* index has of each file the links, subjects and objects of its content and no others;
\* but for linked data that was replaced by another content, whose old triples stay
\* (index.js:318).
THEOREM IndexIsOfFiles == Spec => []IndexMatches
<1>1. IndexInv => IndexMatches
  <2> SUFFICES ASSUME IndexInv, NEW p \in Paths, file[p] # NoFile, ~Replaced(p)
               PROVE  IndexIs(p)
    BY DEF IndexMatches
  <2>1. PICK c : c = file[p].nquads
    OBVIOUS
  <2>2. c \in Contents /\ RowsOf(file[p].id) = FileRows[p][c]
    BY <2>1 DEF IndexInv, FilesIndexed, Indexed, Entry, RowsOf, RowsIn
  <2>3. Untyped(Says[p]) = Plain(p, c)
    BY <2>1, ToldUnlessReplaced DEF Told, Untyped, Plain
  <2> QED
    BY <2>2, <2>3, RowsSay DEF IndexIs
<1> QED
  BY <1>1, IndexInvariant, PTL

-----------------------------------------------------------------------------
(* What is asked: the invariant of the rows, of the companions and of the  *)
(* readers.                                                                *)

\* The rows a transaction sees are closed: no row comes before its URIs.
UrisThere(rs) ==
  \A r \in rs : r[1] # "uri" => \A u \in Range(UrisOf(r)) \ {Nothing} : u \in rs

HasId(f, i) == \E p \in Paths : f[p] # NoFile /\ f[p].id = i

\* No entry of the index without its row and its file; a file is inserted where there
\* is none.
RowsOwned ==
  /\ \A e \in index : e[2] \in rows /\ HasId(file, e[1])
  /\ \A p \in Paths : file[p] # NoFile => file[p].id >= 1
  /\ \A w \in Writers : Busy(w) =>
       job[w].id >= 1 /\ (wpc[w] = "insert" => file[job[w].path] = NoFile)
  /\ writes <= MaxWrites /\ open \subseteq Range(DirOf)
RowsClosed ==
  /\ held = [w \in Writers |-> held[w]] /\ UrisThere(rows)
  /\ \A w \in Writers : UrisThere(rows \cup held[w])

\* The companion of a content is that of its quads, whoever made it.
Pairs(c) == {<<AnyFile(q.s), q.p, q.o>> : q \in Range(Quads[c])}
Companions ==
  /\ nq = [c \in Contents |-> nq[c]]
  /\ \A c \in Contents : nq[c] # None => {<<AnyFile(q.s), q.p, q.o>> : q \in nq[c]} = Pairs(c)

TablesInv == IndexInv /\ RowsOwned /\ RowsClosed /\ Companions


\* The URIs of a row are inserted before it.
LEMMA UrisFirst ==
  ASSUME NEW S, NEW rs \in Seq(S), NEW k \in DOMAIN Inserts(rs), NEW r, r = Inserts(rs)[k],
         r # Nothing, r[1] # "uri", NEW u \in Range(UrisOf(r)) \ {Nothing}
  PROVE  \E j \in DOMAIN Inserts(rs) : j < k /\ Inserts(rs)[j] = u
<1>1. Len(rs) \in Nat /\ DOMAIN Inserts(rs) = 1 .. 3 * Len(rs)
  BY LenProperties DEF Inserts
<1>2. PICK a : a = (k - 1) \div 3
  OBVIOUS
<1>3. PICK m : m = (k - 1) % 3
  OBVIOUS
<1>4. /\ k \in 1 .. 3 * Len(rs) /\ a \in Nat /\ m \in 0 .. 2 /\ k = 3 * a + m + 1
  <2>1. PICK x : x = k - 1
    OBVIOUS
  <2>2. k \in 1 .. 3 * Len(rs) /\ x \in Nat /\ k = x + 1
    BY <1>1, <2>1
  <2>3. x \div 3 \in Nat /\ x % 3 \in 0 .. 2 /\ x = 3 * (x \div 3) + (x % 3)
    BY <2>2
  <2> QED
    BY <1>2, <1>3, <2>1, <2>2, <2>3
<1>5. r = WithUris(rs[a + 1])[m + 1]
  BY <1>1, <1>2, <1>3, <1>4 DEF Inserts
<1>6. PICK x : x = rs[a + 1]
  OBVIOUS
<1>7. x # Nothing
  <2> SUFFICES ASSUME x = Nothing PROVE FALSE
    OBVIOUS
  <2>1. m + 1 = 1 \/ m + 1 = 2 \/ m + 1 = 3
    BY <1>4
  <2> QED
    BY <2>1, <1>5, <1>6 DEF WithUris, Nothing
<1>8. /\ UrisOf(x) = <<UrisOf(x)[1], UrisOf(x)[2]>>
      /\ UrisOf(x)[1] = Nothing \/ UrisOf(x)[1][1] = "uri"
      /\ UrisOf(x)[2] = Nothing \/ UrisOf(x)[2][1] = "uri"
  BY DEF UrisOf
<1>9. WithUris(x)[1] = UrisOf(x)[1] /\ WithUris(x)[2] = UrisOf(x)[2] /\ WithUris(x)[3] = x
  BY <1>7 DEF WithUris
<1>10. m = 2 /\ r = x
  <2>1. m = 0 \/ m = 1 \/ m = 2
    BY <1>4
  <2>2. CASE m = 0
    BY <2>2, <1>5, <1>6, <1>8, <1>9
  <2>3. CASE m = 1
    BY <2>3, <1>5, <1>6, <1>8, <1>9
  <2>4. CASE m = 2
    BY <2>4, <1>5, <1>6, <1>9
  <2> QED
    BY <2>1, <2>2, <2>3, <2>4
<1>11. PICK n \in {1, 2} : u = UrisOf(x)[n]
  <2>1. PICK y, z : UrisOf(x) = <<y, z>>
    BY <1>8
  <2>2. Range(<<y, z>>) = {y, z}
    BY DEF Range
  <2>3. u = y \/ u = z
    BY <2>1, <2>2, <1>10
  <2> QED
    BY <2>1, <2>3
<1>12. PICK j : j = 3 * a + n
  OBVIOUS
<1>13. /\ j \in 1 .. 3 * Len(rs) /\ j < k /\ ((j - 1) \div 3) + 1 = a + 1 /\ ((j - 1) % 3) + 1 = n
  <2>1. n = 1 \/ n = 2
    OBVIOUS
  <2> QED
    BY <2>1, <1>1, <1>4, <1>10, <1>12
<1>14. Inserts(rs)[j] = WithUris(x)[n]
  BY <1>13, <1>6 DEF Inserts
<1>15. WithUris(x)[n] = u
  BY <1>9, <1>11
<1> QED
  BY <1>1, <1>13, <1>14, <1>15

LEMMA NeededUris ==
  ASSUME NEW p \in Paths, NEW c \in Contents, NEW i \in 1 .. 4
  PROVE  UrisThere(NeededRows[p][c][i])
<1>1. PICK S : Statements(p, c)[i] \in Seq(S)
  BY StatementRows
<1>2. PICK s : s = Inserts(Statements(p, c)[i])
  OBVIOUS
<1>3. NeededRows[p][c][i] = Range(s) \ {Nothing}
  BY <1>2 DEF NeededRows, Needed
<1> SUFFICES ASSUME NEW r \in Range(s) \ {Nothing}, r[1] # "uri",
                    NEW u \in Range(UrisOf(r)) \ {Nothing}
             PROVE  u \in Range(s)
  BY <1>3 DEF UrisThere
<1>4. PICK k \in DOMAIN s : s[k] = r
  BY DEF Range
<1>5. PICK j \in DOMAIN s : s[j] = u
  BY <1>1, <1>2, <1>4, UrisFirst
<1> QED
  BY <1>5 DEF Range

LEMMA ClosedUnion ==
  ASSUME NEW A, NEW B, UrisThere(A), UrisThere(B)
  PROVE  UrisThere(A \cup B)
<1> SUFFICES ASSUME NEW r \in A \cup B, r[1] # "uri", NEW u \in Range(UrisOf(r)) \ {Nothing}
             PROVE  u \in A \cup B
  BY DEF UrisThere
<1> QED
  BY DEF UrisThere

LEMMA InsertRowsCloses ==
  ASSUME IndexInv, RowsClosed, NEW w \in Writers, InsertRows(w)
  PROVE  RowsClosed'
<1>1. PICK j : j = job[w]
  OBVIOUS
<1>2. PICK i : i = Min(Left(w))
  OBVIOUS
<1>3. j.path \in Paths /\ j.content \in Contents
  BY <1>1 DEF IndexInv, Working, Busy, InsertRows, Job
<1>4. i \in 1 .. 4
  <2>1. Left(w) # {} /\ Left(w) \subseteq 1 .. 4 /\ Left(w) \subseteq Nat
    BY DEF InsertRows, Left
  <2> QED
    BY <2>1, <1>2, LeastOf
<1>5. PICK s : s = Statement(w)
  OBVIOUS
<1>6. s = Inserts(Statements(j.path, j.content)[i])
  BY <1>1, <1>2, <1>3, <1>4, <1>5 DEF Statement, Needed
<1>7. PICK S : Statements(j.path, j.content)[i] \in Seq(S)
  BY <1>3, <1>4, StatementRows
<1>8. PICK There0 : There0 = rows \cup held[w]
  OBVIOUS
<1>9. PICK M : M = {k \in DOMAIN s : s[k] \notin There0 \cup {Nothing}}
  OBVIOUS
<1>10. PICK B : B = Blocked(w)
  OBVIOUS
<1>11. M = Missing(w) /\ B \subseteq M
  BY <1>5, <1>8, <1>9, <1>10 DEF Missing, There, Blocked
<1>12. PICK N : N = {k \in M : \A b \in B : k < b}
  OBVIOUS
<1>13. /\ rows' = rows /\ held' = [held EXCEPT ![w] = @ \cup {s[k] : k \in N}]
  BY <1>5, <1>10, <1>11, <1>12 DEF InsertRows, store
<1>14. DOMAIN s \subseteq Nat
  BY <1>6, <1>7, LenProperties DEF Inserts
<1>15. UrisThere(There0 \cup {s[k] : k \in N})
  <2> SUFFICES ASSUME NEW r \in There0 \cup {s[k] : k \in N}, r[1] # "uri",
                      NEW u \in Range(UrisOf(r)) \ {Nothing}
               PROVE  u \in There0 \cup {s[k] : k \in N}
    BY DEF UrisThere
  <2>1. CASE r \in There0
    BY <2>1, <1>8 DEF RowsClosed, UrisThere
  <2>2. CASE r \notin There0
    <3>1. PICK k \in N : r = s[k]
      BY <2>2
    <3>2. k \in DOMAIN s /\ r # Nothing /\ \A b \in B : k < b
      BY <3>1, <1>9, <1>12
    <3>3. PICK l \in DOMAIN s : l < k /\ s[l] = u
      BY <3>1, <3>2, <1>6, <1>7, UrisFirst
    <3>4. CASE u \in There0
      BY <3>4
    <3>5. CASE u \notin There0
      <4>1. l \in M
        BY <3>3, <3>5, <1>9
      <4>2. \A b \in B : l < b
        BY <3>2, <3>3, <1>9, <1>11, <1>14
      <4> QED
        BY <4>1, <4>2, <3>3, <1>12
    <3> QED
      BY <3>4, <3>5
  <2> QED
    BY <2>1, <2>2
<1>16. /\ held'[w] = held[w] \cup {s[k] : k \in N} /\ \A v \in Writers \ {w} : held'[v] = held[v]
       /\ held' = [v \in Writers |-> held'[v]]
  BY <1>13 DEF RowsClosed
<1>17. rows \cup held'[w] = There0 \cup {s[k] : k \in N}
  BY <1>8, <1>16
<1>18. \A v \in Writers : UrisThere(rows \cup held'[v])
  BY <1>15, <1>16, <1>17 DEF RowsClosed
<1> QED
  BY <1>13, <1>16, <1>18 DEF RowsClosed, UrisThere

LEMMA EndJobCloses ==
  ASSUME RowsClosed, NEW w \in Writers, NEW done \in BOOLEAN, EndJob(w, done)
  PROVE  RowsClosed'
<1>1. /\ held' = [held EXCEPT ![w] = {}]
      /\ rows' = IF done THEN rows \cup held[w] ELSE rows
  BY DEF EndJob
<1>2. /\ held'[w] = {} /\ \A v \in Writers \ {w} : held'[v] = held[v]
      /\ held' = [v \in Writers |-> held'[v]]
  BY <1>1 DEF RowsClosed
<1>3. UrisThere(rows')
  <2>1. CASE done
    BY <2>1, <1>1 DEF RowsClosed
  <2>2. CASE ~done
    BY <2>2, <1>1 DEF RowsClosed
  <2> QED
    BY <2>1, <2>2
<1>4. ASSUME NEW v \in Writers PROVE UrisThere(rows' \cup held'[v])
  <2>1. CASE v = w
    <3>1. rows' \cup held'[v] = rows'
      BY <2>1, <1>2
    <3> QED
      BY <3>1, <1>3
  <2>2. CASE v # w
    <3>1. UrisThere(rows' \cup (rows \cup held[v]))
      BY <1>3, ClosedUnion DEF RowsClosed
    <3>2. rows' \cup (rows \cup held[v]) = rows' \cup held'[v]
      BY <2>2, <1>1, <1>2
    <3> QED
      BY <3>1, <3>2
  <2> QED
    BY <2>1, <2>2
<1>5. UrisThere(rows)'
  BY <1>3 DEF UrisThere
<1>6. \A v \in Writers : UrisThere(rows \cup held[v])'
  BY <1>4 DEF UrisThere
<1> QED
  BY <1>2, <1>5, <1>6 DEF RowsClosed

LEMMA ClosedStays ==
  ASSUME RowsClosed, UNCHANGED <<rows, held>> PROVE RowsClosed'
BY DEF RowsClosed, UrisThere

LEMMA QuadfilePairs ==
  ASSUME NEW p \in Paths, NEW c \in Contents, Quadfile(p, c) # None
  PROVE  {<<AnyFile(q.s), q.p, q.o>> : q \in Quadfile(p, c)} = Pairs(c)
<1> DEFINE Made0(q) == [q EXCEPT !.s = Resolve(q.s, p)]
           Q == Range(Quads[c])
<1>1. p \in RdfPaths
  BY DEF Quadfile, FileQuads
<1>2. Quadfile(p, c) = {Made0(q) : q \in Q}
  BY <1>1 DEF Quadfile, FileQuads
<1>3. \A q \in Q : AnyFile(Made0(q).s) = AnyFile(q.s) /\ Made0(q).p = q.p /\ Made0(q).o = q.o
  <2> SUFFICES ASSUME NEW q \in Q
               PROVE  AnyFile(Made0(q).s) = AnyFile(q.s) /\ Made0(q).p = q.p /\ Made0(q).o = q.o
    OBVIOUS
  <2>1. PICK a, b, d, e : q = [s |-> a, p |-> b, o |-> d, lit |-> e]
    BY ConstantsAssumption DEF ConstantsAssumption
  <2>2. Made0(q).s = Resolve(q.s, p) /\ Made0(q).p = q.p /\ Made0(q).o = q.o
    BY <2>1
  <2>3. AnyFile(Resolve(q.s, p)) = AnyFile(q.s)
    BY DEF AnyFile, Resolve
  <2> QED
    BY <2>2, <2>3
<1>4. Pairs(c) = {<<AnyFile(q.s), q.p, q.o>> : q \in Q}
  BY DEF Pairs
<1> HIDE DEF Made0, Q
<1> QED
  BY <1>2, <1>3, <1>4

LEMMA CompanionsStep ==
  ASSUME IndexInv, Companions, NEW w \in Writers, Write(w)
  PROVE  Companions'
<1>1. CASE Commit(w)
  <2>1. PICK j : j = job[w]
    OBVIOUS
  <2>2. j.path \in Paths /\ j.content \in Contents
    BY <1>1, <2>1 DEF IndexInv, Working, Busy, Commit, Job
  <2>3. nq' = IF nq[j.content] # None THEN nq ELSE [nq EXCEPT ![j.content] = Quadfile(j.path, j.content)]
    BY <1>1, <2>1 DEF Commit, Finalize
  <2>4. \A c \in Contents : nq'[c] = nq[c] \/ (c = j.content /\ nq'[c] = Quadfile(j.path, c))
    BY <2>3 DEF Companions
  <2>5. nq' = [c \in Contents |-> nq'[c]]
    BY <2>3 DEF Companions
  <2> QED
    BY <2>2, <2>4, <2>5, QuadfilePairs DEF Companions, Pairs
<1>2. CASE Delete(w)
  <2>1. PICK c, p : nq' = Reclaim(c, p)
    BY <1>2 DEF Delete
  <2>2. /\ nq' = [d \in Contents |-> nq'[d]]
        /\ \A d \in Contents : nq'[d] = nq[d] \/ nq'[d] = None
    BY <2>1 DEF Reclaim, Companions
  <2> QED
    BY <2>2 DEF Companions, Pairs
<1>3. CASE ~Commit(w) /\ ~Delete(w)
  <2>1. nq' = nq
    BY <1>3 DEF Write, BeginWrite, BeginDelete, Start, InsertRows, store, Fail, Replace
  <2> QED
    BY <2>1 DEF Companions, Pairs
<1> QED
  BY <1>1, <1>2, <1>3

\* What a step may do to RowsOwned: files that come and go with their rows, and jobs.
LEMMA OwnedFrame ==
  ASSUME RowsOwned, IndexInv, rows \subseteq rows',
         \A e \in index' : e \in index \/ e[2] \in rows',
         \A e \in index' : HasId(file', e[1]),
         \A p \in Paths : file'[p] # NoFile => file'[p].id >= 1,
         \A w \in Writers : Busy(w)' =>
           job'[w].id >= 1 /\ (wpc'[w] = "insert" => file'[job'[w].path] = NoFile),
         writes' <= MaxWrites, open' \subseteq Range(DirOf)
  PROVE  RowsOwned'
BY DEF RowsOwned, HasId, Busy

\* A writer that ends, and one that begins.
LEMMA OwnedEnd ==
  ASSUME RowsOwned, IndexInv, NEW w \in Writers, NEW done \in BOOLEAN, EndJob(w, done),
         \A e \in index' : e \in index \/ e[2] \in rows',
         \A e \in index' : HasId(file', e[1]),
         \A p \in Paths : file'[p] # NoFile => file'[p].id >= 1,
         \A v \in Writers \ {w} : Busy(v) /\ wpc[v] = "insert" => file'[job[v].path] = NoFile,
         writes' = writes, open' = open
  PROVE  RowsOwned'
<1>1. /\ wpc' = [wpc EXCEPT ![w] = "idle"] /\ job' = [job EXCEPT ![w] = None]
      /\ rows \subseteq rows'
  BY DEF EndJob
<1>2. /\ ~Busy(w)'
      /\ \A v \in Writers \ {w} : job'[v] = job[v] /\ wpc'[v] = wpc[v]
  BY <1>1 DEF Busy, IndexInv, Working
<1>3. \A v \in Writers : Busy(v)' =>
        job'[v].id >= 1 /\ (wpc'[v] = "insert" => file'[job'[v].path] = NoFile)
  <2> SUFFICES ASSUME NEW v \in Writers, Busy(v)'
               PROVE  job'[v].id >= 1 /\ (wpc'[v] = "insert" => file'[job'[v].path] = NoFile)
    OBVIOUS
  <2>1. v # w /\ job'[v] = job[v] /\ wpc'[v] = wpc[v] /\ Busy(v)
    BY <1>2 DEF Busy
  <2> QED
    BY <2>1 DEF RowsOwned
<1>4. writes' <= MaxWrites /\ open' \subseteq Range(DirOf)
  BY DEF RowsOwned
<1> QED
  BY <1>1, <1>3, <1>4, OwnedFrame

LEMMA OwnedStart ==
  ASSUME RowsOwned, IndexInv, NEW w \in Writers, NEW p \in Paths, NEW c \in Contents,
         NEW step \in {"insert", "replace", "delete"}, Start(w, p, c, step),
         step = "insert" => file[p] = NoFile
  PROVE  RowsOwned'
<1>1. /\ writes' = writes + 1 /\ writes < MaxWrites /\ file' = file /\ index' = index
      /\ rows' = rows /\ open' = open
      /\ job' = [job EXCEPT ![w] = [path |-> p, content |-> c, id |-> writes + 1]]
      /\ wpc' = [wpc EXCEPT ![w] = step]
  BY DEF Start, rights
<1>2. writes \in Nat /\ MaxWrites \in Nat
  BY ConstantsAssumption DEF IndexInv, FilesIndexed, Indexed, ConstantsAssumption
<1>3. /\ job'[w].id = writes + 1 /\ job'[w].path = p /\ wpc'[w] = step
      /\ \A v \in Writers \ {w} : job'[v] = job[v] /\ wpc'[v] = wpc[v]
  BY <1>1 DEF IndexInv, Working
<1>4. \A v \in Writers : Busy(v)' =>
        job'[v].id >= 1 /\ (wpc'[v] = "insert" => file'[job'[v].path] = NoFile)
  BY <1>1, <1>2, <1>3 DEF RowsOwned, Busy
<1>5. writes' <= MaxWrites
  BY <1>1, <1>2
<1> QED
  BY <1>1, <1>4, <1>5, OwnedFrame DEF RowsOwned

LEMMA OwnedCommit ==
  ASSUME RowsOwned, IndexInv, NEW w \in Writers, Commit(w) PROVE RowsOwned'
<1>1. PICK j : j = job[w]
  OBVIOUS
<1>2. /\ wpc[w] = "insert" /\ writes' = writes /\ open' = open /\ EndJob(w, TRUE)
      /\ file' = [file EXCEPT ![j.path] = [id |-> j.id, content |-> j.content, nquads |-> j.content]]
      /\ index' = index \cup ({j.id} \X (FileRows[j.path][j.content] \cap (rows \cup held[w])))
      /\ rows' = rows \cup held[w]
  BY <1>1 DEF Commit, EndJob, rights
<1>3. /\ Busy(w) /\ j \in Job /\ j.path \in Paths /\ j.content \in Contents /\ j.id \in Nat /\ j.id >= 1
      /\ file[j.path] = NoFile
  BY <1>1, <1>2 DEF IndexInv, RowsOwned, Working, Busy, Job
<1>4. NoFile \notin [id : Nat, content : Contents, nquads : Contents]
  BY ConstantsAssumption DEF ConstantsAssumption
<1>5. /\ file'[j.path] # NoFile /\ file'[j.path].id = j.id
      /\ \A p \in Paths \ {j.path} : file'[p] = file[p]
  BY <1>2, <1>3, <1>4 DEF IndexInv, FilesIndexed, Indexed
<1>6. \A e \in index' : e \in index \/ (e[1] = j.id /\ e[2] \in rows')
  BY <1>2
<1>7. \A i : HasId(file, i) => HasId(file', i)
  BY <1>3, <1>5 DEF HasId
<1>8. HasId(file', j.id)
  BY <1>3, <1>5 DEF HasId
<1>9. \A e \in index' : HasId(file', e[1])
  BY <1>6, <1>7, <1>8 DEF RowsOwned
<1>10. \A p \in Paths : file'[p] # NoFile => file'[p].id >= 1
  BY <1>3, <1>5 DEF RowsOwned
<1>11. \A v \in Writers \ {w} : Busy(v) /\ wpc[v] = "insert" => file'[job[v].path] = NoFile
  BY <1>1, <1>3, <1>5 DEF RowsOwned, IndexInv, Working, Job
<1> QED
  BY <1>2, <1>6, <1>9, <1>10, <1>11, OwnedEnd

LEMMA OwnedReplace ==
  ASSUME RowsOwned, IndexInv, NEW w \in Writers, Replace(w) PROVE RowsOwned'
<1>1. PICK j : j = job[w]
  OBVIOUS
<1>2. /\ wpc[w] = "replace" /\ writes' = writes /\ index' = index /\ open' = open /\ EndJob(w, TRUE)
      /\ file' = [file EXCEPT ![j.path].content = j.content]
  BY <1>1 DEF Replace, rights
<1>3. /\ Busy(w) /\ j \in Job /\ j.path \in Paths /\ j.content \in Contents
      /\ file[j.path] # NoFile
  BY <1>1, <1>2 DEF IndexInv, Working, Busy, Job
<1>4. NoFile \notin [id : Nat, content : Contents, nquads : Contents]
  BY ConstantsAssumption DEF ConstantsAssumption
<1>5. /\ file'[j.path].id = file[j.path].id /\ file'[j.path] # NoFile
      /\ \A p \in Paths \ {j.path} : file'[p] = file[p]
  <2>1. file[j.path] \in Entry
    BY <1>3 DEF IndexInv, FilesIndexed, Indexed
  <2>2. file'[j.path] = [file[j.path] EXCEPT !.content = j.content]
    BY <1>2, <1>3 DEF IndexInv, FilesIndexed, Indexed
  <2>3. file'[j.path] \in [id : Nat, content : Contents, nquads : Contents]
    BY <2>1, <2>2, <1>3 DEF Entry
  <2>4. file'[j.path].id = file[j.path].id
    BY <2>1, <2>2 DEF Entry
  <2> QED
    BY <2>3, <2>4, <1>2, <1>3, <1>4 DEF IndexInv, FilesIndexed, Indexed
<1>6. \A i : HasId(file, i) => HasId(file', i)
  BY <1>3, <1>5 DEF HasId
<1>7. \A e \in index' : HasId(file', e[1])
  BY <1>2, <1>6 DEF RowsOwned
<1>8. \A p \in Paths : file'[p] # NoFile => file'[p].id >= 1
  BY <1>3, <1>5 DEF RowsOwned
<1>9. \A v \in Writers \ {w} : Busy(v) /\ wpc[v] = "insert" => file'[job[v].path] = NoFile
  BY <1>1, <1>3, <1>5 DEF RowsOwned, IndexInv, Working, Job
<1> QED
  BY <1>2, <1>7, <1>8, <1>9, OwnedEnd

LEMMA OwnedDelete ==
  ASSUME RowsOwned, IndexInv, NEW w \in Writers, Delete(w) PROVE RowsOwned'
<1>1. PICK p : p = job[w].path
  OBVIOUS
<1>2. /\ wpc[w] = "delete" /\ writes' = writes /\ open' = open /\ EndJob(w, TRUE)
      /\ index' = {e \in index : e[1] # file[p].id} /\ file' = [file EXCEPT ![p] = NoFile]
  BY <1>1 DEF Delete, Without, rights
<1>3. Busy(w) /\ p \in Paths /\ file[p] # NoFile
  BY <1>1, <1>2 DEF IndexInv, Working, Busy, Job
<1>4. file'[p] = NoFile /\ \A q \in Paths \ {p} : file'[q] = file[q]
  BY <1>2, <1>3 DEF IndexInv, FilesIndexed, Indexed
<1>5. \A i : HasId(file, i) /\ i # file[p].id => HasId(file', i)
  BY <1>3, <1>4 DEF HasId
<1>6. \A e \in index' : HasId(file', e[1])
  BY <1>2, <1>5 DEF RowsOwned
<1>7. \A q \in Paths : file'[q] # NoFile => file'[q].id >= 1
  BY <1>4 DEF RowsOwned
<1>8. \A v \in Writers \ {w} : Busy(v) /\ wpc[v] = "insert" => file'[job[v].path] = NoFile
  BY <1>4 DEF RowsOwned, IndexInv, Working, Job
<1> QED
  BY <1>2, <1>6, <1>7, <1>8, OwnedEnd

LEMMA OwnedStep ==
  ASSUME RowsOwned, IndexInv, NEW w \in Writers, Write(w) PROVE RowsOwned'
<1>1. CASE BeginWrite(w)
  <2>1. PICK u \in Uploads :
          Start(w, u[1], u[2], IF file[u[1]] = NoFile THEN "insert" ELSE "replace")
    BY <1>1 DEF BeginWrite
  <2>2. u[1] \in Paths /\ u[2] \in Contents
    BY ConstantsAssumption DEF ConstantsAssumption
  <2> QED
    BY <2>1, <2>2, OwnedStart
<1>2. CASE BeginDelete(w)
  <2>1. PICK p \in Paths : file[p] # NoFile /\ Start(w, p, file[p].content, "delete")
    BY <1>2 DEF BeginDelete
  <2>2. file[p].content \in Contents
    BY <2>1 DEF IndexInv, FilesIndexed, Indexed, Entry
  <2> QED
    BY <2>1, <2>2, OwnedStart
<1>3. CASE InsertRows(w)
  <2>1. UNCHANGED <<file, index, rows, writes, wpc, job, open>>
    BY <1>3 DEF InsertRows, store, rights
  <2> QED
    BY <2>1 DEF RowsOwned, HasId, Busy
<1>4. CASE Fail(w)
  <2>1. UNCHANGED <<file, index, writes, open>> /\ EndJob(w, FALSE)
    BY <1>4 DEF Fail, rights
  <2>2. \A e \in index' : HasId(file', e[1])
    BY <2>1 DEF RowsOwned, HasId
  <2> QED
    BY <2>1, <2>2, OwnedEnd DEF RowsOwned
<1> QED
  BY <1>1, <1>2, <1>3, <1>4, OwnedCommit, OwnedReplace, OwnedDelete DEF Write

LEMMA ClosedStep ==
  ASSUME RowsClosed, IndexInv, NEW w \in Writers, Write(w) PROVE RowsClosed'
<1>1. CASE InsertRows(w)
  BY <1>1, InsertRowsCloses
<1>2. CASE BeginWrite(w) \/ BeginDelete(w)
  <2>1. UNCHANGED <<rows, held>>
    BY <1>2 DEF BeginWrite, BeginDelete, Start
  <2> QED
    BY <2>1, ClosedStays
<1>3. CASE Fail(w) \/ Commit(w) \/ Replace(w) \/ Delete(w)
  <2>1. PICK done \in BOOLEAN : EndJob(w, done)
    BY <1>3 DEF Fail, Commit, Replace, Delete
  <2> QED
    BY <2>1, EndJobCloses
<1> QED
  BY <1>1, <1>2, <1>3 DEF Write

\* What does not touch the tables.
LEMMA TablesStay ==
  ASSUME TablesInv, UNCHANGED <<store, writers>>, open' \subseteq Range(DirOf) PROVE TablesInv'
<1>1. UNCHANGED <<file, index, rows, nq, writes, wpc, job, held>>
  BY DEF store, writers
<1>2. IndexInv'
  BY <1>1, OtherStep DEF TablesInv
<1>3. RowsOwned'
  BY <1>1 DEF TablesInv, RowsOwned, HasId, Busy
<1>4. RowsClosed' /\ Companions'
  BY <1>1, ClosedStays DEF TablesInv, Companions, Pairs
<1> QED
  BY <1>2, <1>3, <1>4 DEF TablesInv

LEMMA TablesInit == Init => TablesInv
<1> SUFFICES ASSUME Init PROVE TablesInv
  OBVIOUS
<1>1. PICK start \in Starts :
        LET at(p) == {i \in DOMAIN start : start[i][1] = p}
            entry(i) == [id |-> i, content |-> start[i][2], nquads |-> start[i][2]] IN
        /\ writes = Len(start)
        /\ file = [p \in Paths |-> IF at(p) = {} THEN NoFile ELSE entry(Min(at(p)))]
        /\ index = UNION {{i} \X FileRows[start[i][1]][start[i][2]] : i \in DOMAIN start}
        /\ rows = UNION {UNION Range(NeededRows[start[i][1]][start[i][2]]) : i \in DOMAIN start}
        /\ nq = [c \in Contents |->
                   LET with == {i \in DOMAIN start : start[i][2] = c} IN
                   IF with = {} THEN None ELSE Quadfile(start[Min(with)][1], c)]
  BY DEF Init
<1> DEFINE at(p) == {i \in DOMAIN start : start[i][1] = p}
           with(c) == {i \in DOMAIN start : start[i][2] = c}
           of(i) == UNION Range(NeededRows[start[i][1]][start[i][2]])
<1>2. /\ Len(start) \in Nat /\ DOMAIN start = 1 .. Len(start)
      /\ \A i \in 1 .. Len(start) : start[i] \in Paths \X Contents
  BY ConstantsAssumption, LenProperties, ElementOfSeq DEF ConstantsAssumption
<1>3. /\ Len(start) <= MaxWrites
      /\ \A i, j \in 1 .. Len(start) : start[i][1] = start[j][1] => i = j
  BY <1>2, ConstantsAssumption DEF ConstantsAssumption
<1>4. \A p \in Paths : at(p) # {} => Min(at(p)) \in at(p)
  <2> SUFFICES ASSUME NEW p \in Paths, at(p) # {} PROVE Min(at(p)) \in at(p)
    OBVIOUS
  <2>1. at(p) \subseteq Nat
    BY <1>2
  <2> QED
    BY <2>1, LeastOf
<1>5. \A i \in 1 .. Len(start) :
        of(i) = UNION {NeededRows[start[i][1]][start[i][2]][n] : n \in 1 .. 4}
  <2> SUFFICES ASSUME NEW i \in 1 .. Len(start)
               PROVE  of(i) = UNION {NeededRows[start[i][1]][start[i][2]][n] : n \in 1 .. 4}
    OBVIOUS
  <2>1. start[i][1] \in Paths /\ start[i][2] \in Contents
    BY <1>2
  <2>2. DOMAIN NeededRows[start[i][1]][start[i][2]] = 1 .. 4
    BY <2>1 DEF NeededRows
  <2> QED
    BY <2>2 DEF Range
<1>6. \A i \in 1 .. Len(start) : \A p \in Paths :
        p = start[i][1] => file[p] # NoFile /\ file[p].id = i
  <2> SUFFICES ASSUME NEW i \in 1 .. Len(start), NEW p \in Paths, p = start[i][1]
               PROVE  file[p] # NoFile /\ file[p].id = i
    OBVIOUS
  <2>1. at(p) # {} /\ \A j \in at(p) : j = i
    BY <1>2, <1>3
  <2>2. Min(at(p)) = i
    BY <2>1, <1>4
  <2>3. file[p] = [id |-> i, content |-> start[i][2], nquads |-> start[i][2]]
    BY <2>1, <2>2, <1>1
  <2>4. file[p] \in [id : Nat, content : Contents, nquads : Contents]
    BY <2>3, <1>2
  <2> QED
    BY <2>3, <2>4, ConstantsAssumption DEF ConstantsAssumption
<1>7. \A p \in Paths : file[p] # NoFile => \E i \in 1 .. Len(start) : file[p].id = i
  <2> SUFFICES ASSUME NEW p \in Paths, file[p] # NoFile
               PROVE  \E i \in 1 .. Len(start) : file[p].id = i
    OBVIOUS
  <2>1. at(p) # {}
    BY <1>1
  <2>2. Min(at(p)) \in 1 .. Len(start) /\ start[Min(at(p))][1] = p
    BY <2>1, <1>2, <1>4
  <2> QED
    BY <2>2, <1>6
<1>8. RowsOwned
  <2>1. ASSUME NEW e \in index PROVE e[2] \in rows /\ HasId(file, e[1])
    <3>1. PICK i \in 1 .. Len(start) : e[1] = i /\ e[2] \in FileRows[start[i][1]][start[i][2]]
      BY <1>1, <1>2
    <3>2. PICK p, c : p = start[i][1] /\ c = start[i][2]
      OBVIOUS
    <3>3. p \in Paths /\ c \in Contents
      BY <3>2, <1>2
    <3>4. HasId(file, i)
      BY <3>2, <3>3, <1>6 DEF HasId
    <3>5. PICK X : X = of(i)
      OBVIOUS
    <3>6. \A n \in 1 .. 4 : NeededRows[p][c][n] \subseteq X
      BY <3>2, <3>5, <1>5, SMTT(30)
    <3>7. e[2] \in X
      BY <3>1, <3>2, <3>3, <3>6, NothingLeft
    <3>8. of(i) \subseteq rows
      BY <1>1, <1>2
    <3> QED
      BY <3>1, <3>4, <3>5, <3>7, <3>8
  <2>2. \A p \in Paths : file[p] # NoFile => file[p].id >= 1
    BY <1>2, <1>7
  <2>3. writes <= MaxWrites
    BY <1>1, <1>3
  <2>4. open \subseteq Range(DirOf)
    BY ConstantsAssumption DEF Init, Range, ConstantsAssumption
  <2>5. \A w \in Writers : ~Busy(w)
    BY DEF Init, Busy
  <2> QED
    BY <2>1, <2>2, <2>3, <2>4, <2>5 DEF RowsOwned
<1>9. UrisThere(rows)
  <2> SUFFICES ASSUME NEW r \in rows, r[1] # "uri", NEW u \in Range(UrisOf(r)) \ {Nothing}
               PROVE  u \in rows
    BY DEF UrisThere
  <2>1. PICK i \in 1 .. Len(start) : r \in of(i)
    BY <1>1, <1>2
  <2>2. PICK p, c : p = start[i][1] /\ c = start[i][2]
    OBVIOUS
  <2>3. p \in Paths /\ c \in Contents
    BY <2>2, <1>2
  <2>4. PICK n \in 1 .. 4 : r \in NeededRows[p][c][n]
    BY <2>1, <2>2, <1>5
  <2>5. u \in NeededRows[p][c][n]
    BY <2>3, <2>4, NeededUris DEF UrisThere
  <2>6. u \in of(i)
    BY <2>2, <2>4, <2>5, <1>5
  <2> QED
    BY <2>6, <1>1, <1>2
<1>10. RowsClosed
  <2>1. held = [w \in Writers |-> {}]
    BY DEF Init
  <2>2. \A w \in Writers : rows \cup held[w] = rows
    BY <2>1
  <2> QED
    BY <2>1, <2>2, <1>9 DEF RowsClosed
<1>11. Companions
  <2> SUFFICES ASSUME NEW c \in Contents, nq[c] # None
               PROVE  {<<AnyFile(q.s), q.p, q.o>> : q \in nq[c]} = Pairs(c)
    BY <1>1 DEF Companions
  <2>1. with(c) # {} /\ nq[c] = Quadfile(start[Min(with(c))][1], c)
    BY <1>1
  <2>2. with(c) \subseteq Nat
    BY <1>2
  <2>3. Min(with(c)) \in 1 .. Len(start)
    BY <2>1, <2>2, <1>2, LeastOf
  <2>4. PICK p \in Paths : p = start[Min(with(c))][1]
    BY <2>3, <1>2
  <2> QED
    BY <2>1, <2>4, QuadfilePairs
<1> QED
  BY <1>8, <1>10, <1>11, IndexInit DEF TablesInv

LEMMA TablesStep == TablesInv /\ [Next]_vars => TablesInv'
<1> SUFFICES ASSUME TablesInv, [Next]_vars PROVE TablesInv'
  OBVIOUS
<1>1. IndexInv'
  BY IndexStep DEF TablesInv
<1>2. CASE \E w \in Writers : Write(w)
  BY <1>1, <1>2, OwnedStep, ClosedStep, CompanionsStep DEF TablesInv
<1>3. CASE Chmod
  <2>1. open' \subseteq Range(DirOf)
    BY <1>3, ConstantsAssumption DEF TablesInv, RowsOwned, Chmod, ConstantsAssumption
  <2> QED
    BY <2>1, <1>3, TablesStay DEF Chmod
<1>4. CASE \E r \in Readers : Read(r)
  <2>1. UNCHANGED <<store, writers, rights>>
    BY <1>4 DEF Read, Ask, Check, Row, Links, Query, ReadQuads, Done
  <2>2. open' \subseteq Range(DirOf)
    BY <2>1 DEF TablesInv, RowsOwned, rights
  <2> QED
    BY <2>1, <2>2, TablesStay
<1>5. CASE UNCHANGED vars
  <2>1. UNCHANGED <<store, writers, rights>>
    BY <1>5 DEF vars
  <2>2. open' \subseteq Range(DirOf)
    BY <2>1 DEF TablesInv, RowsOwned, rights
  <2> QED
    BY <2>1, <2>2, TablesStay
<1> QED
  BY <1>2, <1>3, <1>4, <1>5 DEF Next

\* The rows of the index, of src/src/lib/ld.js and layer3-ld.sql: types, none without
\* its file, and none without its URIs, whichever transactions are undone.
THEOREM TablesInvariant == Spec => []TablesInv
BY TablesInit, TablesStep, PTL DEF Spec

-----------------------------------------------------------------------------
RelSteps == {"check", "again", "links", "in", "out"}
LinkSteps == {"links", "in", "out"}
Kind(k, S) == {x \in S : x[1] = k}

\* The file a reader has the id of is still there, or never will be again.
Mine(r) == file[ask[r].path] # NoFile /\ file[ask[r].path].id = id[r]
Gone(i) ==
  /\ i \in Nat /\ i <= writes /\ NotIn(file, index, i)
  /\ \A w \in Writers : Busy(w) => job[w].id # i
Follows(r) == Mine(r) \/ (Gone(id[r]) /\ always[r] = {})

\* The step of a call, and what it asks.
Suits(step, op) ==
  /\ step \in RelSteps \cup {"row", "query", "quads", "done", "failed"}
  /\ step \in RelSteps => op = "rel" 
  /\ step = "row" => op \in {"rel", "read"}
  /\ step = "query" => op \in {"find", "literal"} 
  /\ step = "quads" => op = "read"

\* What an answer has so far was true once, and what it has come past is in it if it
\* has been true all the time.
Excepted(q) == q.op = "literal" /\ q.path = None /\ ~acl
Progress(r) ==
  /\ rpc[r] \in {"check", "again", "row"} => answer[r] = {}
  /\ rpc[r] \in LinkSteps => Follows(r) /\ answer[r] \subseteq ever[r]
  /\ rpc[r] = "out" => Kind("in", always[r]) \subseteq answer[r]
  /\ rpc[r] = "in" => Kind("out", always[r]) \subseteq answer[r]
  /\ rpc[r] = "quads" =>
       id[r] \in Contents /\ always[r] \subseteq Pairs(id[r]) /\ Pairs(id[r]) \subseteq ever[r]
  /\ rpc[r] = "done" /\ ~Excepted(ask[r]) => Compared(r) \subseteq ever[r] /\ always[r] \subseteq Compared(r)
Bounds(r) == always[r] \subseteq Must(ask[r]) /\ May(ask[r]) \subseteq ever[r]
Asking(r) ==
  IF rpc[r] = "idle" THEN ask[r] = None
  ELSE /\ ask[r] \in Questions /\ Suits(rpc[r], ask[r].op)
       /\ Bounds(r) /\ Progress(r)
AnswersInv ==
  /\ rpc = [r \in Readers |-> rpc[r]] /\ ask = [r \in Readers |-> ask[r]]
  /\ id = [r \in Readers |-> id[r]] /\ answer = [r \in Readers |-> answer[r]]
  /\ \A r \in Readers : Asking(r)

-----------------------------------------------------------------------------
(* What the queries return.                                                *)

\* What is asked, answered by what the index was told: it lies between what has to be
\* answered and what may be.
Was(q) == Truth(q, Told)

LEMMA Monotone ==
  ASSUME NEW q \in Questions, NEW a, NEW b, \A p \in Paths : a[p] \subseteq b[p]
  PROVE  Truth(q, a) \subseteq Truth(q, b)
<1>1. \A p, g \in Paths : \A t \in a[p] : Refers(a, p, t, g) => t \in b[p] /\ Refers(b, p, t, g)
  BY DEF Refers, Untyped
<1>2. \A g \in Paths : LiteralsOf(a, g, q) \subseteq LiteralsOf(b, g, q)
  BY DEF LiteralsOf, Untyped
<1>3. CASE q.op = "rel"
  <2> DEFINE In(says, g) == {<<"in", t.p, g>> :
                 t \in {x \in says[g] : Refers(says, g, x, q.path) /\ q.pred \in {None, x.p}}}
             Out(says, g) == {<<"out", t.p, g>> : t \in {x \in says[q.path] : Refers(says, q.path, x, g)}}
             Both(says, g) == In(says, g) \cup Out(says, g)
  <2>1. q.path \in Paths
    BY <1>3, QuestionsAssumption DEF QuestionsAssumption
  <2>2. \A g \in Paths : In(a, g) \subseteq In(b, g)
    BY <1>1, <2>1
  <2>3. \A g \in Paths : Out(a, g) \subseteq Out(b, g)
    BY <1>1, <2>1
  <2>4. \A says : Truth(q, says) = UNION {Both(says, g) : g \in {x \in Paths : MayRead(x)}}
    BY <1>3 DEF Truth
  <2> HIDE DEF Both
  <2>5. \A g \in Paths : Both(a, g) \subseteq Both(b, g)
    BY <2>2, <2>3 DEF Both
  <2> QED
    BY <2>4, <2>5
<1>4. CASE q.op = "find"
  <2> DEFINE Fits(t, f) ==
               CASE f[1] = "type" -> t.p = TypePredicate /\ t.o = f[2]
                 [] f[1] = "subject" -> t.p # TypePredicate /\ t.s = f[2]
                 [] f[1] = "predicate" -> t.p # TypePredicate /\ t.p = f[2]
                 [] f[1] = "object" -> t.p # TypePredicate /\ ~t.lit /\ t.o = f[2]
  <2>1. \A says : Truth(q, says) = {g \in Paths : /\ file[g] # NoFile /\ MayRead(g)
                                                /\ \A f \in q.filters : \E t \in says[g] : Fits(t, f)}
    BY <1>4 DEF Truth
  <2> HIDE DEF Fits
  <2> QED
    BY <2>1
<1>5. CASE q.op = "literal"
  <2>1. q.path \in Paths \cup {None}
    BY <1>5, QuestionsAssumption DEF QuestionsAssumption
  <2>2. \A says : Truth(q, says) =
          {l \in UNION {LiteralsOf(says, g, q) : g \in {x \in Paths : MayRead(x)}} :
             q.path = None \/ l \in LiteralsOf(says, q.path, q)}
    BY <1>5 DEF Truth
  <2> QED
    BY <1>2, <2>1, <2>2
<1>6. CASE q.op = "read"
  BY <1>6 DEF Truth
<1> QED
  BY <1>3, <1>4, <1>5, <1>6, QuestionsAssumption DEF QuestionsAssumption

LEMMA Between ==
  ASSUME NEW q \in Questions PROVE Must(q) \subseteq Was(q) /\ Was(q) \subseteq May(q)
<1>1. ASSUME NEW p \in Paths PROVE Promised[p] \subseteq Told[p] /\ Told[p] \subseteq Possible[p]
  <2>1. CASE Replaced(p)
    BY <2>1 DEF Replaced, Promised, Possible, Told
  <2>2. CASE ~Replaced(p)
    BY <2>2, ToldUnlessReplaced DEF Promised, Possible
  <2> QED
    BY <2>1, <2>2
<1>2. q # None
  BY QuestionsAssumption DEF QuestionsAssumption
<1> QED
  BY <1>1, <1>2, Monotone DEF Must, May, Was

RowsAt(p) == IF file[p] = NoFile THEN {} ELSE FileRows[p][file[p].nquads]

LEMMA Entries ==
  ASSUME TablesInv
  PROVE  /\ \A p \in Paths : file[p] # NoFile =>
              /\ RowsOf(file[p].id) = RowsAt(p) /\ PathOf(file[p].id) = p
              /\ \A r \in RowsAt(p) : <<file[p].id, r>> \in index /\ r \in rows
         /\ \A e \in index : \E p \in Paths :
              /\ file[p] # NoFile /\ e[1] = file[p].id /\ e[2] \in RowsAt(p)
              /\ e = <<e[1], e[2]>> /\ e[2] \in rows
<1>1. ASSUME NEW p \in Paths, file[p] # NoFile
      PROVE  /\ RowsOf(file[p].id) = RowsAt(p) /\ PathOf(file[p].id) = p
             /\ \A r \in RowsAt(p) : <<file[p].id, r>> \in index /\ r \in rows
  <2>1. RowsOf(file[p].id) = RowsAt(p)
    BY <1>1 DEF TablesInv, IndexInv, FilesIndexed, Indexed, RowsOf, RowsIn, RowsAt
  <2>2. PathOf(file[p].id) = p
    <3>1. PathOf(file[p].id) = CHOOSE q \in Paths : file[q] # NoFile /\ file[q].id = file[p].id
      BY DEF PathOf
    <3>2. \A q \in Paths : file[q] # NoFile /\ file[q].id = file[p].id => q = p
      BY <1>1 DEF TablesInv, IndexInv, FilesIndexed, Indexed
    <3> QED
      BY <1>1, <3>1, <3>2
  <2>3. ASSUME NEW r \in RowsAt(p) PROVE <<file[p].id, r>> \in index /\ r \in rows
    <3>1. PICK e \in index : e[1] = file[p].id /\ e[2] = r
      BY <2>1, <2>3 DEF RowsOf
    <3>2. e = <<e[1], e[2]>>
      BY DEF TablesInv, IndexInv, FilesIndexed, Indexed
    <3> QED
      BY <3>1, <3>2 DEF TablesInv, RowsOwned
  <2> QED
    BY <2>1, <2>2, <2>3
<1>2. ASSUME NEW e \in index
      PROVE  \E p \in Paths : /\ file[p] # NoFile /\ e[1] = file[p].id /\ e[2] \in RowsAt(p)
                              /\ e = <<e[1], e[2]>> /\ e[2] \in rows
  <2>1. PICK p \in Paths : file[p] # NoFile /\ file[p].id = e[1]
    BY DEF TablesInv, RowsOwned, HasId
  <2>2. e[2] \in RowsOf(file[p].id)
    BY <2>1 DEF RowsOf
  <2> QED
    BY <2>1, <2>2, <1>1 DEF TablesInv, RowsOwned, IndexInv, FilesIndexed, Indexed
<1> QED
  BY <1>1, <1>2

TypesOf(p) == {x \in Told[p] : Typed(x)}

LEMMA KindsOfRows ==
  ASSUME TablesInv, NEW p \in Paths
  PROVE  /\ Kind("link", RowsAt(p)) = {<<"link", t.p, t.o>> : t \in {x \in ToldBy(p) : ~x.lit}}
         /\ Kind("subject", RowsAt(p)) = {<<"subject", t.s>> : t \in ToldBy(p)}
         /\ Kind("object", RowsAt(p)) = {<<"object", t.o>> : t \in {x \in ToldBy(p) : ~x.lit}}
         /\ Kind("predicate", RowsAt(p)) = {<<"predicate", t.p>> : t \in ToldBy(p)}
         /\ Kind("type", RowsAt(p)) = {<<"type", t.o>> : t \in TypesOf(p)}
         /\ Kind("literal", RowsAt(p)) =
              {<<"literal", t.s, t.p, t.o>> : t \in {x \in ToldBy(p) : x.lit /\ x.p \in LiteralPredicates}}
         /\ file[p] # NoFile => RowsAt(p) # {}
<1>1. CASE file[p] = NoFile
  BY <1>1 DEF Kind, RowsAt, ToldBy, Told, Untyped, TypesOf
<1>2. CASE file[p] # NoFile
  <2>1. PICK c : c = file[p].nquads
    OBVIOUS
  <2>2. c \in Contents
    BY <1>2, <2>1 DEF TablesInv, IndexInv, FilesIndexed, Indexed, Entry
  <2>3. /\ RowsAt(p) = FileRows[p][c] /\ ToldBy(p) = Plain(p, c)
        /\ TypesOf(p) = {x \in Triples(p, c) : Typed(x)}
    BY <1>2, <2>1 DEF RowsAt, ToldBy, Told, Untyped, Plain, TypesOf
  <2>4. RowsAt(p) # {}
    <3>1. PICK q \in Range(AllQuads(p, c)) : ~Typed(q)
      BY <2>2, QuadsTyped
    <3>2. Subject(q, p) \in {r \in FileRows[p][c] : r[1] = "subject"}
      BY <2>2, <3>1, RowsOfFile
    <3> QED
      BY <3>2, <2>3
  <2> QED
    BY <2>2, <2>3, <2>4, RowsSay DEF Kind
<1> QED
  BY <1>1, <1>2

Ins(q) ==
  UNION {{<<"in", t.p, g>> : t \in {x \in ToldBy(g) : Refers(Told, g, x, q.path) /\ q.pred \in {None, x.p}}}
         : g \in {x \in Paths : MayRead(x)}}
Outs(q) ==
  UNION {{<<"out", t.p, g>> : t \in {x \in ToldBy(q.path) : Refers(Told, q.path, x, g)}}
         : g \in {x \in Paths : MayRead(x)}}

LEMMA RelTruth ==
  ASSUME NEW q, q.op = "rel"
  PROVE  /\ Was(q) = Ins(q) \cup Outs(q)
         /\ Kind("in", Was(q)) = Ins(q) /\ Kind("out", Was(q)) = Outs(q)
<1>1. Was(q) = Ins(q) \cup Outs(q)
  <2>1. \A p, x, g : Refers(Told, p, x, g) => (x \in Told[p] <=> x \in ToldBy(p))
    BY DEF Refers, ToldBy, Untyped
  <2>2. ASSUME NEW g
        PROVE  /\ {x \in Told[g] : Refers(Told, g, x, q.path) /\ q.pred \in {None, x.p}} =
                     {x \in ToldBy(g) : Refers(Told, g, x, q.path) /\ q.pred \in {None, x.p}}
               /\ {x \in Told[q.path] : Refers(Told, q.path, x, g)} =
                     {x \in ToldBy(q.path) : Refers(Told, q.path, x, g)}
    BY <2>1 DEF ToldBy, Untyped
  <2>3. Was(q) =
          UNION {{<<"in", t.p, g>> :
                    t \in {x \in Told[g] : Refers(Told, g, x, q.path) /\ q.pred \in {None, x.p}}}
                 \cup {<<"out", t.p, g>> : t \in {x \in Told[q.path] : Refers(Told, q.path, x, g)}}
                 : g \in {x \in Paths : MayRead(x)}}
    BY DEF Was, Truth
  <2> QED
    BY <2>2, <2>3 DEF Ins, Outs
<1>2. (\A x \in Ins(q) : x[1] = "in") /\ \A x \in Outs(q) : x[1] = "out"
  BY DEF Ins, Outs
<1> QED
  BY <1>1, <1>2 DEF Kind

LEMMA InboundTrue ==
  ASSUME TablesInv, NEW q, q.op = "rel", q.path \in Paths, file[q.path] # NoFile
  PROVE  Inbound(file[q.path].id, q.pred) = Ins(q)
<1>1. PICK p : p = q.path
  OBVIOUS
<1>2. PICK i : i = file[p].id
  OBVIOUS
<1>3. PICK subjects : subjects = {t.s : t \in ToldBy(p)}
  OBVIOUS
<1>4. {r[2] : r \in {x \in RowsOf(i) : x[1] = "subject"}} = subjects
  <2>1. {x \in RowsOf(i) : x[1] = "subject"} = {<<"subject", t.s>> : t \in ToldBy(p)}
    BY <1>1, <1>2, Entries, KindsOfRows DEF Kind
  <2>2. PICK S : S = {x \in RowsOf(i) : x[1] = "subject"}
    OBVIOUS
  <2>3. \A x \in S : x[2] \in subjects
    BY <2>1, <2>2, <1>3
  <2>4. \A s \in subjects : \E x \in S : x[2] = s
    <3> SUFFICES ASSUME NEW t \in ToldBy(p) PROVE \E x \in S : x[2] = t.s
      BY <1>3
    <3>1. PICK x : x = <<"subject", t.s>>
      OBVIOUS
    <3> QED
      BY <2>1, <2>2, <3>1
  <2> QED
    BY <2>2, <2>3, <2>4
<1>5. PICK match :
        match = {r \in rows : r[1] = "link" /\ r[3] \in subjects /\ q.pred \in {None, r[2]}}
  OBVIOUS
<1>6. PICK links : links = {e \in index : e[1] # i /\ e[2] \in match /\ MayRead(PathOf(e[1]))}
  OBVIOUS
<1>7. Inbound(i, q.pred) = {<<"in", e[2][2], PathOf(e[1])>> : e \in links}
  BY <1>4, <1>5, <1>6 DEF Inbound, Visible
<1>8. ASSUME NEW e \in links PROVE <<"in", e[2][2], PathOf(e[1])>> \in Ins(q)
  <2>1. e \in index /\ e[1] # i /\ e[2] \in match /\ MayRead(PathOf(e[1]))
    BY <1>6
  <2>2. PICK g \in Paths : file[g] # NoFile /\ e[1] = file[g].id /\ e[2] \in RowsAt(g)
    BY <2>1, Entries
  <2>3. PathOf(e[1]) = g /\ g # p /\ MayRead(g)
    BY <1>2, <2>1, <2>2, Entries
  <2>4. e[2] \in Kind("link", RowsAt(g)) /\ e[2][3] \in subjects /\ q.pred \in {None, e[2][2]}
    BY <2>1, <2>2, <1>5 DEF Kind
  <2>5. PICK t \in ToldBy(g) : ~t.lit /\ e[2] = <<"link", t.p, t.o>>
    BY <2>4, KindsOfRows
  <2>6. Refers(Told, g, t, p)
    BY <2>3, <2>4, <2>5, <1>3 DEF Refers, ToldBy
  <2>7. e[2][2] = t.p /\ q.pred \in {None, t.p}
    BY <2>4, <2>5
  <2> QED
    BY <1>1, <2>3, <2>5, <2>6, <2>7 DEF Ins
<1>9. ASSUME NEW x \in Ins(q) PROVE \E e \in links : x = <<"in", e[2][2], PathOf(e[1])>>
  <2>1. PICK g \in Paths : MayRead(g) /\ \E t \in ToldBy(g) :
          Refers(Told, g, t, p) /\ q.pred \in {None, t.p} /\ x = <<"in", t.p, g>>
    BY <1>1 DEF Ins
  <2> PICK t \in ToldBy(g) : Refers(Told, g, t, p) /\ q.pred \in {None, t.p} /\ x = <<"in", t.p, g>>
    BY <2>1
  <2>2. g # p /\ ~t.lit /\ t.o \in subjects
    BY <2>1, <1>3 DEF Refers, ToldBy
  <2>3. PICK r : r = <<"link", t.p, t.o>>
    OBVIOUS
  <2>4. r \in RowsAt(g)
    BY <2>1, <2>2, <2>3, KindsOfRows DEF Kind
  <2>5. file[g] # NoFile
    BY <2>4 DEF RowsAt
  <2>6. PICK e : e = <<file[g].id, r>>
    OBVIOUS
  <2>7. e \in index /\ e[1] = file[g].id /\ e[2] = r /\ r \in rows /\ PathOf(e[1]) = g
    BY <2>4, <2>5, <2>6, Entries
  <2>8. e[1] # i
    BY <1>1, <1>2, <2>2, <2>5, <2>7 DEF TablesInv, IndexInv, FilesIndexed, Indexed
  <2>9. r \in match
    BY <2>1, <2>2, <2>3, <2>7, <1>5
  <2> QED
    BY <2>1, <2>3, <2>7, <2>8, <2>9, <1>6
<1> QED
  BY <1>1, <1>2, <1>7, <1>8, <1>9

LEMMA OutboundTrue ==
  ASSUME TablesInv, NEW q, q.op = "rel", q.path \in Paths, file[q.path] # NoFile
  PROVE  Outbound(file[q.path].id) = Outs(q)
<1>1. PICK p : p = q.path
  OBVIOUS
<1>2. PICK i : i = file[p].id
  OBVIOUS
<1>3. PICK objects : objects = {<<"link", t.p, t.o>> : t \in {x \in ToldBy(p) : ~x.lit}}
  OBVIOUS
<1>4. {r \in RowsOf(i) : r[1] = "link"} = objects
  BY <1>1, <1>2, <1>3, Entries, KindsOfRows DEF Kind
<1>5. PICK match : match = {r \in rows : r[1] = "subject" /\ r[2] \in {o[3] : o \in objects}}
  OBVIOUS
<1>6. PICK links : links = {e \in index : e[1] # i /\ e[2] \in match /\ MayRead(PathOf(e[1]))}
  OBVIOUS
<1>7. Outbound(i) =
        UNION {{<<"out", o[2], PathOf(e[1])>> : e \in {x \in links : x[2][2] = o[3]}} : o \in objects}
  BY <1>4, <1>5, <1>6 DEF Outbound, Visible, SameUri
<1>8. ASSUME NEW e \in links, NEW o \in objects, e[2][2] = o[3]
      PROVE  <<"out", o[2], PathOf(e[1])>> \in Outs(q)
  <2>1. e \in index /\ e[1] # i /\ e[2] \in match /\ MayRead(PathOf(e[1]))
    BY <1>6
  <2>2. PICK g \in Paths : file[g] # NoFile /\ e[1] = file[g].id /\ e[2] \in RowsAt(g)
    BY <2>1, Entries
  <2>3. PathOf(e[1]) = g /\ g # p /\ MayRead(g)
    BY <1>2, <2>1, <2>2, Entries
  <2>4. e[2] \in Kind("subject", RowsAt(g))
    BY <2>1, <2>2, <1>5 DEF Kind
  <2>5. PICK u \in ToldBy(g) : e[2] = <<"subject", u.s>>
    BY <2>4, KindsOfRows
  <2>6. PICK t \in ToldBy(p) : ~t.lit /\ o = <<"link", t.p, t.o>>
    BY <1>3, <1>8
  <2>7. u.s = t.o /\ o[2] = t.p
    BY <2>5, <2>6, <1>8
  <2>8. Refers(Told, p, t, g)
    BY <2>3, <2>5, <2>6, <2>7 DEF Refers, ToldBy
  <2> QED
    BY <1>1, <2>3, <2>6, <2>7, <2>8 DEF Outs
<1>9. ASSUME NEW x \in Outs(q)
      PROVE  \E o \in objects, e \in links : e[2][2] = o[3] /\ x = <<"out", o[2], PathOf(e[1])>>
  <2>1. PICK g \in Paths, t \in ToldBy(p) : MayRead(g) /\ Refers(Told, p, t, g) /\ x = <<"out", t.p, g>>
    BY <1>1 DEF Outs
  <2>2. PICK u \in ToldBy(g) : p # g /\ ~t.lit /\ u.s = t.o
    BY <2>1 DEF Refers, ToldBy
  <2>3. PICK r, o : r = <<"subject", u.s>> /\ o = <<"link", t.p, t.o>>
    OBVIOUS
  <2>4. r \in RowsAt(g) /\ o \in objects
    BY <2>1, <2>2, <2>3, <1>3, KindsOfRows DEF Kind
  <2>5. file[g] # NoFile
    BY <2>4 DEF RowsAt
  <2>6. PICK e : e = <<file[g].id, r>>
    OBVIOUS
  <2>7. e \in index /\ e[1] = file[g].id /\ e[2] = r /\ r \in rows /\ PathOf(e[1]) = g
    BY <2>4, <2>5, <2>6, Entries
  <2>8. e[1] # i
    BY <1>1, <1>2, <2>2, <2>5, <2>7 DEF TablesInv, IndexInv, FilesIndexed, Indexed
  <2>9. r[1] = "subject" /\ r[2] = o[3] /\ o[2] = t.p
    BY <2>2, <2>3
  <2>10. r \in match
    BY <2>4, <2>7, <2>9, <1>5
  <2> QED
    BY <2>1, <2>4, <2>7, <2>8, <2>9, <2>10, <1>6
<1> QED
  BY <1>1, <1>2, <1>7, <1>8, <1>9

LEMMA FindTrue ==
  ASSUME TablesInv, NEW q \in Questions, q.op = "find"
  PROVE  Find(q.filters) = Was(q)
<1> DEFINE Has(g, f) ==
             CASE f[1] = "type" -> \E t \in Told[g] : t.p = TypePredicate /\ t.o = f[2]
               [] f[1] = "subject" -> \E t \in Told[g] : t.p # TypePredicate /\ t.s = f[2]
               [] f[1] = "predicate" -> \E t \in Told[g] : t.p # TypePredicate /\ t.p = f[2]
               [] f[1] = "object" ->
                    \E t \in Told[g] : t.p # TypePredicate /\ ~t.lit /\ t.o = f[2]
<1>1. \A f \in q.filters : f = <<f[1], f[2]>> /\ f[1] \in {"type", "subject", "predicate", "object"}
  BY QuestionsAssumption DEF QuestionsAssumption
<1>2. Was(q) = {g \in Paths : /\ file[g] # NoFile /\ MayRead(g)
                                /\ \A f \in q.filters : Has(g, f)}
  <2>1. Was(q) =
          {g \in Paths :
             /\ file[g] # NoFile /\ MayRead(g)
             /\ \A f \in q.filters :
                 \E t \in Told[g] :
                   CASE f[1] = "type" -> t.p = TypePredicate /\ t.o = f[2]
                     [] f[1] = "subject" -> t.p # TypePredicate /\ t.s = f[2]
                     [] f[1] = "predicate" -> t.p # TypePredicate /\ t.p = f[2]
                     [] f[1] = "object" -> t.p # TypePredicate /\ ~t.lit /\ t.o = f[2]}
    BY DEF Was, Truth
  <2>2. ASSUME NEW g, NEW f \in q.filters
        PROVE  Has(g, f) <=>
                 \E t \in Told[g] :
                   CASE f[1] = "type" -> t.p = TypePredicate /\ t.o = f[2]
                     [] f[1] = "subject" -> t.p # TypePredicate /\ t.s = f[2]
                     [] f[1] = "predicate" -> t.p # TypePredicate /\ t.p = f[2]
                     [] f[1] = "object" -> t.p # TypePredicate /\ ~t.lit /\ t.o = f[2]
    BY <1>1
  <2> HIDE DEF Has
  <2> QED
    BY <2>1, <2>2
<1>3. ASSUME NEW g \in Paths, file[g] # NoFile, NEW f \in q.filters
      PROVE  f \in RowsAt(g) <=> Has(g, f)
  <2>1. ToldBy(g) = {t \in Told[g] : t.p # TypePredicate}
    BY DEF ToldBy, Untyped
  <2>2. TypesOf(g) = {t \in Told[g] : t.p = TypePredicate}
    BY DEF TypesOf, Typed
  <2>3. PICK a, b : f = <<a, b>> /\ f[1] = a /\ f[2] = b /\ a \in {"type", "subject", "predicate", "object"}
    BY <1>1
  <2>4. f \in RowsAt(g) <=> f \in Kind(a, RowsAt(g))
    BY <2>3 DEF Kind
  <2>5. CASE a = "type"
    <3>1. f \in RowsAt(g) <=> \E t \in TypesOf(g) : t.o = b
      BY <2>3, <2>4, <2>5, KindsOfRows
    <3> QED
      BY <2>2, <2>3, <2>5, <3>1
  <2>6. CASE a = "subject"
    <3>1. f \in RowsAt(g) <=> \E t \in ToldBy(g) : t.s = b
      BY <2>3, <2>4, <2>6, KindsOfRows
    <3> QED
      BY <2>1, <2>3, <2>6, <3>1
  <2>7. CASE a = "predicate"
    <3>1. f \in RowsAt(g) <=> \E t \in ToldBy(g) : t.p = b
      BY <2>3, <2>4, <2>7, KindsOfRows
    <3> QED
      BY <2>1, <2>3, <2>7, <3>1
  <2>8. CASE a = "object"
    <3>1. f \in RowsAt(g) <=> \E t \in ToldBy(g) : ~t.lit /\ t.o = b
      BY <2>3, <2>4, <2>8, KindsOfRows
    <3> QED
      BY <2>1, <2>3, <2>8, <3>1
  <2> QED
    BY <2>3, <2>5, <2>6, <2>7, <2>8
<1> HIDE DEF Has
<1>4. PICK links : links = {e \in index : q.filters \subseteq RowsOf(e[1]) /\ MayRead(PathOf(e[1]))}
  OBVIOUS
<1>5. Find(q.filters) = {PathOf(e[1]) : e \in links}
  BY <1>4 DEF Find, Visible
<1>6. ASSUME NEW e \in links PROVE PathOf(e[1]) \in Was(q)
  <2>1. e \in index /\ q.filters \subseteq RowsOf(e[1]) /\ MayRead(PathOf(e[1]))
    BY <1>4
  <2>2. PICK g \in Paths : file[g] # NoFile /\ e[1] = file[g].id
    BY <2>1, Entries
  <2>3. PathOf(e[1]) = g /\ RowsOf(e[1]) = RowsAt(g)
    BY <2>2, Entries
  <2> QED
    BY <2>1, <2>2, <2>3, <1>2, <1>3
<1>7. ASSUME NEW g \in Was(q) PROVE \E e \in links : PathOf(e[1]) = g
  <2>1. g \in Paths /\ file[g] # NoFile /\ MayRead(g) /\ q.filters \subseteq RowsAt(g)
    BY <1>2, <1>3
  <2>2. PICK r \in RowsAt(g) : TRUE
    BY <2>1, KindsOfRows
  <2>3. PICK e : e = <<file[g].id, r>>
    OBVIOUS
  <2>4. e \in index /\ e[1] = file[g].id /\ PathOf(e[1]) = g /\ RowsOf(e[1]) = RowsAt(g)
    BY <2>1, <2>2, <2>3, Entries
  <2> QED
    BY <2>1, <2>4, <1>4
<1> QED
  BY <1>5, <1>6, <1>7

LEMMA LiteralsTrue ==
  ASSUME TablesInv, NEW q \in Questions, q.op = "literal", ~Excepted(q)
  PROVE  Literals(q) = Was(q)
<1> DEFINE L(g) == {r \in RowsAt(g) : r[1] = "literal" /\ q.subject \in {None, r[2]}}
<1>1. q.path \in Paths \cup {None}
  BY QuestionsAssumption DEF QuestionsAssumption
<1>2. ASSUME NEW g \in Paths PROVE LiteralsOf(Told, g, q) = L(g)
  <2>1. L(g) = {r \in Kind("literal", RowsAt(g)) : q.subject \in {None, r[2]}}
    BY DEF Kind
  <2>2. Kind("literal", RowsAt(g)) =
          {<<"literal", t.s, t.p, t.o>> : t \in {x \in ToldBy(g) : x.lit /\ x.p \in LiteralPredicates}}
    BY KindsOfRows
  <2> HIDE DEF L
  <2> QED
    BY <2>1, <2>2 DEF LiteralsOf, ToldBy
<1>3. ASSUME NEW g \in Paths, NEW r
      PROVE  r \in L(g) <=> /\ r[1] = "literal" /\ q.subject \in {None, r[2]} /\ file[g] # NoFile
                            /\ <<file[g].id, r>> \in index
  <2>1. CASE file[g] = NoFile
    BY <2>1 DEF RowsAt
  <2>2. CASE file[g] # NoFile
    <3>1. r \in RowsAt(g) => <<file[g].id, r>> \in index
      BY <2>2, Entries
    <3>2. <<file[g].id, r>> \in index => r \in RowsAt(g)
      <4> SUFFICES ASSUME <<file[g].id, r>> \in index PROVE r \in RowsAt(g)
        OBVIOUS
      <4>1. PICK e \in index : e = <<file[g].id, r>> /\ e[1] = file[g].id /\ e[2] = r
        OBVIOUS
      <4>2. r \in RowsOf(file[g].id)
        BY <4>1 DEF RowsOf
      <4> QED
        BY <2>2, <4>2, Entries
    <3> QED
      BY <2>2, <3>1, <3>2
  <2> QED
    BY <2>1, <2>2
<1>4. \A g \in Paths : L(g) \subseteq rows
  BY Entries DEF RowsAt
<1> HIDE DEF L
<1>5. Was(q) = {l \in UNION {L(g) : g \in {x \in Paths : MayRead(x)}} :
                    q.path = None \/ l \in LiteralsOf(Told, q.path, q)}
  BY <1>2 DEF Was, Truth
<1>6. PICK asked : asked = {r \in rows : r[1] = "literal" /\ q.subject \in {None, r[2]}}
  OBVIOUS
<1>7. PICK ofFile :
        ofFile = IF q.path = None THEN asked
                 ELSE {r \in asked : file[q.path] # NoFile /\ <<file[q.path].id, r>> \in index}
  OBVIOUS
<1>8. Literals(q) = IF acl THEN ofFile \cap {e[2] : e \in Visible(index)} ELSE ofFile
  BY <1>6, <1>7 DEF Literals
<1>9. ofFile = IF q.path = None THEN asked ELSE LiteralsOf(Told, q.path, q)
  <2>1. CASE q.path # None
    <3>1. q.path \in Paths
      BY <1>1, <2>1
    <3> QED
      BY <2>1, <3>1, <1>2, <1>3, <1>4, <1>6, <1>7
  <2> QED
    BY <2>1, <1>7
<1>10. CASE acl
  <2>1. ASSUME NEW r PROVE r \in asked /\ r \in {e[2] : e \in Visible(index)} <=>
                             \E g \in Paths : MayRead(g) /\ r \in L(g)
    <3>1. ASSUME r \in asked, r \in {e[2] : e \in Visible(index)}
          PROVE  \E g \in Paths : MayRead(g) /\ r \in L(g)
      <4>1. PICK e \in index : e[2] = r /\ MayRead(PathOf(e[1]))
        BY <3>1 DEF Visible
      <4>2. PICK g \in Paths : file[g] # NoFile /\ e[1] = file[g].id /\ e = <<e[1], e[2]>>
        BY Entries
      <4>3. PathOf(e[1]) = g
        BY <4>2, Entries
      <4> QED
        BY <3>1, <4>1, <4>2, <4>3, <1>3, <1>6
    <3>2. ASSUME NEW g \in Paths, MayRead(g), r \in L(g)
          PROVE  r \in asked /\ r \in {e[2] : e \in Visible(index)}
      <4>1. r[1] = "literal" /\ q.subject \in {None, r[2]} /\ file[g] # NoFile /\ <<file[g].id, r>> \in index
        BY <3>2, <1>3
      <4>2. PICK e : e = <<file[g].id, r>>
        OBVIOUS
      <4>3. e \in index /\ e[2] = r /\ PathOf(e[1]) = g
        BY <4>1, <4>2, Entries
      <4> QED
        BY <3>2, <4>1, <4>3, <1>4, <1>6 DEF Visible
    <3> QED
      BY <3>1, <3>2
  <2>2. \A g \in Paths : L(g) = LiteralsOf(Told, g, q)
    BY <1>2
  <2>3. LiteralsOf(Told, q.path, q) \subseteq asked \/ q.path = None
    BY <1>1, <1>3, <1>4, <1>6, <2>2
  <2> QED
    BY <1>5, <1>8, <1>9, <1>10, <2>1, <2>3
<1>11. CASE ~acl
  <2>1. q.path \in Paths /\ q.path # None
    BY <1>1, <1>11 DEF Excepted
  <2>2. \A g \in Paths : MayRead(g)
    BY <1>11 DEF MayRead
  <2> QED
    BY <1>2, <1>5, <1>8, <1>9, <1>11, <2>1, <2>2
<1> QED
  BY <1>10, <1>11

-----------------------------------------------------------------------------
(* What is true of a call while others go on.                              *)

\* An id stays with its file, or is nobody's for ever.
Moves ==
  /\ \A i : Gone(i) => Gone(i)'
  /\ \A i : \A p \in Paths : file[p] # NoFile /\ file[p].id = i =>
       \/ file'[p] # NoFile /\ file'[p].id = i
       \/ file'[p] = NoFile /\ Gone(i)'

LEMMA StartMoves ==
  ASSUME TablesInv, NEW w \in Writers, NEW p, NEW c, NEW step, Start(w, p, c, step)
  PROVE  Moves
<1>1. /\ writes' = writes + 1 /\ file' = file /\ index' = index /\ writes \in Nat
      /\ job' = [job EXCEPT ![w] = [path |-> p, content |-> c, id |-> writes + 1]]
      /\ wpc' = [wpc EXCEPT ![w] = step]
  BY DEF Start, TablesInv, IndexInv, FilesIndexed, Indexed
<1>2. job'[w].id = writes + 1 /\ \A v \in Writers \ {w} : job'[v] = job[v] /\ wpc'[v] = wpc[v]
  BY <1>1 DEF TablesInv, IndexInv, Working
<1>3. ASSUME NEW i, Gone(i) PROVE Gone(i)'
  <2>1. i \in Nat /\ i <= writes /\ i <= writes + 1 /\ i # writes + 1
    BY <1>1, <1>3 DEF Gone
  <2>2. \A v \in Writers : Busy(v)' => job'[v].id # i
    BY <2>1, <1>2, <1>3 DEF Gone, Busy
  <2> QED
    BY <2>1, <2>2, <1>1, <1>3 DEF Gone, NotIn
<1> QED
  BY <1>1, <1>3 DEF Moves

\* A writer that ends, and leaves the files with the ids they have.
LEMMA EndMoves ==
  ASSUME TablesInv, NEW w \in Writers, NEW done \in BOOLEAN, EndJob(w, done), writes' = writes,
         \A i : Gone(i) => NotIn(file', index', i),
         \A p \in Paths : file[p] # NoFile =>
           \/ file'[p] # NoFile /\ file'[p].id = file[p].id
           \/ file'[p] = NoFile /\ NotIn(file', index', file[p].id)
  PROVE  Moves
<1>1. wpc' = [wpc EXCEPT ![w] = "idle"] /\ job' = [job EXCEPT ![w] = None]
  BY DEF EndJob
<1>2. \A v \in Writers : Busy(v)' => Busy(v) /\ job'[v] = job[v]
  <2>1. wpc'[w] = "idle" /\ \A v \in Writers \ {w} : wpc'[v] = wpc[v] /\ job'[v] = job[v]
    BY <1>1 DEF TablesInv, IndexInv, Working
  <2> QED
    BY <2>1 DEF Busy
<1>3. \A i : Gone(i) => Gone(i)'
  BY <1>2 DEF Gone
<1>4. ASSUME NEW p \in Paths, NEW i, file[p] # NoFile, file[p].id = i, NotIn(file', index', i)
      PROVE  Gone(i)'
  <2>1. i \in Nat /\ i <= writes
    BY <1>4 DEF TablesInv, IndexInv, FilesIndexed, Indexed, Entry
  <2>2. \A v \in Writers : Busy(v) => job[v].id # i
    BY <1>4 DEF TablesInv, IndexInv, Working, Fresh, NotIn
  <2> QED
    BY <2>1, <2>2, <1>2, <1>4 DEF Gone
<1> QED
  BY <1>3, <1>4 DEF Moves

LEMMA CommitMoves ==
  ASSUME TablesInv, NEW w \in Writers, Commit(w) PROVE Moves
<1>1. PICK j : j = job[w]
  OBVIOUS
<1>2. /\ wpc[w] = "insert" /\ writes' = writes /\ EndJob(w, TRUE)
      /\ file' = [file EXCEPT ![j.path] = [id |-> j.id, content |-> j.content, nquads |-> j.content]]
      /\ index' = index \cup ({j.id} \X (FileRows[j.path][j.content] \cap (rows \cup held[w])))
  BY <1>1 DEF Commit
<1>3. Busy(w) /\ j.path \in Paths /\ file[j.path] = NoFile
  BY <1>1, <1>2 DEF TablesInv, IndexInv, RowsOwned, Working, Busy, Job
<1>4. file'[j.path].id = j.id /\ \A p \in Paths \ {j.path} : file'[p] = file[p]
  BY <1>2, <1>3 DEF TablesInv, IndexInv, FilesIndexed, Indexed
<1>5. \A e \in index' : e \in index \/ e[1] = j.id
  BY <1>2
<1>6. ASSUME NEW i, Gone(i) PROVE NotIn(file', index', i)
  <2>1. NotIn(file, index, i) /\ j.id # i
    BY <1>1, <1>3, <1>6 DEF Gone
  <2> QED
    BY <2>1, <1>4, <1>5 DEF NotIn
<1>7. \A p \in Paths : file[p] # NoFile => file'[p] # NoFile /\ file'[p].id = file[p].id
  BY <1>3, <1>4
<1> QED
  BY <1>2, <1>6, <1>7, EndMoves

LEMMA ReplaceMoves ==
  ASSUME TablesInv, NEW w \in Writers, Replace(w) PROVE Moves
<1>1. PICK j : j = job[w]
  OBVIOUS
<1>2. /\ wpc[w] = "replace" /\ writes' = writes /\ index' = index /\ EndJob(w, TRUE)
      /\ file' = [file EXCEPT ![j.path].content = j.content]
  BY <1>1 DEF Replace
<1>3. /\ Busy(w) /\ j \in Job /\ j.path \in Paths /\ j.content \in Contents
      /\ file[j.path] # NoFile
  BY <1>1, <1>2 DEF TablesInv, IndexInv, Working, Busy, Job
<1>4. /\ file'[j.path].id = file[j.path].id /\ file'[j.path] # NoFile
      /\ \A p \in Paths \ {j.path} : file'[p] = file[p]
  <2>1. file[j.path] \in Entry
    BY <1>3 DEF TablesInv, IndexInv, FilesIndexed, Indexed
  <2>2. file'[j.path] = [file[j.path] EXCEPT !.content = j.content]
    BY <1>2, <1>3 DEF TablesInv, IndexInv, FilesIndexed, Indexed
  <2>3. file'[j.path] \in [id : Nat, content : Contents, nquads : Contents]
    BY <2>1, <2>2, <1>3 DEF Entry
  <2>4. file'[j.path].id = file[j.path].id
    BY <2>1, <2>2 DEF Entry
  <2>5. NoFile \notin [id : Nat, content : Contents, nquads : Contents]
    BY ConstantsAssumption DEF ConstantsAssumption
  <2> QED
    BY <2>3, <2>4, <2>5, <1>2, <1>3 DEF TablesInv, IndexInv, FilesIndexed, Indexed
<1>5. \A i : Gone(i) => NotIn(file', index', i)
  BY <1>2, <1>3, <1>4 DEF Gone, NotIn
<1>6. \A p \in Paths : file[p] # NoFile => file'[p] # NoFile /\ file'[p].id = file[p].id
  BY <1>3, <1>4
<1> QED
  BY <1>2, <1>5, <1>6, EndMoves

LEMMA DeleteMoves ==
  ASSUME TablesInv, NEW w \in Writers, Delete(w) PROVE Moves
<1>1. PICK p : p = job[w].path
  OBVIOUS
<1>2. /\ wpc[w] = "delete" /\ writes' = writes /\ EndJob(w, TRUE)
      /\ index' = {e \in index : e[1] # file[p].id} /\ file' = [file EXCEPT ![p] = NoFile]
  BY <1>1 DEF Delete, Without
<1>3. Busy(w) /\ p \in Paths /\ file[p] # NoFile
  BY <1>1, <1>2 DEF TablesInv, IndexInv, Working, Busy, Job
<1>4. file'[p] = NoFile /\ \A q \in Paths \ {p} : file'[q] = file[q]
  BY <1>2, <1>3 DEF TablesInv, IndexInv, FilesIndexed, Indexed
<1>5. \A i : Gone(i) => NotIn(file', index', i)
  BY <1>2, <1>4 DEF Gone, NotIn
<1>6. NotIn(file', index', file[p].id)
  <2>1. \A q \in Paths \ {p} : file[q] # NoFile => file[q].id # file[p].id
    BY <1>3 DEF TablesInv, IndexInv, FilesIndexed, Indexed
  <2> QED
    BY <2>1, <1>2, <1>4 DEF NotIn
<1>7. \A q \in Paths : file[q] # NoFile =>
        \/ file'[q] # NoFile /\ file'[q].id = file[q].id
        \/ file'[q] = NoFile /\ NotIn(file', index', file[q].id)
  BY <1>4, <1>6
<1> QED
  BY <1>2, <1>5, <1>7, EndMoves

LEMMA StillMoves == ASSUME TablesInv, UNCHANGED <<file, index, writes, wpc, job>> PROVE Moves
BY DEF Moves, Gone, NotIn, Busy

LEMMA WriterMoves ==
  ASSUME TablesInv, NEW w \in Writers, Write(w) PROVE Moves
<1>1. CASE BeginWrite(w) \/ BeginDelete(w)
  <2>1. \E p, c, step : Start(w, p, c, step)
    BY <1>1 DEF BeginWrite, BeginDelete
  <2> QED
    BY <2>1, StartMoves
<1>2. CASE InsertRows(w)
  BY <1>2, StillMoves DEF InsertRows, store
<1>3. CASE Fail(w)
  <2>1. file' = file /\ index' = index /\ writes' = writes /\ EndJob(w, FALSE)
    BY <1>3 DEF Fail
  <2> QED
    BY <2>1, EndMoves DEF Gone, NotIn
<1> QED
  BY <1>1, <1>2, <1>3, CommitMoves, ReplaceMoves, DeleteMoves DEF Write

LEMMA SameTruth ==
  ASSUME UNCHANGED <<file, open, acl>>, NEW q PROVE Must(q)' = Must(q) /\ May(q)' = May(q)
<1>1. Promised' = Promised /\ Possible' = Possible
  BY DEF Promised, Possible, Replaced, Says, Triples
<1>2. Truth(q, Promised)' = Truth(q, Promised)
  BY <1>1 DEF Truth, MayRead, LiteralsOf, Refers, Untyped
<1>3. Truth(q, Possible)' = Truth(q, Possible)
  BY <1>1 DEF Truth, MayRead, LiteralsOf, Refers, Untyped
<1> QED
  BY <1>2, <1>3 DEF Must, May

\* A file that is not there has no links.
LEMMA NoLinks ==
  ASSUME NEW q, q.op = "rel", q.path \in Paths, file[q.path] = NoFile PROVE Must(q) = {}
<1>1. Untyped(Promised[q.path]) = {} /\ Promised[q.path] = {}
  BY DEF Promised, Replaced, Says, Untyped
<1>2. Truth(q, Promised) =
        UNION {{<<"in", t.p, g>> :
                  t \in {x \in Promised[g] : Refers(Promised, g, x, q.path) /\ q.pred \in {None, x.p}}}
               \cup {<<"out", t.p, g>> : t \in {x \in Promised[q.path] : Refers(Promised, q.path, x, g)}}
               : g \in {x \in Paths : MayRead(x)}}
  BY DEF Truth
<1>3. \A g, x : ~Refers(Promised, g, x, q.path)
  BY <1>1 DEF Refers
<1> QED
  BY <1>1, <1>2, <1>3 DEF Must

LEMMA NoLinksNext ==
  ASSUME NEW q PROVE (q.op = "rel" /\ q.path \in Paths /\ file[q.path] = NoFile => Must(q) = {})'
<1>1. q.op = "rel" /\ q.path \in Paths /\ file[q.path] = NoFile => Must(q) = {}
  BY NoLinks
<1> QED
  BY <1>1, PTL

LEMMA Tracking ==
  ASSUME Track, NEW r \in Readers, NEW q, q # None, ask[r] = q, ask'[r] = q
  PROVE  ever'[r] = ever[r] \cup May(q)' /\ always'[r] = always[r] \cap Must(q)'
<1>1. May(ask[r])' = May(q)' /\ Must(ask[r])' = Must(q)'
  BY DEF May, Must, Truth
<1> QED
  BY <1>1 DEF Track

Quiet(r) ==
  rpc'[r] = rpc[r] /\ ask'[r] = ask[r] /\ id'[r] = id[r] /\ answer'[r] = answer[r]

\* A reader that does nothing while others do something.
LEMMA Kept ==
  ASSUME TablesInv, NEW r \in Readers, Asking(r), Moves, acl' = acl, Track, Quiet(r)
  PROVE  Asking(r)'
<1>1. CASE rpc[r] = "idle"
  BY <1>1 DEF Asking, Quiet
<1>2. CASE rpc[r] # "idle"
  <2>1. PICK q : q = ask[r]
    OBVIOUS
  <2>2. PICK i : i = id[r]
    OBVIOUS
  <2>3. /\ ask'[r] = q /\ id'[r] = i /\ q \in Questions /\ q # None
        /\ Suits(rpc[r], q.op) /\ Progress(r)
    BY <1>2, <2>1, <2>2, QuestionsAssumption DEF Asking, Quiet, QuestionsAssumption
  <2>4. ever'[r] = ever[r] \cup May(q)' /\ always'[r] = always[r] \cap Must(q)'
    BY <2>1, <2>3, Tracking
  <2>5. Bounds(r)'
    <3>1. May(ask[r])' = May(q)' /\ Must(ask[r])' = Must(q)'
      BY <2>3 DEF May, Must, Truth
    <3> QED
      BY <2>4, <3>1 DEF Bounds
  <2>6. ASSUME rpc[r] \in LinkSteps PROVE Follows(r)'
    <3>1. q.op = "rel" /\ q.path \in Paths /\ Follows(r)
      BY <2>3, <2>6, QuestionsAssumption DEF Suits, LinkSteps, RelSteps, Progress, QuestionsAssumption
    <3>2. CASE Mine(r)
      <4>1. file[q.path] # NoFile /\ file[q.path].id = i
        BY <3>2, <2>1, <2>2 DEF Mine
      <4>2. CASE file'[q.path] # NoFile /\ file'[q.path].id = i
        BY <4>2, <2>3 DEF Mine, Follows
      <4>3. CASE file'[q.path] = NoFile /\ Gone(i)'
        <5>1. Must(q)' = {}
          BY <4>3, <3>1, NoLinksNext
        <5> QED
          BY <5>1, <4>3, <2>3, <2>4 DEF Follows
      <4> QED
        BY <4>1, <4>2, <4>3, <3>1 DEF Moves
    <3>3. CASE Gone(i) /\ always[r] = {}
      <4>1. Gone(i)'
        BY <3>3 DEF Moves
      <4> QED
        BY <4>1, <3>3, <2>3, <2>4 DEF Follows
    <3> QED
      BY <3>1, <3>2, <3>3, <2>2 DEF Follows
  <2>7. Progress(r)'
    <3>1. rpc'[r] = rpc[r] /\ answer'[r] = answer[r]
      BY DEF Quiet
    <3>2. Excepted(q)' <=> Excepted(q)
      BY DEF Excepted
    <3>3. always'[r] \subseteq always[r] /\ ever[r] \subseteq ever'[r]
      BY <2>4
    <3>4. Compared(r)' = Compared(r)
      BY <2>1, <2>3, <3>1 DEF Compared, AnyFile
    <3> QED
      BY <2>1, <2>2, <2>3, <2>6, <3>1, <3>2, <3>3, <3>4 DEF Progress, Kind, LinkSteps, Excepted
  <2> QED
    BY <1>2, <2>3, <2>5, <2>7 DEF Asking, Quiet
<1> QED
  BY <1>1, <1>2

-----------------------------------------------------------------------------
(* The steps of a call.                                                    *)

\* What a step of a reader leaves alone, and what it goes on with.
Still == UNCHANGED <<store, writers, rights>>

LEMMA StillTruth ==
  ASSUME Still, NEW q
  PROVE  Must(q)' = Must(q) /\ May(q)' = May(q) /\ (Excepted(q)' <=> Excepted(q))
BY SameTruth DEF Still, store, rights, Excepted

\* A step within a call: what it has to establish.
LEMMA OwnStep ==
  ASSUME NEW r \in Readers, Asking(r), rpc[r] # "idle", Still, Track, NEW q, ask[r] = q, ask'[r] = q
  PROVE  /\ q \in Questions /\ (Excepted(q)' <=> Excepted(q))
         /\ ever'[r] = ever[r] /\ always'[r] = always[r]
         /\ always[r] \subseteq Must(q) /\ May(q) \subseteq ever[r]
         /\ always[r] \subseteq Was(q) /\ Was(q) \subseteq ever[r]
         /\ rpc'[r] # "idle" /\ Suits(rpc'[r], q.op) /\ Progress(r)' => Asking(r)'
<1>1. q \in Questions /\ q # None
  BY QuestionsAssumption DEF Asking, QuestionsAssumption
<1>2. Must(q)' = Must(q) /\ May(q)' = May(q) /\ (Excepted(q)' <=> Excepted(q))
  BY StillTruth
<1>3. always[r] \subseteq Must(q) /\ May(q) \subseteq ever[r]
  BY DEF Asking, Bounds
<1>4. ever'[r] = ever[r] /\ always'[r] = always[r]
  <2>1. ever'[r] = ever[r] \cup May(q)' /\ always'[r] = always[r] \cap Must(q)'
    BY <1>1, Tracking
  <2> QED
    BY <2>1, <1>2, <1>3
<1>5. Bounds(r)'
  <2>1. May(ask[r])' = May(q)' /\ Must(ask[r])' = Must(q)'
    BY DEF May, Must, Truth
  <2> QED
    BY <2>1, <1>2, <1>3, <1>4 DEF Bounds
<1> QED
  BY <1>1, <1>2, <1>3, <1>4, <1>5, Between DEF Asking

LEMMA AskStep ==
  ASSUME AnswersInv, NEW r \in Readers, Ask(r), Track PROVE Asking(r)'
<1>1. PICK q \in Questions :
        /\ ask' = [ask EXCEPT ![r] = q]
        /\ rpc' = [rpc EXCEPT ![r] = CASE q.op = "rel" -> "check" [] q.op = "read" -> "row" [] OTHER -> "query"]
  BY DEF Ask
<1>2. /\ rpc[r] = "idle" /\ ask[r] = None /\ ask'[r] = q /\ answer'[r] = {} /\ q # None
      /\ rpc'[r] = CASE q.op = "rel" -> "check" [] q.op = "read" -> "row" [] OTHER -> "query"
  BY <1>1, QuestionsAssumption DEF Ask, AnswersInv, Asking, QuestionsAssumption
<1>3. q.op \in {"rel", "find", "literal", "read"}
  BY QuestionsAssumption DEF QuestionsAssumption
<1>4. Suits(rpc'[r], q.op) /\ rpc'[r] \in {"check", "row", "query"}
  BY <1>2, <1>3 DEF Suits, RelSteps
<1>5. May(ask[r])' = May(q)' /\ Must(ask[r])' = Must(q)'
  BY <1>2 DEF May, Must, Truth
<1>6. ever'[r] = May(q)' /\ always'[r] = Must(q)'
  BY <1>2, <1>5 DEF Track
<1>7. Bounds(r)' /\ Progress(r)'
  BY <1>2, <1>4, <1>5, <1>6 DEF Bounds, Progress, LinkSteps
<1> QED
  BY <1>1, <1>2, <1>4, <1>7 DEF Asking

LEMMA CheckStep ==
  ASSUME AnswersInv, NEW r \in Readers, Check(r), Track PROVE Asking(r)'
<1>1. PICK q : q = ask[r]
  OBVIOUS
<1>2. /\ rpc[r] \in {"check", "again"} /\ rpc'[r] \in {"failed", "again", "row"}
      /\ ask'[r] = q /\ answer'[r] = answer[r] /\ Still
  BY <1>1 DEF Check, Goto, AnswersInv, Still
<1>3. q.op = "rel" /\ answer[r] = {}
  BY <1>1, <1>2 DEF AnswersInv, Asking, Suits, RelSteps, Progress
<1>4. Suits(rpc'[r], q.op) /\ Progress(r)'
  BY <1>2, <1>3 DEF Suits, RelSteps, Progress, LinkSteps
<1>5. Asking(r)
  BY DEF AnswersInv
<1> QED
  BY <1>1, <1>2, <1>4, <1>5, OwnStep

LEMMA RowStep ==
  ASSUME TablesInv, AnswersInv, NEW r \in Readers, Row(r), Track PROVE Asking(r)'
<1>1. PICK q : q = ask[r]
  OBVIOUS
<1>2. PICK f : f = file[q.path]
  OBVIOUS
<1>3. /\ rpc[r] = "row" /\ ask'[r] = q /\ answer'[r] = answer[r] /\ Still /\ Asking(r)
      /\ file' = file
  BY <1>1 DEF Row, AnswersInv, Still, store
<1>4. /\ q.op \in {"rel", "read"} /\ answer[r] = {} /\ q \in Questions
  BY <1>1, <1>3 DEF Asking, Suits, Progress
<1>5. q.path \in Paths
  BY <1>4, QuestionsAssumption DEF QuestionsAssumption
<1>6. CASE f = NoFile
  <2>1. rpc'[r] = "failed"
    BY <1>1, <1>2, <1>6 DEF Row, Goto, AnswersInv
  <2>2. Suits(rpc'[r], q.op) /\ Progress(r)'
    BY <2>1 DEF Suits, RelSteps, Progress, LinkSteps
  <2> QED
    BY <1>1, <1>3, <2>1, <2>2, OwnStep
<1>7. CASE f # NoFile /\ q.op = "rel"
  <2>1. rpc'[r] = "links" /\ id'[r] = f.id
    BY <1>1, <1>2, <1>7 DEF Row, Goto, AnswersInv
  <2>2. Mine(r)'
    BY <1>2, <1>3, <1>7, <2>1 DEF Mine
  <2>3. Suits(rpc'[r], q.op) /\ Progress(r)'
    BY <1>3, <1>4, <1>7, <2>1, <2>2 DEF Suits, RelSteps, Progress, LinkSteps, Follows
  <2> QED
    BY <1>1, <1>3, <2>1, <2>3, OwnStep
<1>8. CASE f # NoFile /\ q.op = "read"
  <2>1. rpc'[r] = "quads" /\ id'[r] = f.content
    BY <1>1, <1>2, <1>8 DEF Row, Goto, AnswersInv
  <2>2. f.content \in Contents
    BY <1>2, <1>5, <1>8 DEF TablesInv, IndexInv, FilesIndexed, Indexed, Entry
  <2>3. Was(q) = Pairs(f.content)
    BY <1>2, <1>8 DEF Was, Truth, Pairs
  <2>4. /\ ever'[r] = ever[r] /\ always'[r] = always[r]
        /\ always[r] \subseteq Was(q) /\ Was(q) \subseteq ever[r]
    BY <1>1, <1>3, OwnStep
  <2>5. Suits(rpc'[r], q.op) /\ Progress(r)'
    BY <1>8, <2>1, <2>2, <2>3, <2>4 DEF Suits, RelSteps, Progress, LinkSteps
  <2> QED
    BY <1>1, <1>3, <2>1, <2>5, OwnStep
<1> QED
  BY <1>4, <1>6, <1>7, <1>8

\* With the id of a file that is gone, the queries find nothing.
LEMMA LinksTrue ==
  ASSUME TablesInv, NEW r \in Readers, NEW q \in Questions, q = ask[r], q.op = "rel", Follows(r),
         always[r] \subseteq Was(q)
  PROVE  /\ Inbound(id[r], q.pred) \subseteq Was(q) /\ Kind("in", always[r]) \subseteq Inbound(id[r], q.pred)
         /\ Outbound(id[r]) \subseteq Was(q) /\ Kind("out", always[r]) \subseteq Outbound(id[r])
<1>1. q.path \in Paths
  BY QuestionsAssumption DEF QuestionsAssumption
<1>2. CASE Mine(r)
  <2>1. file[q.path] # NoFile /\ id[r] = file[q.path].id
    BY <1>2 DEF Mine
  <2>2. Inbound(id[r], q.pred) = Ins(q) /\ Outbound(id[r]) = Outs(q)
    BY <1>1, <2>1, InboundTrue, OutboundTrue
  <2>3. \A k : Kind(k, always[r]) \subseteq Kind(k, Was(q))
    BY DEF Kind
  <2> QED
    BY <2>2, <2>3, RelTruth
<1>3. CASE Gone(id[r]) /\ always[r] = {}
  <2>1. RowsOf(id[r]) = {}
    BY <1>3 DEF Gone, NotIn, RowsOf
  <2>2. Inbound(id[r], q.pred) = {} /\ Outbound(id[r]) = {}
    BY <2>1 DEF Inbound, Outbound, Visible
  <2>3. \A k : Kind(k, always[r]) = {}
    BY <1>3 DEF Kind
  <2> QED
    BY <2>2, <2>3
<1> QED
  BY <1>2, <1>3 DEF Follows

LEMMA LinksStep ==
  ASSUME TablesInv, AnswersInv, NEW r \in Readers, Links(r), Track PROVE Asking(r)'
<1>1. PICK q : q = ask[r]
  OBVIOUS
<1>2. PICK into : into = Inbound(id[r], q.pred)
  OBVIOUS
<1>3. PICK outof : outof = Outbound(id[r])
  OBVIOUS
<1>4. /\ rpc[r] \in LinkSteps /\ ask'[r] = q /\ id'[r] = id[r] /\ Still /\ Asking(r) /\ file' = file
      /\ UNCHANGED <<index, writes, wpc, job>>
      /\ \/ /\ rpc[r] \in {"links", "in"} /\ rpc'[r] = (IF rpc[r] = "in" THEN "done" ELSE "out")
            /\ answer'[r] = answer[r] \cup into
         \/ /\ rpc[r] \in {"links", "out"} /\ rpc'[r] = (IF rpc[r] = "out" THEN "done" ELSE "in")
            /\ answer'[r] = answer[r] \cup outof
  BY <1>1, <1>2, <1>3 DEF Links, Goto, AnswersInv, Still, store, writers, LinkSteps
<1>5. q \in Questions /\ q.op = "rel" /\ Follows(r) /\ Progress(r)
  BY <1>1, <1>4 DEF Asking, Suits, RelSteps, LinkSteps, Progress
<1>6. /\ ever'[r] = ever[r] /\ always'[r] = always[r] 
      /\ always[r] \subseteq Was(q) /\ Was(q) \subseteq ever[r]
  BY <1>1, <1>4, OwnStep
<1>7. /\ into \subseteq Was(q) /\ Kind("in", always[r]) \subseteq into
      /\ outof \subseteq Was(q) /\ Kind("out", always[r]) \subseteq outof
  BY <1>1, <1>2, <1>3, <1>5, <1>6, LinksTrue
<1>8. Follows(r)'
  BY <1>1, <1>4, <1>5, <1>6 DEF Follows, Mine, Gone, Busy
<1>9. always[r] = Kind("in", always[r]) \cup Kind("out", always[r])
  <2>1. Was(q) = Kind("in", Was(q)) \cup Kind("out", Was(q))
    BY <1>5, RelTruth
  <2> QED
    BY <2>1, <1>6 DEF Kind
<1>10. answer[r] \subseteq ever[r] /\ answer'[r] \subseteq ever'[r]
  BY <1>4, <1>5, <1>6, <1>7 DEF Progress
<1>11. rpc'[r] = "out" => Kind("in", always[r]) \subseteq answer'[r]
  BY <1>4, <1>7
<1>12. rpc'[r] = "in" => Kind("out", always[r]) \subseteq answer'[r]
  BY <1>4, <1>7
<1>13. rpc'[r] = "done" => always[r] \subseteq answer'[r]
  BY <1>4, <1>5, <1>7, <1>9 DEF Progress
<1>14. Suits(rpc'[r], q.op) /\ rpc'[r] \in {"in", "out", "done"}
  BY <1>4, <1>5 DEF Suits, RelSteps, LinkSteps
<1>15. Compared(r)' = answer'[r]
  BY <1>4, <1>5 DEF Compared
<1>16. Progress(r)'
  BY <1>6, <1>8, <1>10, <1>11, <1>12, <1>13, <1>14, <1>15 DEF Progress
<1> QED
  BY <1>1, <1>4, <1>14, <1>16, OwnStep

LEMMA QueryStep ==
  ASSUME TablesInv, AnswersInv, NEW r \in Readers, Query(r), Track PROVE Asking(r)'
<1>1. PICK q : q = ask[r]
  OBVIOUS
<1>2. /\ rpc[r] = "query" /\ rpc'[r] = "done" /\ ask'[r] = q /\ Still /\ Asking(r)
      /\ answer'[r] = IF q.op = "find" THEN Find(q.filters) ELSE Literals(q)
  BY <1>1 DEF Query, Goto, AnswersInv, Still
<1>3. q \in Questions /\ q.op \in {"find", "literal"}
  BY <1>1, <1>2 DEF Asking, Suits
<1>4. /\ ever'[r] = ever[r] /\ always'[r] = always[r] /\ (Excepted(q)' <=> Excepted(q))
      /\ always[r] \subseteq Was(q) /\ Was(q) \subseteq ever[r]
  BY <1>1, <1>2, OwnStep
<1>5. ~Excepted(q) => answer'[r] = Was(q)
  BY <1>2, <1>3, FindTrue, LiteralsTrue
<1>6. Compared(r)' = answer'[r]
  BY <1>2, <1>3 DEF Compared
<1>7. Progress(r)' /\ Suits(rpc'[r], q.op)
  BY <1>2, <1>3, <1>4, <1>5, <1>6 DEF Progress, LinkSteps, Suits, RelSteps, Excepted
<1> QED
  BY <1>1, <1>2, <1>7, OwnStep

LEMMA QuadsStep ==
  ASSUME TablesInv, AnswersInv, NEW r \in Readers, ReadQuads(r), Track PROVE Asking(r)'
<1>1. PICK q : q = ask[r]
  OBVIOUS
<1>2. PICK c : c = id[r]
  OBVIOUS
<1>3. /\ rpc[r] = "quads" /\ ask'[r] = q /\ Still /\ Asking(r)
      /\ \/ rpc'[r] = "failed"
         \/ nq[c] # None /\ rpc'[r] = "done" /\ answer'[r] = {<<x.s, x.p, x.o>> : x \in nq[c]}
  BY <1>1, <1>2 DEF ReadQuads, Goto, AnswersInv, Still
<1>4. c \in Contents /\ always[r] \subseteq Pairs(c) /\ Pairs(c) \subseteq ever[r]
  BY <1>2, <1>3 DEF Asking, Progress
<1>5. ever'[r] = ever[r] /\ always'[r] = always[r]
  BY <1>1, <1>3, OwnStep
<1>6. ASSUME rpc'[r] = "done" PROVE Compared(r)' = Pairs(c)
  <2>1. q.op = "read"
    BY <1>1, <1>3 DEF Asking, Suits
  <2>2. Compared(r)' = {<<AnyFile(y[1]), y[2], y[3]>> : y \in answer'[r]}
    BY <1>3, <2>1 DEF Compared, AnyFile
  <2>3. Compared(r)' = {<<AnyFile(x.s), x.p, x.o>> : x \in nq[c]}
    <3> DEFINE Triple(x) == <<x.s, x.p, x.o>>
               Pair(y) == <<AnyFile(y[1]), y[2], y[3]>>
               Of(x) == <<AnyFile(x.s), x.p, x.o>>
    <3>1. \A x : Pair(Triple(x)) = Of(x)
      OBVIOUS
    <3>2. answer'[r] = {Triple(x) : x \in nq[c]}
      BY <1>3, <1>6
    <3>3. Compared(r)' = {Pair(y) : y \in answer'[r]}
      BY <2>2
    <3> HIDE DEF Triple, Pair, Of
    <3>4. Compared(r)' = {Of(x) : x \in nq[c]}
      BY <3>1, <3>2, <3>3
    <3> QED
      BY <3>4 DEF Of
  <2>4. nq[c] # None
    BY <1>1, <1>2, <1>6 DEF ReadQuads, Goto, AnswersInv
  <2>5. nq[c] # None => {<<AnyFile(x.s), x.p, x.o>> : x \in nq[c]} = Pairs(c)
    BY <1>4 DEF TablesInv, Companions
  <2> QED
    BY <2>3, <2>4, <2>5
<1>7. Progress(r)' /\ Suits(rpc'[r], q.op) /\ rpc'[r] # "idle"
  BY <1>3, <1>4, <1>5, <1>6 DEF Progress, LinkSteps, Suits, RelSteps
<1> QED
  BY <1>1, <1>3, <1>7, OwnStep

LEMMA DoneStep ==
  ASSUME AnswersInv, NEW r \in Readers, Done(r) PROVE Asking(r)'
BY DEF Done, Goto, AnswersInv, Asking

LEMMA ReaderStep ==
  ASSUME TablesInv, AnswersInv, NEW r \in Readers, Read(r), Track PROVE AnswersInv'
<1>1. Still
  BY DEF Read, Ask, Check, Row, Links, Query, ReadQuads, Done, Still
<1>2. Moves /\ acl' = acl
  BY <1>1, StillMoves DEF Still, store, writers, rights
<1>3. \E step, q, i, a :
        /\ rpc' = [rpc EXCEPT ![r] = step]
        /\ ask' = [ask EXCEPT ![r] = q] /\ id' = [id EXCEPT ![r] = i]
        /\ answer' = [answer EXCEPT ![r] = a]
  <2>1. \A step : Goto(r, step) => rpc' = [rpc EXCEPT ![r] = step]
    BY DEF Goto
  <2>2. /\ ask = [ask EXCEPT ![r] = ask[r]] /\ id = [id EXCEPT ![r] = id[r]]
        /\ answer = [answer EXCEPT ![r] = answer[r]]
    BY DEF AnswersInv
  <2>3. CASE Ask(r)
    <3>1. PICK q \in Questions :
            /\ ask' = [ask EXCEPT ![r] = q]
            /\ rpc' = [rpc EXCEPT ![r] = CASE q.op = "rel" -> "check" [] q.op = "read" -> "row" [] OTHER -> "query"]
      BY <2>3 DEF Ask
    <3>2. PICK step : step = CASE q.op = "rel" -> "check" [] q.op = "read" -> "row" [] OTHER -> "query"
      OBVIOUS
    <3>3. rpc' = [rpc EXCEPT ![r] = step]
      BY <3>1, <3>2, Zenon
    <3> QED
      BY <2>2, <2>3, <3>1, <3>3 DEF Ask
  <2>4. CASE Check(r)
    <3>1. \E step : Goto(r, step)
      BY <2>4 DEF Check
    <3> QED
      BY <2>1, <2>2, <2>4, <3>1 DEF Check
  <2>5. CASE Row(r)
    <3>1. \E step : Goto(r, step)
      BY <2>5 DEF Row
    <3>2. \E i : id' = [id EXCEPT ![r] = i]
      <4>1. PICK f : f = file[ask[r].path]
        OBVIOUS
      <4>2. CASE f = NoFile
        BY <2>2, <2>5, <4>1, <4>2 DEF Row
      <4>3. CASE f # NoFile
        <5>1. PICK i : i = IF ask[r].op = "rel" THEN f.id ELSE f.content
          OBVIOUS
        <5> QED
          BY <2>5, <4>1, <4>3, <5>1 DEF Row
      <4> QED
        BY <4>2, <4>3
    <3>3. UNCHANGED <<ask, answer>>
      BY <2>5 DEF Row
    <3>4. ask' = [ask EXCEPT ![r] = ask[r]] /\ answer' = [answer EXCEPT ![r] = answer[r]]
      BY <2>2, <3>3
    <3>5. \E step : rpc' = [rpc EXCEPT ![r] = step]
      BY <2>1, <3>1
    <3> QED
      BY <3>2, <3>4, <3>5, Zenon
  <2>6. CASE Links(r)
    BY <2>2, <2>6 DEF Links, Goto
  <2>7. CASE Query(r)
    BY <2>2, <2>7 DEF Query, Goto
  <2>8. CASE ReadQuads(r)
    BY <2>2, <2>8 DEF ReadQuads, Goto
  <2>9. CASE Done(r)
    BY <2>2, <2>9 DEF Done, Goto
  <2> QED
    BY <2>3, <2>4, <2>5, <2>6, <2>7, <2>8, <2>9 DEF Read
<1>4. /\ rpc' = [x \in Readers |-> rpc'[x]] /\ ask' = [x \in Readers |-> ask'[x]]
      /\ id' = [x \in Readers |-> id'[x]] /\ answer' = [x \in Readers |-> answer'[x]]
      /\ \A x \in Readers \ {r} : Quiet(x)
  BY <1>3 DEF AnswersInv, Quiet
<1>5. \A x \in Readers \ {r} : Asking(x)'
  BY <1>2, <1>4, Kept DEF AnswersInv
<1>6. Asking(r)'
  BY AskStep, CheckStep, RowStep, LinksStep, QueryStep, QuadsStep, DoneStep DEF Read
<1> QED
  BY <1>4, <1>5, <1>6 DEF AnswersInv

LEMMA AnswersStep ==
  TablesInv /\ AnswersInv /\ [Next]_vars => AnswersInv'
<1> SUFFICES ASSUME TablesInv, AnswersInv, [Next]_vars PROVE AnswersInv'
  OBVIOUS
<1>1. CASE ((\E w \in Writers : Write(w)) \/ Chmod) /\ UNCHANGED <<rpc, ask, id, answer>> /\ Track
  <2>1. Moves
    BY <1>1, WriterMoves, StillMoves DEF Chmod, store, writers
  <2>2. acl' = acl
    BY <1>1 DEF Write, BeginWrite, BeginDelete, Start, InsertRows, Fail, Commit, Replace, Delete, Chmod, rights
  <2>3. \A r \in Readers : Quiet(r) /\ Asking(r)
    BY <1>1 DEF Quiet, AnswersInv
  <2> QED
    BY <1>1, <2>1, <2>2, <2>3, Kept DEF AnswersInv
<1>2. CASE UNCHANGED vars
  <2>1. UNCHANGED <<store, writers, rights, rpc, ask, id, answer, ever, always>>
    BY <1>2 DEF vars
  <2>2. ASSUME NEW r \in Readers PROVE Asking(r)'
    <3>1. PICK q : q = ask[r]
      OBVIOUS
    <3>2. Must(ask[r])' = Must(q) /\ May(ask[r])' = May(q)
      <4>1. Must(ask[r])' = Must(q)' /\ May(ask[r])' = May(q)'
        BY <2>1, <3>1 DEF Must, May, Truth
      <4> QED
        BY <2>1, <4>1, SameTruth DEF store, rights
    <3>3. Compared(r)' = Compared(r)
      BY <2>1 DEF Compared, AnyFile
    <3>4. Asking(r)
      BY DEF AnswersInv
    <3> QED
      BY <2>1, <3>1, <3>2, <3>3, <3>4 DEF Asking, Bounds, Progress, Follows, Mine, Gone, Excepted, Busy,
         NotIn, store, writers, rights
  <2> QED
    BY <2>1, <2>2 DEF AnswersInv
<1> QED
  BY <1>1, <1>2, ReaderStep DEF Next

LEMMA AnswersInit == Init => AnswersInv
BY DEF Init, AnswersInv, Asking

\* rdf.find(), rdf.literal(), rdf.read() and relationships(), of src/src/lib/ld.js: one
\* query after the other while others write, and an answer has nothing that the files did
\* not say at some moment of the call, and all that they said throughout.  Of linked data
\* that was replaced by another content it may have what the file said when it was
\* created, and lack what it says now (index.js:318); and literals asked for of no file
\* without permissions may be those of files that are gone.
THEOREM AnswersTrue == Spec => []AnswersFaithful
<1>1. TablesInv /\ AnswersInv => AnswersFaithful
  <2> SUFFICES ASSUME AnswersInv, NEW r \in Readers, rpc[r] = "done",
                      ~(ask[r].op = "literal" /\ ask[r].path = None /\ ~acl)
               PROVE  Compared(r) \subseteq ever[r] /\ always[r] \subseteq Compared(r)
    BY DEF AnswersFaithful
  <2> QED
    BY DEF AnswersInv, Asking, Progress, Excepted
<1> QED
  BY <1>1, TablesInit, TablesStep, AnswersInit, AnswersStep, PTL DEF Spec
-----------------------------------------------------------------------------
(* A rule reaches the files, whatever the processes knew of it before: the *)
(* invariant of the caches, the writes and the tools, and the proof of     *)
(* RuleReaches.                                                            *)

Right(p) == K!Made(rule, p) = NoKey \/ K!Made(rule, p) \in keys[p]

WriteCall == [path : KeyPaths, manual : Manual, same : BOOLEAN, version : Nat]
IsSetCall(c) ==
  c = [def |-> c.def, mode |-> c.mode, version |-> c.version, key |-> c.key] /\ c.version \in Nat

\* The versions go up, and nobody knows one that has not been.
Shapes ==
  /\ version \in Nat /\ keys = [p \in KeyPaths |-> keys[p]]
  /\ cache = [a \in K!Procs |-> cache[a]] /\ known \in [K!Procs -> Nat]
  /\ pc = [a \in K!Procs |-> pc[a]] /\ call = [a \in K!Procs |-> call[a]]
  /\ todo = [s \in Servers |-> todo[s]] /\ added = [s \in Servers |-> added[s]]
  /\ snap = [t \in Tools |-> snap[t]] /\ left = [t \in Tools |-> left[t]]
  /\ lost = [t \in Tools |-> lost[t]] /\ last = [p \in KeyPaths |-> last[p]]
  /\ there \subseteq KeyPaths
  /\ \A a \in K!Procs : known[a] <= version

\* A process that knows of the last change knows the rule.
Knows(s) == known[s] = version /\ cache[s] \notin {Unread, Broken} => cache[s] = rule

\* A write that knows it has the key of the rule in hand, or before it.
Planned(s, k) ==
  \/ todo[s] = << >> /\ k \in added[s]
  \/ \E a : todo[s] = <<a>> /\ a.key = k
  \/ \E a, b : todo[s] = <<a, b>> /\ b.key = k
Writing(s) ==
  /\ pc[s] \in {"idle", "rules", "unchanged", "clear", "keys", "wait"}
  /\ pc[s] # "idle" => call[s] \in WriteCall /\ call[s].version <= version
  /\ pc[s] \in {"clear", "keys", "wait"} /\ call[s].version = version =>
       K!Made(rule, call[s].path) = NoKey \/ Planned(s, K!Made(rule, call[s].path))

\* A file that has its keys from such a write or such a tool has that of the rule.
Keyed == \A p \in KeyPaths : last[p] = "current" => Right(p)

\* What a tool has gone over since it set the rule has been given its keys since.
SweptFiles(t) == (snap[t] \ (left[t] \cup lost[t])) \cap there
Setting(t) ==
  /\ pc[t] \in {"idle", "look", "upsert", "refresh", "open", "sweep", "wait", "swept"}
  /\ pc[t] # "idle" => IsSetCall(call[t])
  /\ pc[t] \in {"refresh", "open", "sweep", "wait", "swept"} => call[t].version <= version
  /\ pc[t] \in {"open", "sweep", "wait", "swept"} /\ call[t].version = version => cache[t] = rule
  /\ pc[t] \in {"sweep", "wait", "swept"} /\ call[t].version = version =>
       \A p \in SweptFiles(t) : last[p] # "nobody" \/ K!Made(rule, p) = NoKey
  /\ pc[t] = "swept" => left[t] = {}

KeysInv ==
  /\ Shapes /\ Keyed
  /\ \A s \in Servers : Knows(s) /\ Writing(s)
  /\ \A t \in Tools : Setting(t)

-----------------------------------------------------------------------------
(* What a step leaves alone.                                               *)

LEMMA KeysInit == K!Init => KeysInv
<1> SUFFICES ASSUME K!Init PROVE KeysInv
  OBVIOUS
<1>1. Shapes
  BY DEF K!Init, Shapes, K!Procs
<1>2. Keyed
  BY DEF K!Init, Keyed
<1>3. \A s \in Servers : Knows(s) /\ Writing(s)
  BY DEF K!Init, Knows, Writing, K!Procs
<1>4. \A t \in Tools : Setting(t)
  BY DEF K!Init, Setting, K!Procs
<1> QED
  BY <1>1, <1>2, <1>3, <1>4 DEF KeysInv

LEMMA ServerStays ==
  ASSUME NEW v \in Servers, Knows(v), Writing(v), rule' = rule, version' = version,
         cache'[v] = cache[v], known'[v] = known[v], pc'[v] = pc[v], call'[v] = call[v],
         todo'[v] = todo[v], added'[v] = added[v]
  PROVE  Knows(v)' /\ Writing(v)'
<1>1. Knows(v)'
  BY DEF Knows
<1>2. \A k : Planned(v, k)' <=> Planned(v, k)
  BY DEF Planned
<1>3. K!Made(rule, call[v].path)' = K!Made(rule, call[v].path)
  BY DEF K!Made
<1>4. Writing(v)'
  BY <1>2, <1>3 DEF Writing, Planned, K!Made
<1> QED
  BY <1>1, <1>4

LEMMA ToolStays ==
  ASSUME NEW t \in Tools, Setting(t), there' \subseteq KeyPaths, rule' = rule, version' = version,
         cache'[t] = cache[t], pc'[t] = pc[t], call'[t] = call[t],
         snap'[t] = snap[t], left'[t] = left[t], lost[t] \subseteq lost'[t],
         \A p \in there' : last'[p] = "nobody" => p \in there /\ last[p] = "nobody"
  PROVE  Setting(t)'
<1>1. ASSUME NEW p \in SweptFiles(t)', last'[p] = "nobody" PROVE p \in SweptFiles(t) /\ last[p] = "nobody"
  BY <1>1 DEF SweptFiles
<1>2. \A p : K!Made(rule, p)' = K!Made(rule, p)
  BY DEF K!Made
<1> QED
  BY <1>1, <1>2 DEF Setting, IsSetCall, K!Made

LEMMA KeyedStays ==
  ASSUME Keyed, rule' = rule,
         \A p \in KeyPaths : last'[p] = "current" => last[p] = "current" /\ keys'[p] = keys[p]
  PROVE  Keyed'
BY DEF Keyed, Right, K!Made

\* A server does something that is no commit.
LEMMA ServerStep ==
  ASSUME KeysInv, NEW s \in Servers, Shapes', Knows(s)', Writing(s)',
         UNCHANGED <<rule, version, there, keys, K!sweep, last>>,
         \A a \in K!Procs \ {s} :
           cache'[a] = cache[a] /\ known'[a] = known[a] /\ pc'[a] = pc[a] /\ call'[a] = call[a],
         \A v \in Servers \ {s} : todo'[v] = todo[v] /\ added'[v] = added[v]
  PROVE  KeysInv'
<1>1. Keyed'
  BY KeyedStays DEF KeysInv
<1>2. ASSUME NEW v \in Servers, v # s PROVE Knows(v)' /\ Writing(v)'
  BY <1>2, ServerStays DEF KeysInv, K!Procs
<1>3. ASSUME NEW t \in Tools PROVE Setting(t)'
  <2>1. t \in K!Procs \ {s}
    BY ProcessesAssumption DEF ProcessesAssumption, K!Procs
  <2> QED
    BY <2>1, ToolStays DEF KeysInv, Shapes, K!sweep
<1> QED
  BY <1>1, <1>2, <1>3 DEF KeysInv

\* A tool does something that changes no rule and no file.
LEMMA ToolStep ==
  ASSUME KeysInv, NEW t \in Tools, Shapes', Setting(t)',
         UNCHANGED <<rule, version, there, keys, todo, added, last>>,
         \A a \in K!Procs \ {t} :
           cache'[a] = cache[a] /\ known'[a] = known[a] /\ pc'[a] = pc[a] /\ call'[a] = call[a],
         \A u \in Tools \ {t} : snap'[u] = snap[u] /\ left'[u] = left[u] /\ lost'[u] = lost[u]
  PROVE  KeysInv'
<1>1. Keyed'
  BY KeyedStays DEF KeysInv
<1>2. ASSUME NEW v \in Servers PROVE Knows(v)' /\ Writing(v)'
  <2>1. v \in K!Procs \ {t}
    BY ProcessesAssumption DEF ProcessesAssumption, K!Procs
  <2> QED
    BY <2>1, ServerStays DEF KeysInv
<1>3. ASSUME NEW u \in Tools, u # t PROVE Setting(u)'
  BY <1>3, ToolStays DEF KeysInv, Shapes, K!Procs
<1> QED
  BY <1>1, <1>2, <1>3 DEF KeysInv

\* The rule changes: all that was known of it is of an earlier version.
LEMMA RuleStep ==
  ASSUME KeysInv, NEW t \in Tools, Shapes', Setting(t)', NEW d, K!RuleChanges(d),
         UNCHANGED <<there, K!caches, K!tx, K!sweep>>,
         \A a \in K!Procs \ {t} : pc'[a] = pc[a] /\ call'[a] = call[a]
  PROVE  KeysInv'
<1>1. version' = version + 1 /\ version \in Nat /\ last' = [p \in KeyPaths |-> "nobody"]
  BY DEF K!RuleChanges, KeysInv, Shapes
<1>2. Keyed'
  BY <1>1 DEF Keyed
<1>3. ASSUME NEW v \in Servers PROVE Knows(v)' /\ Writing(v)'
  <2>1. pc'[v] = pc[v] /\ call'[v] = call[v]
    BY ProcessesAssumption DEF ProcessesAssumption, K!Procs
  <2>2. Knows(v)'
    <3>1. known[v] \in Nat /\ known[v] <= version
      BY DEF KeysInv, Shapes, K!Procs
    <3> QED
      BY <3>1, <1>1 DEF Knows, K!caches
  <2>3. pc[v] # "idle" => call[v] \in WriteCall /\ call[v].version <= version /\ call[v].version \in Nat
    BY DEF KeysInv, Writing, WriteCall
  <2> QED
    BY <2>1, <2>2, <2>3, <1>1 DEF KeysInv, Writing
<1>4. ASSUME NEW u \in Tools, u # t PROVE Setting(u)'
  <2>1. pc'[u] = pc[u] /\ call'[u] = call[u] /\ left'[u] = left[u]
    BY <1>4 DEF K!Procs, K!sweep
  <2>2. Setting(u)
    BY DEF KeysInv
  <2>3. pc[u] # "idle" => call[u].version \in Nat
    BY <2>2 DEF Setting, IsSetCall
  <2> QED
    BY <2>1, <2>2, <2>3, <1>1 DEF Setting, IsSetCall
<1> QED
  BY <1>2, <1>3, <1>4 DEF KeysInv

-----------------------------------------------------------------------------
(* The steps of a server.                                                  *)

LEMMA Appended ==
  \A r : Append(<< >>, r) = <<r>> /\ \A a : Append(<<a>>, r) = <<a, r>>
<1> SUFFICES ASSUME NEW r, NEW a
             PROVE  Append(<< >>, r) = <<r>> /\ Append(<<a>>, r) = <<a, r>>
  OBVIOUS
<1>1. PICK S : S = {a, r}
  OBVIOUS
<1>2. << >> \in Seq(S) /\ <<a>> \in Seq(S) /\ r \in S /\ Len(<<a>>) = 1 /\ Len(<< >>) = 0
  BY <1>1
<1>3. ASSUME NEW t \in Seq(S), Len(t) = 1 PROVE t = <<t[1]>>
  BY <1>3
<1>4. ASSUME NEW t \in Seq(S), Len(t) = 2 PROVE t = <<t[1], t[2]>>
  BY <1>4
<1>5. PICK u, v : u = Append(<< >>, r) /\ v = Append(<<a>>, r)
  OBVIOUS
<1>6. u \in Seq(S) /\ Len(u) = 1 /\ u[1] = r
  BY <1>2, <1>5, AppendProperties
<1>7. v \in Seq(S) /\ Len(v) = 2 /\ v[1] = a /\ v[2] = r
  BY <1>2, <1>5, AppendProperties
<1> QED
  BY <1>3, <1>4, <1>5, <1>6, <1>7

LEMMA Ended ==
  ASSUME KeysInv, NEW s \in Servers, K!EndWrite(s),
         UNCHANGED <<rule, version, there, keys, K!sweep, last>>, Shapes', Knows(s)',
         \A a \in K!Procs \ {s} : cache'[a] = cache[a] /\ known'[a] = known[a]
  PROVE  KeysInv'
<1>1. /\ pc' = [pc EXCEPT ![s] = "idle"] /\ call' = [call EXCEPT ![s] = NoRule]
      /\ todo' = [todo EXCEPT ![s] = << >>] /\ added' = [added EXCEPT ![s] = {}]
  BY DEF K!EndWrite, K!Clear, K!Goto
<1>2. pc'[s] = "idle"
  BY <1>1 DEF KeysInv, Shapes, K!Procs
<1>3. Writing(s)'
  BY <1>2 DEF Writing
<1> QED
  BY <1>1, <1>3, ServerStep DEF KeysInv, Shapes, K!Procs

LEMMA EndedShapes ==
  ASSUME Shapes, NEW s \in Servers, K!EndWrite(s), UNCHANGED <<rule, version, there, keys, K!caches, K!sweep, last>>
  PROVE  Shapes'
BY DEF Shapes, K!EndWrite, K!Clear, K!Goto, K!Procs, K!caches, K!sweep

LEMMA ShowStep ==
  ASSUME KeysInv, NEW s \in Servers, K!Show(s) PROVE KeysInv'
<1>1. /\ cache' = [cache EXCEPT ![s] = IF rule \in Regex THEN Broken ELSE rule]
      /\ known' = [known EXCEPT ![s] = version]
      /\ UNCHANGED <<rule, version, owner, there, keys, pc, call, todo, made, added, removed, snap, left, lost, last>>
  BY DEF K!Show, K!tables, K!tx, K!sweep
<1>2. Shapes'
  <2>1. PICK c : cache' = [cache EXCEPT ![s] = c]
    BY <1>1, Zenon
  <2>2. cache' = [a \in K!Procs |-> cache'[a]]
    BY <2>1 DEF KeysInv, Shapes
  <2>3. known' \in [K!Procs -> Nat] /\ \A a \in K!Procs : known'[a] <= version
    BY <1>1 DEF KeysInv, Shapes, K!Procs
  <2> QED
    BY <2>2, <2>3, <1>1 DEF KeysInv, Shapes
<1>3. Knows(s)'
  BY <1>1 DEF KeysInv, Shapes, K!Procs, Knows
<1>4. Writing(s)'
  BY <1>1 DEF KeysInv, Writing, Planned, K!Made
<1> QED
  BY <1>1, <1>2, <1>3, <1>4, ServerStep DEF KeysInv, Shapes, K!Procs, K!sweep

LEMMA BeginWriteStep ==
  ASSUME KeysInv, NEW s \in Servers, K!BeginWrite(s) PROVE KeysInv'
<1>1. PICK q \in KeyPaths, m \in Manual, b \in BOOLEAN :
        /\ call' = [call EXCEPT ![s] = [path |-> q, manual |-> m, same |-> b, version |-> 0]]
        /\ pc' = [pc EXCEPT ![s] = "rules"]
  BY DEF K!BeginWrite, K!Begin, K!Goto
<1>2. UNCHANGED <<rule, version, owner, there, keys, cache, known, todo, made, added, removed, snap, left, lost, last>>
  BY DEF K!BeginWrite, K!tables, K!caches, K!tx, K!sweep
<1>3. Shapes'
  BY <1>1, <1>2 DEF KeysInv, Shapes, K!Procs
<1>4. Knows(s)'
  BY <1>2 DEF KeysInv, Knows
<1>5. call'[s] = [path |-> q, manual |-> m, same |-> b, version |-> 0] /\ pc'[s] = "rules"
  BY <1>1 DEF KeysInv, Shapes, K!Procs
<1>6. Writing(s)'
  <2>1. call'[s] \in WriteCall /\ call'[s].version <= version
    BY <1>5 DEF WriteCall, KeysInv, Shapes
  <2> QED
    BY <1>5, <2>1, <1>2 DEF Writing
<1> QED
  BY <1>1, <1>2, <1>3, <1>4, <1>6, ServerStep DEF KeysInv, Shapes, K!Procs, K!sweep

LEMMA RulesStep ==
  ASSUME KeysInv, NEW s \in Servers, K!Rules(s) PROVE KeysInv'
<1>1. /\ pc[s] = "rules" /\ K!IfUnread(s)
      /\ UNCHANGED <<rule, version, owner, there, keys, snap, left, lost, last>>
  BY DEF K!Rules, K!tables, K!sweep
<1>2. /\ \A a \in K!Procs \ {s} : cache'[a] = cache[a] /\ known'[a] = known[a]
      /\ cache' = [a \in K!Procs |-> cache'[a]] /\ known' \in [K!Procs -> Nat]
      /\ \A a \in K!Procs : known'[a] <= version
      /\ cache[s] = Unread => cache'[s] = rule /\ known'[s] = version
      /\ cache[s] # Unread => cache'[s] = cache[s] /\ known'[s] = known[s]
  <2>1. /\ version \in Nat /\ s \in K!Procs /\ cache = [a \in K!Procs |-> cache[a]]
        /\ known \in [K!Procs -> Nat] /\ \A a \in K!Procs : known[a] <= version
    BY DEF KeysInv, Shapes, K!Procs
  <2>2. CASE cache[s] = Unread
    <3>1. cache' = [cache EXCEPT ![s] = rule] /\ known' = [known EXCEPT ![s] = version]
      BY <2>2, <1>1 DEF K!IfUnread, K!ReadRule
    <3> QED
      BY <3>1, <2>1, <2>2
  <2>3. CASE cache[s] # Unread
    BY <2>1, <2>3, <1>1 DEF K!IfUnread, K!caches
  <2> QED
    BY <2>2, <2>3
<1>3. Knows(s)'
  BY <1>1, <1>2 DEF KeysInv, Knows
<1>4. CASE cache[s] = Broken
  <2>1. K!EndWrite(s)
    BY <1>4 DEF K!Rules
  <2>2. Shapes'
    BY <2>1, <1>1, <1>2 DEF KeysInv, Shapes, K!EndWrite, K!Clear, K!Goto, K!Procs
  <2> QED
    BY <2>1, <2>2, <1>1, <1>2, <1>3, Ended DEF K!sweep
<1>5. CASE cache[s] # Broken
  <2>1. PICK k, plan, step :
          /\ k = K!Made(cache'[s], call[s].path)
          /\ plan = IF call[s].manual = {} THEN << >>
                    ELSE <<[key |-> CHOOSE m \in call[s].manual : TRUE, ofRule |-> FALSE]>>
          /\ step \in {"unchanged", "clear"}
          /\ todo' = [todo EXCEPT ![s] =
               IF {k} \ {NoKey} = {} THEN plan ELSE Append(plan, [key |-> k, ofRule |-> TRUE])]
          /\ pc' = [pc EXCEPT ![s] = step]
          /\ call' = [call EXCEPT ![s].version = known'[s]]
          /\ UNCHANGED <<made, added, removed>>
    BY <1>5, Zenon DEF K!Rules, K!Goto
  <2>2. Shapes'
    BY <2>1, <1>1, <1>2 DEF KeysInv, Shapes, K!Procs
  <2>3. /\ pc'[s] = step
        /\ call'[s].version = known'[s] /\ call'[s].path = call[s].path
        /\ call'[s] \in WriteCall
    <3>1. call[s] \in WriteCall /\ known'[s] \in Nat
      BY <1>1, <1>2 DEF KeysInv, Writing, K!Procs
    <3>2. call'[s] = [call[s] EXCEPT !.version = known'[s]] /\ pc'[s] = step
      BY <2>1 DEF KeysInv, Shapes, K!Procs
    <3> QED
      BY <3>1, <3>2 DEF WriteCall
  <2>4. ASSUME known'[s] = version, K!Made(rule, call[s].path) # NoKey
        PROVE  Planned(s, K!Made(rule, call[s].path))'
    <3>1. cache'[s] = rule
      BY <2>4, <1>2, <1>5 DEF KeysInv, Knows
    <3>2. k = K!Made(rule, call[s].path) /\ k # NoKey
      BY <3>1, <2>1, <2>4
    <3>3. todo'[s] = Append(plan, [key |-> k, ofRule |-> TRUE])
      BY <3>2, <2>1 DEF KeysInv, Shapes
    <3>4. plan = << >> \/ \E a : plan = <<a>>
      BY <2>1
    <3>5. PICK r : r = [key |-> k, ofRule |-> TRUE]
      OBVIOUS
    <3>6. todo'[s] = <<r>> \/ \E a : todo'[s] = <<a, r>>
      BY <3>3, <3>4, <3>5, Appended
    <3>7. K!Made(rule, call[s].path)' = k
      BY <3>2, <2>3, <1>1 DEF K!Made
    <3>8. Planned(s, k)'
      BY <3>5, <3>6 DEF Planned
    <3> QED
      BY <3>7, <3>8 DEF Planned
  <2>5. Writing(s)'
    <3>1. K!Made(rule, call[s].path)' = K!Made(rule, call[s].path)
      BY <2>3, <1>1 DEF K!Made
    <3>2. known'[s] <= version'
      BY <1>1, <1>2 DEF K!Procs
    <3> QED
      BY <2>1, <2>3, <2>4, <3>1, <3>2, <1>1 DEF Writing
  <2> QED
    BY <2>1, <2>2, <2>5, <1>1, <1>2, <1>3, ServerStep DEF KeysInv, Shapes, K!Procs, K!sweep
<1> QED
  BY <1>4, <1>5

\* Steps that end the call, go on to the next one, or change nothing but the keys
\* a write is to remove.
LEMMA WaitingStep ==
  ASSUME KeysInv, NEW s \in Servers, K!Unchanged(s) \/ K!ClearKeys(s) \/ K!Wait(s) PROVE KeysInv'
<1>1. UNCHANGED <<rule, version, owner, there, keys, cache, known, snap, left, lost, last>>
  BY DEF K!Unchanged, K!ClearKeys, K!Wait, K!tables, K!caches, K!sweep
<1>2. CASE K!EndWrite(s)
  <2>1. Shapes'
    BY <1>1, <1>2, EndedShapes DEF KeysInv, K!caches, K!sweep
  <2>2. Knows(s)'
    BY <1>1 DEF KeysInv, Knows
  <2> QED
    BY <1>1, <1>2, <2>1, <2>2, Ended DEF K!sweep
<1>3. CASE ~K!EndWrite(s)
  <2>1. /\ pc[s] \in {"clear", "wait"} /\ pc' = [pc EXCEPT ![s] = "keys"]
        /\ UNCHANGED <<call, todo, added>>
    BY <1>3 DEF K!Unchanged, K!ClearKeys, K!Wait, K!Goto, K!tx
  <2>2. Shapes'
    BY <1>1, <2>1 DEF KeysInv, Shapes, K!Procs
  <2>3. Knows(s)'
    BY <1>1 DEF KeysInv, Knows
  <2>4. Writing(s)'
    <3>1. pc'[s] = "keys"
      BY <2>1 DEF KeysInv, Shapes, K!Procs
    <3> QED
      BY <1>1, <2>1, <3>1 DEF KeysInv, Writing, Planned, K!Made
  <2> QED
    BY <1>1, <2>1, <2>2, <2>3, <2>4, ServerStep DEF KeysInv, Shapes, K!Procs, K!sweep
<1> QED
  BY <1>2, <1>3

LEMMA AddKeyStep ==
  ASSUME KeysInv, NEW s \in Servers, K!AddKey(s) PROVE KeysInv'
<1>1. /\ pc[s] = "keys" /\ todo[s] # << >>
      /\ UNCHANGED <<rule, version, owner, there, keys, cache, known, snap, left, lost, last>>
  BY DEF K!AddKey, K!tables, K!caches, K!sweep
<1>2. Knows(s)'
  BY <1>1 DEF KeysInv, Knows
<1>3. CASE K!EndWrite(s)
  <2>1. Shapes'
    BY <1>1, <1>3, EndedShapes DEF KeysInv, K!caches, K!sweep
  <2> QED
    BY <1>1, <1>2, <1>3, <2>1, Ended DEF K!sweep
<1>4. CASE pc' = [pc EXCEPT ![s] = "wait"] /\ UNCHANGED <<call, K!tx>>
  <2>1. Shapes'
    BY <1>1, <1>4 DEF KeysInv, Shapes, K!Procs, K!tx
  <2>2. pc'[s] = "wait"
    BY <1>4 DEF KeysInv, Shapes, K!Procs
  <2>3. Writing(s)'
    BY <1>1, <1>4, <2>2 DEF KeysInv, Writing, Planned, K!Made, K!tx
  <2> QED
    BY <1>1, <1>2, <1>4, <2>1, <2>3, ServerStep DEF KeysInv, Shapes, K!Procs, K!sweep, K!tx
<1>5. CASE \E gone :
             /\ added' = [added EXCEPT ![s] = (@ \ gone) \cup {Head(todo[s]).key}]
             /\ todo' = [todo EXCEPT ![s] = Tail(@)] /\ UNCHANGED <<pc, call>>
  <2>1. PICK gone :
             /\ added' = [added EXCEPT ![s] = (@ \ gone) \cup {Head(todo[s]).key}]
             /\ todo' = [todo EXCEPT ![s] = Tail(@)] /\ UNCHANGED <<pc, call>>
    BY <1>5
  <2>2. Shapes'
    BY <1>1, <2>1 DEF KeysInv, Shapes, K!Procs
  <2>3. Head(todo[s]).key \in added'[s] /\ todo'[s] = Tail(todo[s])
    BY <2>1 DEF KeysInv, Shapes
  <2>4. ASSUME NEW k, Planned(s, k) PROVE Planned(s, k)'
    <3>1. CASE \E a : todo[s] = <<a>> /\ a.key = k
      BY <2>3, <3>1 DEF Planned
    <3>2. CASE \E a, b : todo[s] = <<a, b>> /\ b.key = k
      <4>1. PICK a, b : todo[s] = <<a, b>> /\ b.key = k
        BY <3>2
      <4>2. todo'[s] = <<b>>
        BY <2>3, <4>1
      <4> QED
        BY <4>1, <4>2 DEF Planned
    <3> QED
      BY <1>1, <2>4, <3>1, <3>2 DEF Planned
  <2>5. Writing(s)'
    <3>1. PICK k : k = K!Made(rule, call[s].path)
      OBVIOUS
    <3>2. K!Made(rule, call[s].path)' = k
      BY <1>1, <2>1, <3>1 DEF K!Made
    <3>3. call[s].version = version => k = NoKey \/ Planned(s, k)
      BY <1>1, <3>1 DEF KeysInv, Writing
    <3>4. call[s].version = version => k = NoKey \/ Planned(s, k)'
      BY <3>3, <2>4
    <3> QED
      BY <1>1, <2>1, <3>2, <3>4 DEF KeysInv, Writing, Planned
  <2> QED
    BY <1>1, <1>2, <2>1, <2>2, <2>5, ServerStep DEF KeysInv, Shapes, K!Procs, K!sweep
<1>6. \/ K!EndWrite(s)
      \/ pc' = [pc EXCEPT ![s] = "wait"] /\ UNCHANGED <<call, K!tx>>
      \/ /\ added' = [added EXCEPT ![s] = (@ \ K!OldKeys(s, Head(todo[s]).key, Head(todo[s]).ofRule,
                                                       (keys[call[s].path] \ removed[s]) \cup added[s]))
                                          \cup {Head(todo[s]).key}]
         /\ todo' = [todo EXCEPT ![s] = Tail(@)] /\ UNCHANGED <<pc, call>>
  BY Zenon DEF K!AddKey, K!Goto
<1> QED
  BY <1>3, <1>4, <1>5, <1>6

LEMMA KeysCommitStep ==
  ASSUME KeysInv, NEW s \in Servers, K!Commit(s) PROVE KeysInv'
<1>1. PICK p : p = call[s].path
  OBVIOUS
<1>2. /\ pc[s] = "keys" /\ todo[s] = << >> /\ there' = there \cup {p}
      /\ keys' = [keys EXCEPT ![p] = (@ \ removed[s]) \cup added[s]]
      /\ last' = [last EXCEPT ![p] = IF call[s].version = version THEN "current" ELSE "outdated"]
      /\ pc' = [pc EXCEPT ![s] = "idle"] /\ call' = [call EXCEPT ![s] = NoRule]
      /\ todo' = [todo EXCEPT ![s] = << >>] /\ added' = [added EXCEPT ![s] = {}]
      /\ UNCHANGED <<rule, version, cache, known, snap, left, lost>>
  BY <1>1 DEF K!Commit, K!EndWrite, K!Clear, K!Goto, K!caches, K!sweep
<1>3. p \in KeyPaths
  BY <1>1, <1>2 DEF KeysInv, Writing, WriteCall
<1>4. /\ last'[p] = IF call[s].version = version THEN "current" ELSE "outdated"
      /\ keys'[p] = (keys[p] \ removed[s]) \cup added[s]
      /\ \A q \in KeyPaths \ {p} : last'[q] = last[q] /\ keys'[q] = keys[q]
  BY <1>2, <1>3 DEF KeysInv, Shapes
<1>5. Shapes'
  <2>2. keys' = [q \in KeyPaths |-> keys'[q]]
    BY <1>2, <1>3 DEF KeysInv, Shapes
  <2>3. last' = [q \in KeyPaths |-> last'[q]]
    <3>1. PICK x : last' = [last EXCEPT ![p] = x]
      BY <1>2, Zenon
    <3> QED
      BY <3>1 DEF KeysInv, Shapes
  <2> QED
    BY <1>2, <1>3, <2>2, <2>3 DEF KeysInv, Shapes, K!Procs
<1>6. Keyed'
  <2>1. ASSUME call[s].version = version PROVE Right(p)'
    <3>1. K!Made(rule, p) = NoKey \/ K!Made(rule, p) \in added[s]
      <4>1. PICK k : k = K!Made(rule, p)
        OBVIOUS
      <4>2. k = NoKey \/ Planned(s, k)
        BY <1>1, <1>2, <2>1, <4>1 DEF KeysInv, Writing
      <4>3. \A a, b : << >> # <<a>> /\ << >> # <<a, b>>
        OBVIOUS
      <4>4. Planned(s, k) => k \in added[s]
        BY <1>2, <4>3, Zenon DEF Planned
      <4> QED
        BY <4>1, <4>2, <4>4
    <3> QED
      BY <1>2, <1>4, <3>1 DEF Right, K!Made
  <2>2. ASSUME NEW q \in KeyPaths \ {p}, last'[q] = "current" PROVE Right(q)'
    BY <1>2, <1>4, <2>2 DEF KeysInv, Keyed, Right, K!Made
  <2> QED
    BY <1>4, <2>1, <2>2 DEF Keyed
<1>7. Knows(s)' /\ Writing(s)'
  <2>1. pc'[s] = "idle"
    BY <1>2 DEF KeysInv, Shapes, K!Procs
  <2> QED
    BY <1>2, <2>1 DEF KeysInv, Knows, Writing
<1>8. ASSUME NEW v \in Servers, v # s PROVE Knows(v)' /\ Writing(v)'
  BY <1>2, <1>8, ServerStays DEF KeysInv, Shapes, K!Procs
<1>9. ASSUME NEW t \in Tools PROVE Setting(t)'
  <2>1. t # s /\ pc'[t] = pc[t] /\ call'[t] = call[t]
    BY <1>2, ProcessesAssumption DEF ProcessesAssumption, KeysInv, Shapes, K!Procs
  <2>2. \A q \in there' : last'[q] = "nobody" => q \in there /\ last[q] = "nobody"
    BY <1>2, <1>4, <1>5 DEF Shapes
  <2>3. there' \subseteq KeyPaths
    BY <1>5 DEF Shapes
  <2> QED
    BY <1>2, <2>1, <2>2, <2>3, ToolStays DEF KeysInv
<1> QED
  BY <1>5, <1>6, <1>7, <1>8, <1>9 DEF KeysInv

LEMMA DeleteFileStep ==
  ASSUME KeysInv, NEW p \in KeyPaths, K!DeleteFile(p) PROVE KeysInv'
<1>1. /\ there' = there \ {p} /\ keys' = [keys EXCEPT ![p] = {}]
      /\ lost' = [t \in Tools |-> lost[t] \cup ({p} \cap left[t])]
      /\ last' = [last EXCEPT ![p] = "nobody"]
      /\ UNCHANGED <<rule, version, cache, known, pc, call, todo, added, snap, left>>
  BY DEF K!DeleteFile, K!caches, K!tx
<1>2. Shapes'
  BY <1>1 DEF KeysInv, Shapes
<1>3. last'[p] = "nobody" /\ \A q \in KeyPaths \ {p} : last'[q] = last[q] /\ keys'[q] = keys[q]
  BY <1>1 DEF KeysInv, Shapes
<1>4. Keyed'
  BY <1>1, <1>3 DEF KeysInv, Keyed, Right, K!Made
<1>5. ASSUME NEW v \in Servers PROVE Knows(v)' /\ Writing(v)'
  BY <1>1, ServerStays DEF KeysInv
<1>6. ASSUME NEW t \in Tools PROVE Setting(t)'
  <2>1. /\ lost[t] \subseteq lost'[t] /\ there' \subseteq KeyPaths
        /\ \A q \in there' : last'[q] = "nobody" => q \in there /\ last[q] = "nobody"
    BY <1>1, <1>2, <1>3 DEF Shapes
  <2> QED
    BY <1>1, <2>1, ToolStays DEF KeysInv
<1> QED
  BY <1>2, <1>4, <1>5, <1>6 DEF KeysInv

-----------------------------------------------------------------------------
(* The steps of a tool.                                                    *)

LEMMA BeginSetStep ==
  ASSUME KeysInv, NEW t \in Tools, K!BeginSet(t) PROVE KeysInv'
<1>1. PICK c :
        /\ IsSetCall(c) /\ call' = [call EXCEPT ![t] = c] /\ pc' = [pc EXCEPT ![t] = "look"]
        /\ cache' = [cache EXCEPT ![t] = Unread] \/ UNCHANGED cache
        /\ UNCHANGED <<rule, version, there, keys, known, todo, added, snap, left, lost, last>>
  <2>1. PICK d \in Defs, m \in {"set", "load", "skip"} :
          K!Begin(t, [def |-> d, mode |-> m, version |-> 0, key |-> NoKey], "look")
    BY DEF K!BeginSet
  <2>2. IsSetCall([def |-> d, mode |-> m, version |-> 0, key |-> NoKey])
    BY DEF IsSetCall
  <2> QED
    BY <2>1, <2>2 DEF K!BeginSet, K!Begin, K!Goto, K!tables, K!tx, K!sweep
<1>2. Shapes'
  BY <1>1 DEF KeysInv, Shapes
<1>3. call'[t] = c /\ pc'[t] = "look"
  BY <1>1 DEF KeysInv, Shapes, K!Procs
<1>4. Setting(t)'
  BY <1>1, <1>3 DEF Setting, IsSetCall
<1> QED
  BY <1>1, <1>2, <1>4, ToolStep DEF KeysInv, Shapes, K!Procs

\* Steps that only go on to another step.
LEMMA OnlyGoes ==
  ASSUME KeysInv, NEW t \in Tools, NEW step, K!Goto(t, step), UNCHANGED <<K!tables, K!caches, call, K!tx, K!sweep, last>>,
         \/ step = "idle"
         \/ step = "upsert" /\ pc[t] # "idle"
         \/ step = "sweep" /\ pc[t] = "wait"
         \/ step = "swept" /\ pc[t] = "sweep" /\ left[t] = {}
  PROVE  KeysInv'
<1>1. /\ pc' = [pc EXCEPT ![t] = step]
      /\ UNCHANGED <<rule, version, there, keys, cache, known, call, todo, added, snap, left, lost, last>>
  BY DEF K!Goto, K!tables, K!caches, K!tx, K!sweep
<1>2. Shapes'
  BY <1>1 DEF KeysInv, Shapes
<1>3. pc'[t] = step
  BY <1>1 DEF KeysInv, Shapes, K!Procs
<1>4. Setting(t)'
  <2>1. SweptFiles(t)' = SweptFiles(t) /\ \A p : K!Made(rule, p)' = K!Made(rule, p)
    BY <1>1 DEF SweptFiles, K!Made
  <2>2. Setting(t)
    BY DEF KeysInv
  <2> QED
    BY <1>1, <1>3, <2>1, <2>2 DEF Setting, IsSetCall, SweptFiles, K!Made
<1> QED
  BY <1>1, <1>2, <1>4, ToolStep DEF KeysInv, Shapes, K!Procs

LEMMA UpsertStep ==
  ASSUME KeysInv, NEW t \in Tools, K!Upsert(t) PROVE KeysInv'
<1>1. /\ pc[t] = "upsert" /\ K!RuleChanges(call[t].def) /\ pc' = [pc EXCEPT ![t] = "refresh"]
      /\ call' = [call EXCEPT ![t].version = version', ![t].mode = "set"]
      /\ UNCHANGED <<there, keys, K!caches, K!tx, K!sweep>>
  BY DEF K!Upsert, K!Goto
<1>2. version' = version + 1 /\ last' = [p \in KeyPaths |-> "nobody"] /\ version \in Nat
  BY <1>1 DEF K!RuleChanges, KeysInv, Shapes
<1>3. Shapes'
  <2>1. \A a \in K!Procs : known[a] \in Nat /\ known[a] <= version + 1
    BY <1>2 DEF KeysInv, Shapes
  <2>2. PICK c : call' = [call EXCEPT ![t] = c]
    BY <1>1
  <2>3. call' = [a \in K!Procs |-> call'[a]]
    BY <2>2 DEF KeysInv, Shapes
  <2>4. version' \in Nat /\ \A a \in K!Procs : known'[a] <= version'
    BY <1>1, <1>2, <2>1 DEF K!caches
  <2>5. pc' = [a \in K!Procs |-> pc'[a]] /\ last' = [p \in KeyPaths |-> last'[p]]
    BY <1>1, <1>2 DEF KeysInv, Shapes
  <2> QED
    BY <1>1, <2>3, <2>4, <2>5 DEF KeysInv, Shapes, K!caches, K!tx, K!sweep
<1>4. pc'[t] = "refresh" /\ IsSetCall(call'[t]) /\ call'[t].version = version'
  <2>1. call'[t] = [call[t] EXCEPT !.version = version', !.mode = "set"] /\ pc'[t] = "refresh"
    BY <1>1 DEF KeysInv, Shapes, K!Procs
  <2>2. PICK d, m, v, k : call[t] = [def |-> d, mode |-> m, version |-> v, key |-> k]
    BY <1>1, ZenonT(30) DEF KeysInv, Setting, IsSetCall
  <2> QED
    <3>1. call'[t] = [def |-> d, mode |-> "set", version |-> version', key |-> k] /\ version' \in Nat
      <4>1. PICK n : n = version'
        OBVIOUS
      <4>2. PICK c : c = [call[t] EXCEPT !.version = n]
        OBVIOUS
      <4>3. c = [def |-> d, mode |-> m, version |-> n, key |-> k]
        BY <2>2, <4>2
      <4>4. [c EXCEPT !.mode = "set"] = [def |-> d, mode |-> "set", version |-> n, key |-> k]
        BY <4>3
      <4>5. call'[t] = [c EXCEPT !.mode = "set"]
        BY <2>1, <4>1, <4>2
      <4> QED
        BY <4>1, <4>4, <4>5, <1>2
    <3> QED
      BY <3>1, <2>1 DEF IsSetCall
<1>5. Setting(t)'
  BY <1>2, <1>4 DEF Setting, IsSetCall
<1> QED
  BY <1>1, <1>3, <1>5, RuleStep DEF KeysInv, Shapes

LEMMA RemoveStep ==
  ASSUME KeysInv, NEW t \in Tools, K!Remove(t) PROVE KeysInv'
<1>1. /\ pc[t] \in {"idle", "swept"} /\ K!RuleChanges(NoRule)
      /\ keys' = [p \in KeyPaths |-> keys[p] \ K!OfRule]
      /\ UNCHANGED <<there, K!caches, pc, call, K!tx, K!sweep>>
  BY DEF K!Remove
<1>2. version' = version + 1 /\ last' = [p \in KeyPaths |-> "nobody"] /\ version \in Nat
  BY <1>1 DEF K!RuleChanges, KeysInv, Shapes
<1>3. Shapes'
  <2>1. \A a \in K!Procs : known[a] \in Nat /\ known[a] <= version + 1
    BY <1>2 DEF KeysInv, Shapes
  <2> QED
    BY <1>1, <1>2, <2>1 DEF KeysInv, Shapes, K!caches, K!tx, K!sweep
<1>4. Setting(t)'
  <2>1. pc[t] # "idle" => IsSetCall(call[t]) /\ call[t].version \in Nat /\ call[t].version <= version
    BY <1>1 DEF KeysInv, Setting, IsSetCall
  <2>2. pc[t] = "swept" => left[t] = {}
    BY DEF KeysInv, Setting
  <2> QED
    BY <1>1, <1>2, <2>1, <2>2 DEF Setting, IsSetCall, K!sweep
<1> QED
  BY <1>1, <1>3, <1>4, RuleStep

LEMMA RefreshStep ==
  ASSUME KeysInv, NEW t \in Tools, K!Refresh(t) PROVE KeysInv'
<1>1. /\ pc[t] = "refresh" /\ pc' = [pc EXCEPT ![t] = "open"]
      /\ cache' = [cache EXCEPT ![t] = rule] /\ known' = [known EXCEPT ![t] = version]
      /\ UNCHANGED <<rule, version, there, keys, call, todo, added, snap, left, lost, last>>
  BY DEF K!Refresh, K!Reread, K!ReadRule, K!Goto, K!tables, K!tx, K!sweep
<1>2. Shapes'
  <2>1. cache' = [a \in K!Procs |-> cache'[a]] /\ pc' = [a \in K!Procs |-> pc'[a]]
    BY <1>1 DEF KeysInv, Shapes
  <2>2. known' \in [K!Procs -> Nat] /\ \A a \in K!Procs : known'[a] <= version
    <3>1. known \in [K!Procs -> Nat] /\ version \in Nat /\ \A a \in K!Procs : known[a] <= version
      BY DEF KeysInv, Shapes
    <3>2. PICK n, f : n = version /\ f = known
      OBVIOUS
    <3>3. PICK g : g = [f EXCEPT ![t] = n]
      OBVIOUS
    <3>4. g \in [K!Procs -> Nat] /\ \A a \in K!Procs : g[a] <= n
      <4>1. f \in [K!Procs -> Nat] /\ n \in Nat /\ (\A a \in K!Procs : f[a] <= n) /\ n <= n
        BY <3>1, <3>2
      <4>2. g \in [K!Procs -> Nat]
        BY <4>1, <3>3
      <4>3. \A a \in K!Procs : g[a] = n \/ g[a] = f[a]
        BY <4>1, <3>3
      <4> QED
        BY <4>1, <4>2, <4>3
    <3> QED
      BY <1>1, <3>2, <3>3, <3>4
  <2> QED
    BY <1>1, <2>1, <2>2 DEF KeysInv, Shapes
<1>3. pc'[t] = "open" /\ cache'[t] = rule
  BY <1>1 DEF KeysInv, Shapes, K!Procs
<1>4. Setting(t)'
  BY <1>1, <1>3 DEF KeysInv, Setting, IsSetCall
<1> QED
  BY <1>1, <1>2, <1>4, ToolStep DEF KeysInv, Shapes, K!Procs

LEMMA OpenCursorStep ==
  ASSUME KeysInv, NEW t \in Tools, K!OpenCursor(t) PROVE KeysInv'
<1>1. /\ pc[t] = "open" /\ pc' = [pc EXCEPT ![t] = "sweep"]
      /\ snap' = [snap EXCEPT ![t] = there] /\ left' = [left EXCEPT ![t] = there]
      /\ lost' = [lost EXCEPT ![t] = {}]
      /\ UNCHANGED <<rule, version, there, keys, cache, known, call, todo, added, last>>
  BY DEF K!OpenCursor, K!Goto, K!tables, K!caches, K!tx
<1>2. Shapes'
  BY <1>1 DEF KeysInv, Shapes
<1>3. pc'[t] = "sweep" /\ snap'[t] = there /\ left'[t] = there
  BY <1>1 DEF KeysInv, Shapes, K!Procs
<1>4. Setting(t)'
  <2>1. SweptFiles(t)' = {}
    BY <1>3 DEF SweptFiles
  <2> QED
    BY <1>1, <1>3, <2>1 DEF KeysInv, Setting, IsSetCall
<1> QED
  BY <1>1, <1>2, <1>4, ToolStep DEF KeysInv, Shapes, K!Procs

LEMMA SweepBlockedStep ==
  ASSUME KeysInv, NEW t \in Tools, K!SweepBlocked(t) PROVE KeysInv'
<1>1. PICK k :
        /\ pc[t] = "sweep" /\ pc' = [pc EXCEPT ![t] = "wait"] /\ call' = [call EXCEPT ![t].key = k]
        /\ UNCHANGED <<rule, version, there, keys, cache, known, todo, added, snap, left, lost, last>>
  BY DEF K!SweepBlocked, K!Goto, K!tables, K!caches, K!tx, K!sweep
<1>2. Shapes'
  BY <1>1 DEF KeysInv, Shapes
<1>3. pc'[t] = "wait" /\ call'[t].version = call[t].version /\ IsSetCall(call'[t])
  <2>1. call'[t] = [call[t] EXCEPT !.key = k] /\ pc'[t] = "wait"
    BY <1>1 DEF KeysInv, Shapes, K!Procs
  <2>2. call[t].version \in Nat /\ IsSetCall(call[t])
    BY <1>1 DEF KeysInv, Setting, IsSetCall
  <2>3. PICK d, m, v, l : call[t] = [def |-> d, mode |-> m, version |-> v, key |-> l]
    BY <2>2 DEF IsSetCall
  <2> QED
    BY <2>1, <2>2, <2>3 DEF IsSetCall
<1>4. Setting(t)'
  <2>1. SweptFiles(t)' = SweptFiles(t) /\ \A p : K!Made(rule, p)' = K!Made(rule, p)
    BY <1>1 DEF SweptFiles, K!Made
  <2> QED
    BY <1>1, <1>3, <2>1 DEF KeysInv, Setting, IsSetCall, SweptFiles, K!Made
<1> QED
  BY <1>1, <1>2, <1>4, ToolStep DEF KeysInv, Shapes, K!Procs

LEMMA SweepFileStep ==
  ASSUME KeysInv, NEW t \in Tools, K!SweepFile(t) PROVE KeysInv'
<1>1. PICK p, k :
        /\ p \in left[t] /\ pc[t] = "sweep" /\ k = K!Made(cache[t], p) /\ left' = [left EXCEPT ![t] = @ \ {p}]
        /\ IF k = NoKey THEN UNCHANGED <<keys, last>>
           ELSE /\ keys' = [keys EXCEPT ![p] = (@ \ K!OldKeys(t, k, TRUE, @)) \cup {k}]
                /\ last' = [last EXCEPT ![p] = IF call[t].version = version THEN "current" ELSE "outdated"]
        /\ UNCHANGED <<rule, version, there, cache, known, pc, call, todo, added, snap, lost>>
  BY DEF K!SweepFile, K!caches, K!tx
<1>2. keys' = [q \in KeyPaths |-> keys'[q]] /\ last' = [q \in KeyPaths |-> last'[q]]
  <2>1. CASE k = NoKey
    BY <1>1, <2>1 DEF KeysInv, Shapes
  <2>2. CASE k # NoKey
    <3>1. PICK x, y : keys' = [keys EXCEPT ![p] = x] /\ last' = [last EXCEPT ![p] = y]
      BY <1>1, <2>2, Zenon
    <3> QED
      BY <3>1 DEF KeysInv, Shapes
  <2> QED
    BY <2>1, <2>2
<1>3. Shapes'
  BY <1>1, <1>2 DEF KeysInv, Shapes
<1>4. /\ \A q \in KeyPaths \ {p} : last'[q] = last[q] /\ keys'[q] = keys[q]
      /\ k = NoKey => last' = last /\ keys' = keys
      /\ k # NoKey /\ p \in KeyPaths =>
           /\ k \in keys'[p]
           /\ last'[p] = IF call[t].version = version THEN "current" ELSE "outdated"
  <2>1. CASE k = NoKey
    BY <1>1, <2>1
  <2>2. CASE k # NoKey
    <3>1. PICK x, y :
            /\ keys' = [keys EXCEPT ![p] = x \cup {k}] /\ last' = [last EXCEPT ![p] = y]
            /\ y = IF call[t].version = version THEN "current" ELSE "outdated"
      BY <1>1, <2>2, Zenon
    <3>2. keys = [q \in KeyPaths |-> keys[q]] /\ last = [q \in KeyPaths |-> last[q]]
      BY DEF KeysInv, Shapes
    <3> QED
      BY <2>2, <3>1, <3>2
  <2> QED
    BY <2>1, <2>2
<1>5. call[t].version = version => k = K!Made(rule, p)
  BY <1>1 DEF KeysInv, Setting
<1>6. Keyed'
  <2> SUFFICES ASSUME NEW q \in KeyPaths, last'[q] = "current" PROVE Right(q)'
    BY DEF Keyed
  <2>1. CASE q = p /\ k # NoKey
    BY <2>1, <1>1, <1>4, <1>5 DEF Right, K!Made
  <2>2. CASE q # p \/ k = NoKey
    BY <2>2, <1>1, <1>4 DEF KeysInv, Keyed, Right, K!Made
  <2> QED
    BY <2>1, <2>2
<1>7. ASSUME NEW v \in Servers PROVE Knows(v)' /\ Writing(v)'
  BY <1>1, ServerStays DEF KeysInv
<1>8. \A q \in there : last'[q] = "nobody" => last[q] = "nobody"
  BY <1>4 DEF KeysInv, Shapes
<1>9. ASSUME NEW u \in Tools, u # t PROVE Setting(u)'
  <2>1. left'[u] = left[u] /\ there' \subseteq KeyPaths
    BY <1>1, <1>9 DEF KeysInv, Shapes
  <2> QED
    BY <1>1, <1>8, <2>1, ToolStays DEF KeysInv
<1>10. Setting(t)'
  <2>1. left'[t] = left[t] \ {p}
    BY <1>1 DEF KeysInv, Shapes
  <2>2. SweptFiles(t)' \subseteq SweptFiles(t) \cup ({p} \cap KeyPaths)
    BY <1>1, <2>1 DEF SweptFiles, KeysInv, Shapes
  <2>3. call[t].version = version =>
          \A q \in SweptFiles(t)' : last'[q] # "nobody" \/ K!Made(rule, q)' = NoKey
    <3> SUFFICES ASSUME call[t].version = version, NEW q \in SweptFiles(t)', last'[q] = "nobody"
                 PROVE  K!Made(rule, q)' = NoKey
      OBVIOUS
    <3>1. CASE q = p
      BY <3>1, <2>2, <1>1, <1>4, <1>5 DEF K!Made, SweptFiles, KeysInv, Shapes
    <3>2. CASE q # p
      <4>1. q \in SweptFiles(t) /\ last[q] = "nobody"
        BY <3>2, <2>2, <1>1, <1>8 DEF SweptFiles
      <4> QED
        BY <4>1, <1>1 DEF KeysInv, Setting, K!Made
    <3> QED
      BY <3>1, <3>2
  <2>4. Setting(t)
    BY DEF KeysInv
  <2> QED
    BY <1>1, <2>3, <2>4 DEF Setting, IsSetCall, K!Made
<1> QED
  BY <1>3, <1>6, <1>7, <1>9, <1>10 DEF KeysInv

-----------------------------------------------------------------------------
(* The theorems.                                                           *)

\* The invariant of src/src/lib/auto-path/utils.js and partition.js, whatever rules
\* there are and however many processes: a write that knows the rule as it is has the
\* key it makes in hand until it commits; set() gives a key of the rule as it is to
\* every file it has gone over; nothing takes that away without the rule changing.
THEOREM KeysInvariant == K!Spec => []KeysInv
<1>1. KeysInv /\ [K!Next]_(K!vars) => KeysInv'
  <2> SUFFICES ASSUME KeysInv, [K!Next]_(K!vars) PROVE KeysInv'
    OBVIOUS
  <2>1. ASSUME NEW s \in Servers,
               \/ K!Show(s) \/ K!BeginWrite(s) \/ K!Rules(s) \/ K!Unchanged(s) \/ K!ClearKeys(s)
               \/ K!AddKey(s) \/ K!Wait(s) \/ K!Commit(s)
        PROVE  KeysInv'
    BY <2>1, ShowStep, BeginWriteStep, RulesStep, WaitingStep, AddKeyStep, KeysCommitStep
  <2>2. ASSUME NEW p \in KeyPaths, K!DeleteFile(p) PROVE KeysInv'
    BY <2>2, DeleteFileStep
  <2>3. ASSUME NEW t \in Tools, K!Look(t) \/ K!SweepWait(t) \/ K!Swept(t) \/ K!Crash(t) PROVE KeysInv'
    <3>1. PICK step \in {"idle", "upsert", "sweep", "swept"} :
            /\ K!Goto(t, step) /\ UNCHANGED <<K!tables, K!caches, call, K!tx, K!sweep, last>>
            /\ \/ step = "idle"
               \/ step = "upsert" /\ pc[t] = "look"
               \/ step = "sweep" /\ pc[t] = "wait"
               \/ step = "swept" /\ pc[t] = "sweep" /\ left[t] = {}
      <4>1. CASE K!Look(t)
        BY <4>1, Zenon DEF K!Look
      <4>2. CASE K!SweepWait(t)
        BY <4>2, Zenon DEF K!SweepWait
      <4>3. CASE K!Swept(t)
        BY <4>3 DEF K!Swept
      <4>4. CASE K!Crash(t)
        BY <4>4 DEF K!Crash
      <4> QED
        BY <2>3, <4>1, <4>2, <4>3, <4>4
    <3> QED
      BY <3>1, OnlyGoes
  <2>4. ASSUME NEW t \in Tools,
               \/ K!BeginSet(t) \/ K!Upsert(t) \/ K!Refresh(t) \/ K!OpenCursor(t) \/ K!SweepFile(t)
               \/ K!SweepBlocked(t) \/ K!Remove(t)
        PROVE  KeysInv'
    BY <2>4, BeginSetStep, UpsertStep, RefreshStep, OpenCursorStep, SweepFileStep, SweepBlockedStep,
       RemoveStep
  <2>5. CASE UNCHANGED K!vars
    <3>1. UNCHANGED <<rule, version, there, keys, cache, known, pc, call, todo, added, snap, left, lost, last>>
      BY <2>5 DEF K!vars, K!tables, K!caches, K!tx, K!sweep
    <3>2. Shapes' /\ Keyed'
      BY <3>1 DEF KeysInv, Shapes, Keyed, Right, K!Made
    <3>3. \A s \in Servers : Knows(s)' /\ Writing(s)'
      BY <3>1, ServerStays DEF KeysInv
    <3>4. \A t \in Tools : Setting(t)'
      BY <3>1, ToolStays DEF KeysInv, Shapes
    <3> QED
      BY <3>2, <3>3, <3>4 DEF KeysInv
  <2> QED
    BY <2>1, <2>2, <2>3, <2>4, <2>5 DEF K!Next
<1> QED
  BY <1>1, KeysInit, PTL DEF K!Spec

\* partition.js:24, index.js:577: whatever servers and tools there are, and whenever
\* each of them read the rule: a file whose keys come from a process that knew the
\* rule as it is, or that set() has gone over since, has the key of the rule.
THEOREM RuleHolds == K!Spec => []RuleReaches
<1>1. KeysInv => RuleReaches
  <2> SUFFICES ASSUME KeysInv, NEW p \in there, Made(rule, p) # NoKey,
                      \/ last[p] = "current"
                      \/ /\ last[p] = "nobody"
                         /\ \E t \in Tools : /\ pc[t] = "swept" /\ call[t].version = version
                                             /\ p \in snap[t] \ lost[t]
               PROVE  Made(rule, p) \in keys[p]
    BY DEF RuleReaches
  <2>1. CASE last[p] = "current"
    BY <2>1 DEF KeysInv, Keyed, Right, Shapes, Made, K!Made
  <2>2. CASE last[p] # "current"
    <3>1. PICK t \in Tools : /\ pc[t] = "swept" /\ call[t].version = version
                             /\ p \in snap[t] \ lost[t]
      BY <2>2
    <3>2. p \in SweptFiles(t)
      BY <3>1 DEF SweptFiles, KeysInv, Setting
    <3> QED
      BY <2>2, <3>1, <3>2 DEF KeysInv, Setting, Right, Made, K!Made
  <2> QED
    BY <2>1, <2>2
<1> QED
  BY <1>1, KeysInvariant, PTL

-----------------------------------------------------------------------------
(* The types of both.                                                      *)

\* The types of the rules, of the tables and of what a process knows of them.
KeyTables ==
  /\ rule \in K!Rules0 /\ version \in 0 .. MaxRules /\ owner \in [Keys -> {"rule", "none", "absent"}]
  /\ there \subseteq KeyPaths /\ keys \in [KeyPaths -> SUBSET Keys]
  /\ \A p \in KeyPaths, k \in Keys : k \in keys[p] => p \in there /\ owner[k] # "absent"
  /\ last \in [KeyPaths -> {"nobody", "current", "outdated"}] /\ calls \in 0 .. MaxCalls
Caches ==
  /\ cache \in [K!Procs -> K!Rules0 \cup {Unread, Broken}] /\ known \in [K!Procs -> 0 .. MaxRules]

\* A key that a write adds has a row, of its own transaction if of no other.
WriteKeys(s) ==
  /\ todo[s] \in Seq([key : Keys, ofRule : BOOLEAN]) /\ added[s] \subseteq Keys
  /\ \A k \in added[s] : K!Holds(s, k) \/ owner[k] # "absent"

\* What the cursor of a tool has left is there or known to be lost, and a tool that has
\* read the rules has read one that can make keys.
Sweeping(t) ==
  /\ left[t] \subseteq snap[t] /\ lost[t] \subseteq snap[t] /\ left[t] \ lost[t] \subseteq there
  /\ pc[t] # "idle" => call[t].def \in Defs
  /\ pc[t] \in {"open", "sweep", "wait", "swept"} => cache[t] \in K!Rules0
KeyTypesInv ==
  /\ KeyTables /\ Caches /\ made = [s \in Servers |-> made[s]]
  /\ \A s \in Servers : WriteKeys(s)
  /\ \A t \in Tools : Sweeping(t)

RowOwners == {"rule", "none", "absent"}
AddedRow == [key : Keys, ofRule : BOOLEAN]

LEMMA KeyTypesInit == K!Init => KeyTypesInv
<1> SUFFICES ASSUME K!Init PROVE KeyTypesInv
  OBVIOUS
<1>1. MaxRules \in Nat /\ MaxCalls \in Nat
  BY KeysAssumption DEF KeysAssumption
<1>2. KeyTables
  BY <1>1 DEF K!Init, KeyTables, K!Rules0
<1>3. Caches
  BY <1>1 DEF K!Init, Caches
<1>4. \A s \in Servers : WriteKeys(s)
  BY DEF K!Init, WriteKeys
<1>5. \A t \in Tools : Sweeping(t)
  BY DEF K!Init, Sweeping, K!Procs
<1> QED
  BY <1>2, <1>3, <1>4, <1>5 DEF K!Init, KeyTypesInv

\* What a step leaves alone: no row of a key goes, nor a file that is not known to be lost.
LEMMA WriteKeysStay ==
  ASSUME NEW s \in Servers, WriteKeys(s), todo'[s] = todo[s], added'[s] = added[s], made'[s] = made[s],
         \A k \in added[s] : owner[k] # "absent" => owner'[k] # "absent"
  PROVE  WriteKeys(s)'
BY DEF WriteKeys, K!Holds

LEMMA SweepingStays ==
  ASSUME NEW t \in Tools, Sweeping(t), UNCHANGED <<snap, left, lost>>, there \subseteq there',
         pc'[t] = pc[t], call'[t] = call[t], cache'[t] = cache[t]
  PROVE  Sweeping(t)'
BY DEF Sweeping

LEMMA TablesKeep == ASSUME KeyTables, UNCHANGED <<rule, version, owner, there, keys, last, calls>> PROVE KeyTables'
BY DEF KeyTables, K!Rules0

LEMMA CachesKeep == ASSUME Caches, UNCHANGED <<cache, known>> PROVE Caches'
BY DEF Caches, K!Rules0, K!Procs

\* A server does something within a call, or ends one.
LEMMA ServerTyped ==
  ASSUME KeysInv, KeyTypesInv, NEW s \in Servers, KeyTables', Caches', WriteKeys(s)',
         NEW td, NEW ad, NEW md,
         todo' = [todo EXCEPT ![s] = td], added' = [added EXCEPT ![s] = ad], made' = [made EXCEPT ![s] = md],
         UNCHANGED <<snap, left, lost>>, there \subseteq there',
         \A k \in Keys : owner[k] # "absent" => owner'[k] # "absent",
         \A t \in Tools : pc'[t] = pc[t] /\ call'[t] = call[t] /\ cache'[t] = cache[t]
  PROVE  KeyTypesInv'
<1>1. made' = [v \in Servers |-> made'[v]]
  BY DEF KeyTypesInv
<1>2. \A v \in Servers \ {s} : todo'[v] = todo[v] /\ added'[v] = added[v] /\ made'[v] = made[v]
  BY DEF KeysInv, Shapes, KeyTypesInv
<1>3. \A v \in Servers \ {s} : WriteKeys(v)'
  BY <1>2, WriteKeysStay DEF KeyTypesInv, WriteKeys
<1>4. \A t \in Tools : Sweeping(t)'
  BY SweepingStays DEF KeyTypesInv
<1> QED
  BY <1>1, <1>3, <1>4 DEF KeyTypesInv

\* A tool does something that is no change of the keys.
LEMMA ToolTyped ==
  ASSUME KeysInv, KeyTypesInv, NEW t \in Tools, KeyTables', Caches', Sweeping(t)',
         UNCHANGED <<todo, added, made>>, there \subseteq there',
         \A k \in Keys : owner[k] # "absent" => owner'[k] # "absent",
         \A u \in Tools \ {t} :
           /\ pc'[u] = pc[u] /\ call'[u] = call[u] /\ cache'[u] = cache[u]
           /\ snap'[u] = snap[u] /\ left'[u] = left[u] /\ lost'[u] = lost[u]
  PROVE  KeyTypesInv'
<1>1. \A v \in Servers : WriteKeys(v)'
  BY WriteKeysStay DEF KeyTypesInv, WriteKeys
<1>2. \A u \in Tools \ {t} : Sweeping(u)'
  BY DEF KeyTypesInv, Sweeping
<1> QED
  BY <1>1, <1>2 DEF KeyTypesInv

LEMMA Typed0 ==
  ASSUME KeysInv, KeyTypesInv
  PROVE  /\ MaxRules \in Nat /\ MaxCalls \in Nat /\ version \in Nat
         /\ \A c \in K!Rules0, p \in KeyPaths : K!Made(c, p) \in Keys \cup {NoKey}
         /\ \A s \in Servers : s \in K!Procs /\ s \notin Tools
         /\ \A t \in Tools : t \in K!Procs /\ t \notin Servers
         /\ pc = [a \in K!Procs |-> pc[a]] /\ call = [a \in K!Procs |-> call[a]]
         /\ cache = [a \in K!Procs |-> cache[a]]
         /\ todo = [s \in Servers |-> todo[s]] /\ added = [s \in Servers |-> added[s]]
         /\ made = [s \in Servers |-> made[s]]
BY KeysAssumption, ProcessesAssumption
   DEF KeysAssumption, ProcessesAssumption, KeysInv, Shapes, KeyTypesInv, K!Made, K!Rules0, K!Procs

\* A write that ends without a change has nothing to add.
LEMMA EndTyped ==
  ASSUME KeysInv, KeyTypesInv, NEW s \in Servers, K!EndWrite(s), KeyTables', Caches',
         UNCHANGED <<snap, left, lost>>, there \subseteq there',
         \A k \in Keys : owner[k] # "absent" => owner'[k] # "absent",
         \A t \in Tools : cache'[t] = cache[t]
  PROVE  KeyTypesInv'
<1>1. /\ pc' = [pc EXCEPT ![s] = "idle"] /\ call' = [call EXCEPT ![s] = NoRule]
      /\ todo' = [todo EXCEPT ![s] = << >>] /\ added' = [added EXCEPT ![s] = {}]
      /\ made' = [made EXCEPT ![s] = {}]
  BY DEF K!EndWrite, K!Clear, K!Goto
<1>2. todo'[s] = << >> /\ added'[s] = {}
  BY <1>1, Typed0
<1>3. WriteKeys(s)'
  BY <1>2 DEF WriteKeys
<1>4. \A t \in Tools : pc'[t] = pc[t] /\ call'[t] = call[t]
  BY <1>1, Typed0
<1> QED
  BY <1>1, <1>3, <1>4, ServerTyped

LEMMA ShowTyped ==
  ASSUME KeysInv, KeyTypesInv, NEW s \in Servers, K!Show(s) PROVE KeyTypesInv'
<1>1. PICK c : c = IF rule \in Regex THEN Broken ELSE rule
  OBVIOUS
<1>2. /\ cache' = [cache EXCEPT ![s] = c] /\ known' = [known EXCEPT ![s] = version]
      /\ calls < MaxCalls /\ calls' = calls + 1
      /\ UNCHANGED <<rule, version, owner, there, keys, pc, call, todo, made, added, snap, left, lost, last>>
  BY <1>1, Zenon DEF K!Show, K!tables, K!tx, K!sweep
<1>3. c \in K!Rules0 \cup {Unread, Broken} /\ version \in 0 .. MaxRules
  BY <1>1 DEF KeyTypesInv, KeyTables
<1>4. Caches'
  BY <1>2, <1>3, Typed0 DEF KeyTypesInv, Caches, K!Rules0, K!Procs
<1>5. KeyTables'
  BY <1>2, Typed0 DEF KeyTypesInv, KeyTables, K!Rules0
<1>6. \A t \in Tools : cache'[t] = cache[t]
  BY <1>2, Typed0
<1>7. \A v \in Servers : WriteKeys(v)'
  BY <1>2, WriteKeysStay DEF KeyTypesInv
<1>8. \A t \in Tools : Sweeping(t)'
  BY <1>2, <1>6, SweepingStays DEF KeyTypesInv
<1> QED
  BY <1>2, <1>4, <1>5, <1>7, <1>8 DEF KeyTypesInv

LEMMA BeginWriteTyped ==
  ASSUME KeysInv, KeyTypesInv, NEW s \in Servers, K!BeginWrite(s) PROVE KeyTypesInv'
<1>1. PICK c : /\ call' = [call EXCEPT ![s] = c] /\ pc' = [pc EXCEPT ![s] = "rules"]
               /\ calls < MaxCalls /\ calls' = calls + 1
  BY DEF K!BeginWrite, K!Begin, K!Goto
<1>2. UNCHANGED <<rule, version, owner, there, keys, cache, known, todo, made, added, snap, left, lost, last>>
  BY DEF K!BeginWrite, K!tables, K!caches, K!tx, K!sweep
<1>3. KeyTables' /\ Caches'
  BY <1>1, <1>2, Typed0, CachesKeep DEF KeyTypesInv, KeyTables, K!Rules0
<1>4. \A t \in Tools : pc'[t] = pc[t] /\ call'[t] = call[t]
  BY <1>1, Typed0
<1>5. \A v \in Servers : WriteKeys(v)'
  BY <1>2, WriteKeysStay DEF KeyTypesInv
<1>6. \A t \in Tools : Sweeping(t)'
  BY <1>2, <1>4, SweepingStays DEF KeyTypesInv
<1> QED
  BY <1>2, <1>3, <1>5, <1>6 DEF KeyTypesInv

LEMMA RulesTyped ==
  ASSUME KeysInv, KeyTypesInv, NEW s \in Servers, K!Rules(s) PROVE KeyTypesInv'
<1>1. /\ pc[s] = "rules" /\ K!IfUnread(s)
      /\ UNCHANGED <<rule, version, owner, there, keys, snap, left, lost, last, calls>>
  BY DEF K!Rules, K!tables, K!sweep
<1>2. KeyTables'
  BY <1>1, TablesKeep DEF KeyTypesInv
<1>3. /\ Caches' /\ \A t \in Tools : cache'[t] = cache[t]
      /\ cache[s] # Broken => cache'[s] \in K!Rules0
  <2>1. CASE cache[s] = Unread
    <3>1. cache' = [cache EXCEPT ![s] = rule] /\ known' = [known EXCEPT ![s] = version]
      BY <1>1, <2>1 DEF K!IfUnread, K!ReadRule
    <3>2. rule \in K!Rules0 /\ version \in 0 .. MaxRules
      BY DEF KeyTypesInv, KeyTables
    <3>3. Caches'
      BY <3>1, <3>2 DEF KeyTypesInv, Caches, K!Rules0, K!Procs
    <3> QED
      BY <3>1, <3>2, <3>3, Typed0
  <2>2. CASE cache[s] # Unread
    <3>1. UNCHANGED <<cache, known>>
      BY <1>1, <2>2 DEF K!IfUnread, K!caches
    <3> QED
      BY <3>1, <2>2, CachesKeep, Typed0 DEF KeyTypesInv, Caches
  <2> QED
    BY <2>1, <2>2
<1>4. CASE cache[s] = Broken
  <2>1. K!EndWrite(s)
    BY <1>4 DEF K!Rules
  <2> QED
    BY <1>1, <1>2, <1>3, <2>1, EndTyped
<1>5. CASE cache[s] # Broken
  <2>1. PICK p : p = call[s].path
    OBVIOUS
  <2>2. PICK manual : manual = call[s].manual
    OBVIOUS
  <2>3. p \in KeyPaths /\ manual \subseteq Keys
    BY <1>1, <2>1, <2>2, KeysAssumption DEF KeysInv, Writing, WriteCall, KeysAssumption
  <2>4. PICK k : k = K!Made(cache'[s], p)
    OBVIOUS
  <2>5. k \in Keys \cup {NoKey}
    BY <1>3, <1>5, <2>3, <2>4, Typed0
  <2>6. PICK plan :
          plan = IF manual = {} THEN << >> ELSE <<[key |-> CHOOSE m \in manual : TRUE, ofRule |-> FALSE]>>
    OBVIOUS
  <2>7. plan \in Seq(AddedRow)
    <3>1. CASE manual = {}
      BY <3>1, <2>6
    <3>2. CASE manual # {}
      <4>1. PICK m : m = CHOOSE x \in manual : TRUE
        OBVIOUS
      <4>2. m \in Keys
        BY <3>2, <4>1, <2>3
      <4>3. plan = <<[key |-> m, ofRule |-> FALSE]>>
        BY <3>2, <4>1, <2>6
      <4>4. [key |-> m, ofRule |-> FALSE] \in AddedRow
        BY <4>2 DEF AddedRow
      <4> QED
        BY <4>3, <4>4
    <3> QED
      BY <3>1, <3>2
  <2>8. PICK all : all = IF {k} \ {NoKey} = {} THEN plan ELSE Append(plan, [key |-> k, ofRule |-> TRUE])
    OBVIOUS
  <2>9. all \in Seq(AddedRow)
    <3>1. CASE k = NoKey
      BY <3>1, <2>7, <2>8
    <3>2. CASE k # NoKey
      <4>1. [key |-> k, ofRule |-> TRUE] \in AddedRow
        BY <3>2, <2>5 DEF AddedRow
      <4>2. all = Append(plan, [key |-> k, ofRule |-> TRUE])
        BY <3>2, <2>8
      <4> QED
        BY <4>1, <4>2, <2>7
    <3> QED
      BY <3>1, <3>2
  <2>10. /\ todo' = [todo EXCEPT ![s] = all] /\ UNCHANGED <<made, added>>
         /\ \E step : K!Goto(s, step)
         /\ call' = [call EXCEPT ![s].version = known'[s]]
    <3>1. todo' = [todo EXCEPT ![s] = all]
      BY <1>5, <2>1, <2>2, <2>4, <2>6, <2>8 DEF K!Rules
    <3>2. UNCHANGED <<made, added>> /\ call' = [call EXCEPT ![s].version = known'[s]]
      BY <1>5 DEF K!Rules
    <3>3. \E step : K!Goto(s, step)
      BY <1>5 DEF K!Rules
    <3> QED
      BY <3>1, <3>2, <3>3
  <2>11. \A t \in Tools : pc'[t] = pc[t] /\ call'[t] = call[t]
    BY <2>10, Typed0 DEF K!Goto
  <2>12. todo'[s] = all /\ added' = [added EXCEPT ![s] = added[s]] /\ made' = [made EXCEPT ![s] = made[s]]
    BY <2>10, Typed0
  <2>13. WriteKeys(s)'
    BY <1>1, <2>9, <2>10, <2>12 DEF KeyTypesInv, WriteKeys, AddedRow, K!Holds
  <2>14. PICK ad, md : ad = added[s] /\ md = made[s]
    OBVIOUS
  <2>15. added' = [added EXCEPT ![s] = ad] /\ made' = [made EXCEPT ![s] = md]
    BY <2>12, <2>14
  <2> QED
    BY <1>1, <1>2, <1>3, <2>10, <2>11, <2>13, <2>15, ServerTyped
<1> QED
  BY <1>4, <1>5

LEMMA WaitingTyped ==
  ASSUME KeysInv, KeyTypesInv, NEW s \in Servers, K!Unchanged(s) \/ K!ClearKeys(s) \/ K!Wait(s)
  PROVE  KeyTypesInv'
<1>1. UNCHANGED <<rule, version, owner, there, keys, cache, known, snap, left, lost, last, calls>>
  BY DEF K!Unchanged, K!ClearKeys, K!Wait, K!tables, K!caches, K!sweep
<1>2. KeyTables' /\ Caches'
  BY <1>1, TablesKeep, CachesKeep DEF KeyTypesInv
<1>3. CASE K!EndWrite(s)
  BY <1>1, <1>2, <1>3, EndTyped
<1>4. CASE (\E step : K!Goto(s, step)) /\ UNCHANGED <<call, todo, made, added>>
  <2>1. \A t \in Tools : pc'[t] = pc[t] /\ call'[t] = call[t] /\ cache'[t] = cache[t]
    BY <1>1, <1>4, Typed0 DEF K!Goto
  <2>2. \A v \in Servers : WriteKeys(v)'
    BY <1>1, <1>4, WriteKeysStay DEF KeyTypesInv
  <2>3. \A t \in Tools : Sweeping(t)'
    BY <1>1, <2>1, SweepingStays DEF KeyTypesInv
  <2> QED
    BY <1>2, <1>4, <2>2, <2>3 DEF KeyTypesInv
<1>5. CASE K!Wait(s)
  <2>1. K!EndWrite(s) \/ (K!Goto(s, "keys") /\ UNCHANGED <<call, K!tx>>)
    BY <1>5 DEF K!Wait
  <2> QED
    BY <2>1, <1>3, <1>4 DEF K!tx
<1> QED
  BY <1>3, <1>4, <1>5 DEF K!Unchanged, K!ClearKeys

LEMMA AddKeyTyped ==
  ASSUME KeysInv, KeyTypesInv, NEW s \in Servers, K!AddKey(s) PROVE KeyTypesInv'
<1>1. PICK k : k = Head(todo[s]).key
  OBVIOUS
<1>2. PICK ofRule : ofRule = Head(todo[s]).ofRule
  OBVIOUS
<1>3. /\ todo[s] # << >>
      /\ UNCHANGED <<rule, version, owner, there, keys, cache, known, snap, left, lost, last, calls>>
  BY DEF K!AddKey, K!tables, K!caches, K!sweep
<1>4. KeyTables' /\ Caches'
  BY <1>3, TablesKeep, CachesKeep DEF KeyTypesInv
<1>5. todo[s] \in Seq(AddedRow) /\ k \in Keys /\ Tail(todo[s]) \in Seq(AddedRow)
  <2>1. todo[s] \in Seq(AddedRow)
    BY DEF KeyTypesInv, WriteKeys, AddedRow
  <2>2. Head(todo[s]) \in AddedRow /\ Tail(todo[s]) \in Seq(AddedRow)
    BY <2>1, <1>3
  <2> QED
    BY <2>1, <2>2, <1>1 DEF AddedRow
<1>6. CASE K!Raises(s, k, ofRule)
  BY <1>1, <1>2, <1>3, <1>4, <1>6, EndTyped DEF K!AddKey
<1>7. CASE ~K!Raises(s, k, ofRule) /\ K!MustWait(s, k)
  <2>1. K!Goto(s, "wait") /\ UNCHANGED <<call, todo, made, added>>
    BY <1>1, <1>2, <1>7 DEF K!AddKey, K!tx
  <2>2. \A t \in Tools : pc'[t] = pc[t] /\ call'[t] = call[t] /\ cache'[t] = cache[t]
    BY <1>3, <2>1, Typed0 DEF K!Goto
  <2>3. \A v \in Servers : WriteKeys(v)'
    BY <1>3, <2>1, WriteKeysStay DEF KeyTypesInv
  <2>4. \A t \in Tools : Sweeping(t)'
    BY <1>3, <2>2, SweepingStays DEF KeyTypesInv
  <2> QED
    BY <1>4, <2>1, <2>3, <2>4 DEF KeyTypesInv
<1>8. CASE ~K!Raises(s, k, ofRule) /\ ~K!MustWait(s, k)
  <2>1. PICK old : old = K!OldKeys(s, k, ofRule, (keys[call[s].path] \ removed[s]) \cup added[s])
    OBVIOUS
  <2>2. PICK md : md = IF K!OwnerSeen(s, k) = "absent"
                       THEN made[s] \cup {<<k, K!NewOwner(ofRule)>>} ELSE made[s]
    OBVIOUS
  <2>3. PICK ad : ad = (added[s] \ old) \cup {k}
    OBVIOUS
  <2>4. PICK td : td = Tail(todo[s])
    OBVIOUS
  <2>5. /\ made' = [made EXCEPT ![s] = md] /\ added' = [added EXCEPT ![s] = ad]
        /\ todo' = [todo EXCEPT ![s] = td] /\ UNCHANGED <<pc, call>>
    <3>1. made' = [made EXCEPT ![s] = md]
      <4>1. made' = [made EXCEPT ![s] = IF K!OwnerSeen(s, k) = "absent"
                                        THEN made[s] \cup {<<k, K!NewOwner(ofRule)>>} ELSE made[s]]
        BY <1>1, <1>2, <1>8 DEF K!AddKey
      <4> QED
        BY <4>1, <2>2, Zenon
    <3>2. added' = [added EXCEPT ![s] = ad]
      BY <1>1, <1>2, <1>8, <2>1, <2>3 DEF K!AddKey
    <3>3. todo' = [todo EXCEPT ![s] = td] /\ UNCHANGED <<pc, call>>
      BY <1>1, <1>2, <1>8, <2>4 DEF K!AddKey
    <3> QED
      BY <3>1, <3>2, <3>3
  <2>6. made'[s] = md /\ added'[s] = ad /\ todo'[s] = td
    BY <2>5, Typed0
  <2>7. ASSUME NEW x \in ad PROVE x \in Keys /\ ((\E o \in {"rule", "none"} : <<x, o>> \in md) \/ owner[x] # "absent")
    <3>1. made[s] \subseteq md
      BY <2>2
    <3>2. CASE x \in added[s]
      BY <3>1, <3>2 DEF KeyTypesInv, WriteKeys, K!Holds
    <3>3. CASE x = k
      <4>1. CASE K!OwnerSeen(s, k) = "absent"
        <5>1. <<k, K!NewOwner(ofRule)>> \in md
          BY <2>2, <4>1
        <5>2. K!NewOwner(ofRule) \in {"rule", "none"}
          BY DEF K!NewOwner
        <5> QED
          BY <3>3, <5>1, <5>2, <1>5
      <4>2. CASE K!OwnerSeen(s, k) # "absent"
        BY <3>1, <3>3, <4>2, <1>5 DEF K!OwnerSeen
      <4> QED
        BY <4>1, <4>2
    <3> QED
      BY <3>2, <3>3, <2>3
  <2>8. WriteKeys(s)'
    BY <1>3, <1>5, <2>4, <2>6, <2>7 DEF WriteKeys, AddedRow, K!Holds
  <2> QED
    BY <1>3, <1>4, <2>5, <2>8, ServerTyped
<1> QED
  BY <1>6, <1>7, <1>8

LEMMA CommitTyped ==
  ASSUME KeysInv, KeyTypesInv, NEW s \in Servers, K!Commit(s) PROVE KeyTypesInv'
<1>1. PICK p : p = call[s].path
  OBVIOUS
<1>2. PICK l : l = IF call[s].version = version THEN "current" ELSE "outdated"
  OBVIOUS
<1>3. /\ pc[s] = "keys" /\ there' = there \cup {p} /\ K!EndWrite(s)
      /\ keys' = [keys EXCEPT ![p] = (keys[p] \ removed[s]) \cup added[s]]
      /\ owner' = [k \in Keys |-> IF K!Holds(s, k) THEN K!OwnerSeen(s, k) ELSE owner[k]]
      /\ UNCHANGED <<rule, version, cache, known, snap, left, lost, calls>>
  BY <1>1 DEF K!Commit, K!caches, K!sweep
<1>4. last' = [last EXCEPT ![p] = l]
  BY <1>1, <1>2 DEF K!Commit
<1>5. p \in KeyPaths
  BY <1>1, <1>3 DEF KeysInv, Writing, WriteCall
<1>6. ASSUME NEW k \in Keys
      PROVE  /\ owner'[k] \in RowOwners
             /\ owner[k] # "absent" => owner'[k] # "absent"
             /\ K!Holds(s, k) => owner'[k] # "absent"
  <2>1. owner'[k] = IF K!Holds(s, k) THEN K!OwnerSeen(s, k) ELSE owner[k]
    BY <1>3
  <2>2. owner[k] \in RowOwners
    BY DEF KeyTypesInv, KeyTables, RowOwners
  <2>3. K!Holds(s, k) => K!OwnerSeen(s, k) \in {"rule", "none"}
    BY DEF K!Holds, K!OwnerSeen
  <2> QED
    BY <2>1, <2>2, <2>3 DEF RowOwners
<1>7. \A k \in added[s] : k \in Keys /\ owner'[k] # "absent"
  BY <1>6 DEF KeyTypesInv, WriteKeys
<1>8. KeyTables'
  <2>1. owner' \in [Keys -> {"rule", "none", "absent"}]
    BY <1>3, <1>6 DEF RowOwners
  <2>2. PICK ks : ks = (keys[p] \ removed[s]) \cup added[s]
    OBVIOUS
  <2>3. ks \subseteq Keys
    BY <1>5, <1>7, <2>2 DEF KeyTypesInv, KeyTables
  <2>4. /\ keys' \in [KeyPaths -> SUBSET Keys] /\ keys'[p] = ks
        /\ \A x \in KeyPaths \ {p} : keys'[x] = keys[x]
    BY <1>3, <1>5, <2>2, <2>3 DEF KeyTypesInv, KeyTables
  <2>5. ASSUME NEW x \in KeyPaths, NEW k \in Keys, k \in keys'[x]
        PROVE  x \in there' /\ owner'[k] # "absent"
    <3>1. CASE x # p
      BY <3>1, <2>4, <2>5, <1>3, <1>6 DEF KeyTypesInv, KeyTables
    <3>2. CASE x = p /\ k \in added[s]
      BY <3>2, <1>3, <1>7
    <3>3. CASE x = p /\ k \in keys[p]
      BY <3>3, <1>3, <1>5, <1>6 DEF KeyTypesInv, KeyTables
    <3> QED
      BY <3>1, <3>2, <3>3, <2>2, <2>4, <2>5
  <2>6. last' \in [KeyPaths -> {"nobody", "current", "outdated"}]
    <3>1. l \in {"nobody", "current", "outdated"}
      BY <1>2
    <3> QED
      BY <1>4, <1>5, <3>1 DEF KeyTypesInv, KeyTables
  <2>7. there' \subseteq KeyPaths
    BY <1>3, <1>5 DEF KeyTypesInv, KeyTables
  <2> QED
    BY <1>3, <2>1, <2>4, <2>5, <2>6, <2>7 DEF KeyTypesInv, KeyTables, K!Rules0
<1>9. Caches'
  BY <1>3, CachesKeep DEF KeyTypesInv
<1> QED
  BY <1>3, <1>6, <1>8, <1>9, EndTyped

LEMMA DeleteFileTyped ==
  ASSUME KeysInv, KeyTypesInv, NEW p \in KeyPaths, K!DeleteFile(p) PROVE KeyTypesInv'
<1>1. /\ there' = there \ {p} /\ keys' = [keys EXCEPT ![p] = {}]
      /\ lost' = [t \in Tools |-> lost[t] \cup ({p} \cap left[t])]
      /\ last' = [last EXCEPT ![p] = "nobody"] /\ calls < MaxCalls /\ calls' = calls + 1
      /\ UNCHANGED <<rule, version, owner, cache, known, pc, call, todo, made, added, snap, left>>
  BY DEF K!DeleteFile, K!caches, K!tx
<1>2. KeyTables'
  <2>1. /\ keys' \in [KeyPaths -> SUBSET Keys] /\ keys'[p] = {}
        /\ \A x \in KeyPaths \ {p} : keys'[x] = keys[x]
    BY <1>1 DEF KeyTypesInv, KeyTables
  <2>2. \A x \in KeyPaths, k \in Keys : k \in keys'[x] => x \in there' /\ owner'[k] # "absent"
    BY <1>1, <2>1 DEF KeyTypesInv, KeyTables
  <2>3. calls' \in 0 .. MaxCalls
    BY <1>1, Typed0 DEF KeyTypesInv, KeyTables
  <2> QED
    BY <1>1, <2>1, <2>2, <2>3 DEF KeyTypesInv, KeyTables, K!Rules0
<1>3. Caches' /\ \A v \in Servers : WriteKeys(v)'
  BY <1>1, CachesKeep, WriteKeysStay DEF KeyTypesInv
<1>4. \A t \in Tools : Sweeping(t)'
  BY <1>1 DEF KeyTypesInv, Sweeping
<1> QED
  BY <1>1, <1>2, <1>3, <1>4 DEF KeyTypesInv

LEMMA BeginSetTyped ==
  ASSUME KeysInv, KeyTypesInv, NEW t \in Tools, K!BeginSet(t) PROVE KeyTypesInv'
<1>1. PICK d, m : d \in Defs /\
        /\ call' = [call EXCEPT ![t] = [def |-> d, mode |-> m, version |-> 0, key |-> NoKey]]
        /\ pc' = [pc EXCEPT ![t] = "look"] /\ calls < MaxCalls /\ calls' = calls + 1
  BY DEF K!BeginSet, K!Begin, K!Goto
<1>2. /\ cache' = [cache EXCEPT ![t] = Unread] \/ cache' = cache
      /\ UNCHANGED <<rule, version, owner, there, keys, known, todo, made, added, snap, left, lost, last>>
  BY DEF K!BeginSet, K!tables, K!tx, K!sweep
<1>3. KeyTables'
  BY <1>1, <1>2, Typed0 DEF KeyTypesInv, KeyTables, K!Rules0
<1>4. Caches'
  BY <1>2 DEF KeyTypesInv, Caches
<1>5. pc'[t] = "look" /\ call'[t].def = d
  BY <1>1, Typed0
<1>6. Sweeping(t)'
  BY <1>1, <1>2, <1>5 DEF KeyTypesInv, Sweeping
<1>7. \A u \in Tools \ {t} :
        /\ pc'[u] = pc[u] /\ call'[u] = call[u] /\ cache'[u] = cache[u]
        /\ snap'[u] = snap[u] /\ left'[u] = left[u] /\ lost'[u] = lost[u]
  BY <1>1, <1>2, Typed0
<1> QED
  BY <1>2, <1>3, <1>4, <1>6, <1>7, ToolTyped

LEMMA GoesTyped ==
  ASSUME KeysInv, KeyTypesInv, NEW t \in Tools, NEW step \in {"idle", "upsert", "sweep", "swept"},
         K!Goto(t, step), UNCHANGED <<K!tables, K!caches, call, K!tx, K!sweep, last, calls>>,
         pc[t] # "idle", step \in {"sweep", "swept"} => pc[t] \in {"sweep", "wait"}
  PROVE  KeyTypesInv'
<1>1. /\ pc' = [pc EXCEPT ![t] = step]
      /\ UNCHANGED <<rule, version, owner, there, keys, cache, known, call, todo, made, added,
                     snap, left, lost, last, calls>>
  BY DEF K!Goto, K!tables, K!caches, K!tx, K!sweep
<1>2. KeyTables' /\ Caches'
  BY <1>1, TablesKeep, CachesKeep DEF KeyTypesInv
<1>3. pc'[t] = step
  BY <1>1, Typed0
<1>4. Sweeping(t)'
  BY <1>1, <1>3 DEF KeyTypesInv, Sweeping
<1>5. \A u \in Tools \ {t} : pc'[u] = pc[u]
  BY <1>1, Typed0
<1> QED
  BY <1>1, <1>2, <1>4, <1>5, ToolTyped

LEMMA UpsertTyped ==
  ASSUME KeysInv, KeyTypesInv, NEW t \in Tools, K!Upsert(t) PROVE KeyTypesInv'
<1>1. /\ pc[t] = "upsert" /\ version < MaxRules /\ rule' = call[t].def /\ version' = version + 1
      /\ last' = [p \in KeyPaths |-> "nobody"] /\ pc' = [pc EXCEPT ![t] = "refresh"]
      /\ call' = [call EXCEPT ![t].version = version', ![t].mode = "set"]
      /\ UNCHANGED <<owner, there, keys, cache, known, todo, made, added, snap, left, lost, calls>>
  BY DEF K!Upsert, K!RuleChanges, K!Goto, K!caches, K!tx, K!sweep
<1>2. call[t].def \in Defs
  BY <1>1 DEF KeyTypesInv, Sweeping
<1>3. KeyTables'
  BY <1>1, <1>2, Typed0 DEF KeyTypesInv, KeyTables, K!Rules0
<1>4. Caches'
  BY <1>1, CachesKeep DEF KeyTypesInv
<1>5. pc'[t] = "refresh" /\ call'[t].def = call[t].def
  <2>1. IsSetCall(call[t])
    BY <1>1 DEF KeysInv, Setting
  <2> QED
    BY <1>1, <2>1, Typed0 DEF IsSetCall
<1>6. Sweeping(t)'
  BY <1>1, <1>2, <1>5 DEF KeyTypesInv, Sweeping
<1>7. \A u \in Tools \ {t} : pc'[u] = pc[u] /\ call'[u] = call[u]
  BY <1>1, Typed0
<1> QED
  BY <1>1, <1>3, <1>4, <1>6, <1>7, ToolTyped

LEMMA RefreshTyped ==
  ASSUME KeysInv, KeyTypesInv, NEW t \in Tools, K!Refresh(t) PROVE KeyTypesInv'
<1>1. /\ pc[t] = "refresh" /\ cache' = [cache EXCEPT ![t] = rule] /\ known' = [known EXCEPT ![t] = version]
      /\ pc' = [pc EXCEPT ![t] = "open"]
      /\ UNCHANGED <<rule, version, owner, there, keys, call, todo, made, added, snap, left, lost, last, calls>>
  BY DEF K!Refresh, K!Reread, K!ReadRule, K!Goto, K!tables, K!tx, K!sweep
<1>2. rule \in K!Rules0 /\ version \in 0 .. MaxRules
  BY DEF KeyTypesInv, KeyTables
<1>3. KeyTables'
  BY <1>1, TablesKeep DEF KeyTypesInv
<1>4. Caches'
  BY <1>1, <1>2 DEF KeyTypesInv, Caches, K!Rules0, K!Procs
<1>5. pc'[t] = "open" /\ cache'[t] = rule
  BY <1>1, Typed0
<1>6. Sweeping(t)'
  BY <1>1, <1>2, <1>5 DEF KeyTypesInv, Sweeping, K!Rules0
<1>7. \A u \in Tools \ {t} : pc'[u] = pc[u] /\ cache'[u] = cache[u]
  BY <1>1, Typed0
<1> QED
  BY <1>1, <1>3, <1>4, <1>6, <1>7, ToolTyped

LEMMA OpenCursorTyped ==
  ASSUME KeysInv, KeyTypesInv, NEW t \in Tools, K!OpenCursor(t) PROVE KeyTypesInv'
<1>1. /\ pc[t] = "open" /\ snap' = [snap EXCEPT ![t] = there] /\ left' = [left EXCEPT ![t] = there]
      /\ lost' = [lost EXCEPT ![t] = {}] /\ pc' = [pc EXCEPT ![t] = "sweep"]
      /\ UNCHANGED <<rule, version, owner, there, keys, cache, known, call, todo, made, added, last, calls>>
  BY DEF K!OpenCursor, K!Goto, K!tables, K!caches, K!tx
<1>2. KeyTables' /\ Caches'
  BY <1>1, TablesKeep, CachesKeep DEF KeyTypesInv
<1>3. /\ pc'[t] = "sweep" /\ snap'[t] = there /\ left'[t] = there /\ lost'[t] = {}
      /\ \A u \in Tools \ {t} :
           pc'[u] = pc[u] /\ snap'[u] = snap[u] /\ left'[u] = left[u] /\ lost'[u] = lost[u]
  BY <1>1, Typed0 DEF KeysInv, Shapes
<1>4. Sweeping(t)'
  BY <1>1, <1>3 DEF KeyTypesInv, Sweeping, K!Rules0
<1> QED
  BY <1>1, <1>2, <1>3, <1>4, ToolTyped

LEMMA SweepFileTyped ==
  ASSUME KeysInv, KeyTypesInv, NEW t \in Tools, K!SweepFile(t) PROVE KeyTypesInv'
<1>1. /\ pc[t] = "sweep"
      /\ UNCHANGED <<rule, version, there, cache, known, pc, call, todo, made, added, snap, lost, calls>>
  BY DEF K!SweepFile, K!caches, K!tx
<1>2. PICK p \in left[t] :
        LET k == K!Made(cache[t], p) IN
        /\ ~K!SweepFails(t, p, k) /\ left' = [left EXCEPT ![t] = @ \ {p}]
        /\ IF k = NoKey THEN UNCHANGED <<owner, keys, last>>
           ELSE /\ owner' = [owner EXCEPT ![k] = IF @ = "absent" THEN "rule" ELSE @]
                /\ keys' = [keys EXCEPT ![p] = (@ \ K!OldKeys(t, k, TRUE, @)) \cup {k}]
                /\ last' = [last EXCEPT ![p] = IF call[t].version = version THEN "current" ELSE "outdated"]
  BY DEF K!SweepFile
<1>3. PICK k : k = K!Made(cache[t], p)
  OBVIOUS
<1>4. ~K!SweepFails(t, p, k) /\ left' = [left EXCEPT ![t] = left[t] \ {p}]
  BY <1>2, <1>3
<1>5. /\ left'[t] = left[t] \ {p} /\ \A u \in Tools \ {t} : left'[u] = left[u]
  BY <1>4 DEF KeysInv, Shapes
<1>6. Sweeping(t)'
  BY <1>1, <1>5 DEF KeyTypesInv, Sweeping, K!Rules0
<1>7. Caches'
  BY <1>1, CachesKeep DEF KeyTypesInv
<1>8. KeyTables' /\ \A x \in Keys : owner[x] # "absent" => owner'[x] # "absent"
  <2>1. CASE k = NoKey
    BY <1>1, <1>2, <1>3, <2>1, TablesKeep DEF KeyTypesInv
  <2>2. CASE k # NoKey
    <3>1. PICK o : o = IF owner[k] = "absent" THEN "rule" ELSE owner[k]
      OBVIOUS
    <3>2. PICK ks : ks = (keys[p] \ K!OldKeys(t, k, TRUE, keys[p])) \cup {k}
      OBVIOUS
    <3>3. PICK l : l = IF call[t].version = version THEN "current" ELSE "outdated"
      OBVIOUS
    <3>4. /\ owner' = [owner EXCEPT ![k] = o] /\ keys' = [keys EXCEPT ![p] = ks]
          /\ last' = [last EXCEPT ![p] = l]
      <4>1. owner' = [owner EXCEPT ![k] = IF owner[k] = "absent" THEN "rule" ELSE owner[k]]
        BY <1>2, <1>3, <2>2
      <4>2. keys' = [keys EXCEPT ![p] = (keys[p] \ K!OldKeys(t, k, TRUE, keys[p])) \cup {k}]
        BY <1>2, <1>3, <2>2
      <4>3. last' = [last EXCEPT ![p] = IF call[t].version = version THEN "current" ELSE "outdated"]
        BY <1>2, <1>3, <2>2
      <4>4. owner' = [owner EXCEPT ![k] = o]
        BY <4>1, <3>1, Zenon
      <4>5. keys' = [keys EXCEPT ![p] = ks]
        BY <4>2, <3>2, Zenon
      <4>6. last' = [last EXCEPT ![p] = l]
        BY <4>3, <3>3, Zenon
      <4> QED
        BY <4>4, <4>5, <4>6
    <3>5. p \in there /\ p \in KeyPaths
      BY <1>4, <2>2 DEF K!SweepFails, KeyTypesInv, KeyTables, Sweeping
    <3>6. k \in Keys
      <4>1. cache[t] \in K!Rules0
        BY <1>1 DEF KeyTypesInv, Sweeping
      <4> QED
        BY <4>1, <3>5, <1>3, <2>2, Typed0
    <3>7. /\ o \in RowOwners /\ o # "absent" /\ ks \subseteq Keys /\ l \in {"nobody", "current", "outdated"}
          /\ \A x \in ks : x = k \/ x \in keys[p]
      BY <3>1, <3>2, <3>3, <3>5, <3>6 DEF KeyTypesInv, KeyTables, RowOwners
    <3>8. /\ owner' \in [Keys -> RowOwners] /\ owner'[k] = o /\ \A x \in Keys \ {k} : owner'[x] = owner[x]
      BY <3>4, <3>6, <3>7 DEF KeyTypesInv, KeyTables, RowOwners
    <3>9. /\ keys' \in [KeyPaths -> SUBSET Keys] /\ keys'[p] = ks
          /\ \A x \in KeyPaths \ {p} : keys'[x] = keys[x]
      BY <3>4, <3>5, <3>7 DEF KeyTypesInv, KeyTables
    <3>10. last' \in [KeyPaths -> {"nobody", "current", "outdated"}]
      BY <3>4, <3>5, <3>7 DEF KeyTypesInv, KeyTables
    <3>11. \A x \in Keys : owner[x] # "absent" => owner'[x] # "absent"
      BY <3>7, <3>8
    <3>12. ASSUME NEW x \in KeyPaths, NEW y \in Keys, y \in keys'[x]
           PROVE  x \in there' /\ owner'[y] # "absent"
      <4>1. CASE x = p
        BY <4>1, <1>1, <3>5, <3>7, <3>8, <3>9, <3>11, <3>12 DEF KeyTypesInv, KeyTables
      <4>2. CASE x # p
        BY <4>2, <1>1, <3>9, <3>11, <3>12 DEF KeyTypesInv, KeyTables
      <4> QED
        BY <4>1, <4>2
    <3> QED
      BY <1>1, <3>8, <3>9, <3>10, <3>11, <3>12 DEF KeyTypesInv, KeyTables, RowOwners, K!Rules0
  <2> QED
    BY <2>1, <2>2
<1> QED
  BY <1>1, <1>5, <1>6, <1>7, <1>8, ToolTyped

LEMMA SweepBlockedTyped ==
  ASSUME KeysInv, KeyTypesInv, NEW t \in Tools, K!SweepBlocked(t) PROVE KeyTypesInv'
<1>1. /\ pc[t] = "sweep" /\ pc' = [pc EXCEPT ![t] = "wait"]
      /\ \E k : call' = [call EXCEPT ![t].key = k]
      /\ UNCHANGED <<rule, version, owner, there, keys, cache, known, todo, made, added, snap, left, lost, last, calls>>
  BY DEF K!SweepBlocked, K!Goto, K!tables, K!caches, K!tx, K!sweep
<1>2. KeyTables' /\ Caches'
  BY <1>1, TablesKeep, CachesKeep DEF KeyTypesInv
<1>3. pc'[t] = "wait" /\ call'[t].def = call[t].def /\ \A u \in Tools \ {t} : pc'[u] = pc[u] /\ call'[u] = call[u]
  <2>1. IsSetCall(call[t])
    BY <1>1 DEF KeysInv, Setting
  <2> QED
    BY <1>1, <2>1, Typed0 DEF IsSetCall
<1>4. Sweeping(t)'
  BY <1>1, <1>3 DEF KeyTypesInv, Sweeping, K!Rules0
<1> QED
  BY <1>1, <1>2, <1>3, <1>4, ToolTyped

\* The keys of the rule go from all files, and no write has one in hand.
LEMMA RemoveTyped ==
  ASSUME KeysInv, KeyTypesInv, NEW t \in Tools, K!Remove(t) PROVE KeyTypesInv'
<1>1. /\ calls < MaxCalls /\ calls' = calls + 1 /\ \A s \in Servers : ~K!Uses(s)
      /\ version < MaxRules /\ rule' = NoRule /\ version' = version + 1
      /\ last' = [p \in KeyPaths |-> "nobody"]
      /\ owner' = [k \in Keys |-> IF k \in K!OfRule THEN "absent" ELSE owner[k]]
      /\ keys' = [p \in KeyPaths |-> keys[p] \ K!OfRule]
      /\ UNCHANGED <<there, cache, known, pc, call, todo, made, added, snap, left, lost>>
  BY DEF K!Remove, K!RuleChanges, K!caches, K!tx, K!sweep
<1>2. \A k \in Keys : owner'[k] = IF k \in K!OfRule THEN "absent" ELSE owner[k]
  BY <1>1
<1>3. KeyTables'
  <2>1. owner' \in [Keys -> {"rule", "none", "absent"}]
    BY <1>1, <1>2 DEF KeyTypesInv, KeyTables
  <2>2. keys' \in [KeyPaths -> SUBSET Keys]
    BY <1>1 DEF KeyTypesInv, KeyTables
  <2>3. \A x \in KeyPaths, k \in Keys : k \in keys'[x] => x \in there' /\ owner'[k] # "absent"
    BY <1>1, <1>2 DEF KeyTypesInv, KeyTables
  <2> QED
    BY <1>1, <2>1, <2>2, <2>3, Typed0 DEF KeyTypesInv, KeyTables, K!Rules0
<1>4. \A s \in Servers : WriteKeys(s)'
  BY <1>1, <1>2 DEF KeyTypesInv, WriteKeys, K!Holds, K!Uses
<1>5. Caches' /\ \A u \in Tools : Sweeping(u)'
  BY <1>1, CachesKeep, SweepingStays DEF KeyTypesInv
<1> QED
  BY <1>1, <1>3, <1>4, <1>5 DEF KeyTypesInv

LEMMA KeyTypesStep == KeysInv /\ KeyTypesInv /\ [K!Next]_(K!vars) => KeyTypesInv'
<1> SUFFICES ASSUME KeysInv, KeyTypesInv, [K!Next]_(K!vars) PROVE KeyTypesInv'
  OBVIOUS
<1>1. ASSUME NEW s \in Servers,
             \/ K!Show(s) \/ K!BeginWrite(s) \/ K!Rules(s) \/ K!Unchanged(s) \/ K!ClearKeys(s)
             \/ K!AddKey(s) \/ K!Wait(s) \/ K!Commit(s)
      PROVE  KeyTypesInv'
  BY <1>1, ShowTyped, BeginWriteTyped, RulesTyped, WaitingTyped, AddKeyTyped, CommitTyped
<1>2. ASSUME NEW t \in Tools, K!Look(t) \/ K!SweepWait(t) \/ K!Swept(t) \/ K!Crash(t) PROVE KeyTypesInv'
  <2>1. PICK step \in {"idle", "upsert", "sweep", "swept"} :
          /\ K!Goto(t, step) /\ UNCHANGED <<K!tables, K!caches, call, K!tx, K!sweep, last, calls>>
          /\ pc[t] # "idle" /\ (step \in {"sweep", "swept"} => pc[t] \in {"sweep", "wait"})
    <3>1. CASE K!Look(t)
      BY <3>1, Zenon DEF K!Look
    <3>2. CASE K!SweepWait(t)
      BY <3>2, Zenon DEF K!SweepWait
    <3>3. CASE K!Swept(t)
      BY <3>3 DEF K!Swept
    <3>4. CASE K!Crash(t)
      BY <3>4 DEF K!Crash
    <3> QED
      BY <1>2, <3>1, <3>2, <3>3, <3>4
  <2> QED
    BY <2>1, GoesTyped
<1>3. ASSUME NEW t \in Tools,
             \/ K!BeginSet(t) \/ K!Upsert(t) \/ K!Refresh(t) \/ K!OpenCursor(t) \/ K!SweepFile(t)
             \/ K!SweepBlocked(t) \/ K!Remove(t)
      PROVE  KeyTypesInv'
  BY <1>3, BeginSetTyped, UpsertTyped, RefreshTyped, OpenCursorTyped, SweepFileTyped, SweepBlockedTyped,
     RemoveTyped
<1>4. CASE UNCHANGED K!vars
  <2>1. UNCHANGED <<rule, version, owner, there, keys, cache, known, pc, call, todo, made, added,
                    snap, left, lost, last, calls>>
    BY <1>4 DEF K!vars, K!tables, K!caches, K!tx, K!sweep
  <2> QED
    BY <2>1, TablesKeep, CachesKeep, WriteKeysStay, SweepingStays DEF KeyTypesInv
<1> QED
  BY <1>1, <1>2, <1>3, <1>4, DeleteFileTyped DEF K!Next

\* ld.js and layer3-ld.sql, partition.js and layer3-partition.sql: the types, and that
\* a file has no row of the index and no key of a rule that is not there, nor either
\* of them a file that is not, whatever is deleted, removed or undone meanwhile.
THEOREM IndexTypes == Spec /\ K!Spec => []IndexTypeOK
<1>1. TablesInv => TypeOK
  <2> SUFFICES ASSUME TablesInv PROVE TypeOK
    OBVIOUS
  <2>1. file \in [Paths -> [id : 1 .. MaxWrites, content : Contents, nquads : Contents] \cup {NoFile}]
    <3>1. ASSUME NEW p \in Paths, file[p] # NoFile
          PROVE  file[p] \in [id : 1 .. MaxWrites, content : Contents, nquads : Contents]
      <4>1. file[p] \in Entry /\ file[p].id <= writes /\ file[p].id >= 1 /\ writes \in Nat /\ writes <= MaxWrites
        BY <3>1 DEF TablesInv, IndexInv, FilesIndexed, Indexed, RowsOwned
      <4>2. MaxWrites \in Nat
        BY ConstantsAssumption DEF ConstantsAssumption
      <4>3. file[p].id \in 1 .. MaxWrites
        BY <4>1, <4>2 DEF Entry
      <4> QED
        BY <4>1, <4>3 DEF Entry
    <3> QED
      BY <3>1 DEF TablesInv, IndexInv, FilesIndexed, Indexed
  <2>2. \A e \in index : e[2] \in rows /\ \E p \in Paths : file[p] # NoFile /\ file[p].id = e[1]
    BY DEF TablesInv, RowsOwned, HasId
  <2>3. writes \in 0 .. MaxWrites
    BY ConstantsAssumption DEF ConstantsAssumption, TablesInv, IndexInv, FilesIndexed, Indexed, RowsOwned
  <2> QED
    BY <2>1, <2>2, <2>3 DEF TypeOK, TablesInv, RowsOwned, RowsClosed, UrisThere
<1>2. KeyTypesInv => K!TypeOK
  BY DEF KeyTypesInv, KeyTables, Caches, Sweeping, K!TypeOK, K!Rules0
<1>3. Spec => []TypeOK
  BY <1>1, TablesInvariant, PTL
<1>4. K!Spec => []KeyTypesInv
  BY KeysInvariant, KeyTypesInit, KeyTypesStep, PTL DEF K!Spec
<1> QED
  BY <1>2, <1>3, <1>4, PTL DEF IndexTypeOK
=============================================================================
