-------------------------- MODULE WebClientProofs --------------------------
(***************************************************************************)
(* What holds of WebClient for every number of uploads, every set of       *)
(* files, and every drop: the tracker tells the truth of what it has       *)
(* uploaded, a listing that is kept shows the tab's own changes, and each  *)
(* upload is told of.                                                      *)
(***************************************************************************)
EXTENDS WebClient, SequenceTheorems, FiniteSetTheorems, WellFoundedInduction, TLAPS

-----------------------------------------------------------------------------
(* The inductive invariant.                                                *)

Rows == {RowOf[f][2] : f \in Targets}
Sent == [entry : Nat, place : Nat, file : Targets]
RecordType == [dest : Dirs, files : SUBSET Targets, done : Nat, failed : SUBSET Targets,
               state : {"loading", "loaded", "error"}]
Kept == [state : {"none", "loading", "loaded"}, rows : SUBSET Rows, old : BOOLEAN]
Request == [dir : Dirs, read : BOOLEAN, rows : SUBSET Rows, old : BOOLEAN]
Removal == [row : {RowOf[f] : f \in Targets}, state : {"sent", "loaded", "error"}]

SendingTypes ==
  /\ records \in [Calls -> Seq(RecordType)] /\ queue \in [Calls -> SUBSET Sent]
  /\ attempt \in [Calls -> 0 .. Retries]
  /\ xhr \in [Calls -> {"none", "sent", "loaded", "error", "over", "done"}]
  /\ lru \in Seq(Entries) /\ Len(lru) <= EntryLimit
  /\ put \in [Calls -> SUBSET Targets] /\ unsure \in [Calls -> SUBSET Targets]
TrackerTypes ==
  /\ since \in {0} \cup Calls /\ timer \in BOOLEAN /\ visible \in BOOLEAN /\ told \subseteq Entries
ListingTypes ==
  /\ cwd \in Dirs /\ loads \in BOOLEAN
  /\ cache \in [Dirs -> Kept] /\ lists \subseteq Request /\ removal \in Removal \cup {NoCall}
  /\ stored \subseteq Targets

\* The listings.
Shows(up, away, rows, d) ==
  /\ \A f \in up : RowOf[f][1] = d => RowOf[f][2] \in rows
  /\ \A row \in rows : ~(InRow(<<d, row>>) \subseteq away)
ListInv ==
  /\ acked \subseteq stored /\ gone \cap stored = {}
  /\ \A d \in Dirs : cache[d].state = "loaded" /\ ~cache[d].old => Shows(acked, gone, cache[d].rows, d)
  /\ \A r \in lists : r.read /\ ~r.old => Shows(acked, gone, r.rows, r.dir)

\* The files of an entry that are still to be sent.
Left(Q, i) == {q.file : q \in {p \in Q : p.entry = i}}
Distinct(Q) == \A p, q \in Q : p.file = q.file \/ (p.entry = q.entry /\ p.place = q.place) => p = q
Busy == {"sent", "loaded", "error"}
Queued(R, Q, x) ==
  /\ x \in Busy <=> Q # {}
  /\ x = "none" <=> R = << >>
  /\ Distinct(Q) /\ \A p \in Q : p.entry \in DOMAIN R
Apart(R) == \A i, j \in DOMAIN R : i # j => R[i].files \cap R[j].files = {}
Counted(r, left) ==
  /\ left \subseteq r.files /\ r.failed \subseteq r.files \ left
  /\ IsFiniteSet(r.files) /\ r.done + Cardinality(left) = Cardinality(r.files)
  /\ r.state = "loading" <=> left # {} \/ r.files = {}
Truthful(r, left, p, u) ==
  /\ (r.files \ left) \ r.failed \subseteq p
  /\ r.failed \cap p \subseteq u
InHand(Q, x, p, u) ==
  /\ \A q \in Q : q # First(Q) => q.file \notin p
  /\ x = "loaded" => First(Q).file \in p
  /\ x \in {"sent", "error"} /\ First(Q).file \in p => First(Q).file \in u
\* An upload: its records, the files it has still to send, its request, the files it stored, and those
\* of which the answer was lost.
UploadOK(R, Q, x, p, u) ==
  /\ Queued(R, Q, x) /\ Apart(R)
  /\ \A i \in DOMAIN R : Counted(R[i], Left(Q, i)) /\ Truthful(R[i], Left(Q, i), p, u)
  /\ InHand(Q, x, p, u)
  /\ R = << >> => p = {}
SendInv == \A k \in Calls : UploadOK(records[k], queue[k], xhr[k], put[k], unsure[k])

Started(k) == records[k] # << >>
TellInv ==
  /\ \A k \in Calls : Started(k) => \A j \in 1 .. k - 1 : Started(j)
  /\ since # 0 => Started(since)
  /\ \A e \in Entries \ told : since # 0 /\ since <= e[1]
  /\ Entries \subseteq told \/ timer \/ EmptyDropped \/ \E k \in Calls : queue[k] # {}

WebInv == SendingTypes /\ TrackerTypes /\ ListingTypes /\ ListInv /\ SendInv /\ TellInv

-----------------------------------------------------------------------------
(* The file at hand.                                                       *)

\* A set of numbers that is not empty has a smallest.
LEMMA Smallest ==
  ASSUME NEW T \in SUBSET Nat, T # {}
  PROVE  \E x \in T : \A y \in T : x <= y
<1> DEFINE R == OpToRel(<, Nat)
<1>1. IsWellFoundedOn(R, Nat)
  BY NatLessThanWellFounded
<1>2. \A x, y \in Nat : <<y, x>> \in R <=> y < x
  BY DEF OpToRel
<1> HIDE DEF R
<1>3. PICK x \in T : \A y \in T : ~(<<y, x>> \in R)
  BY <1>1, WFMin
<1>4. \A y \in T : ~(y < x)
  BY <1>2, <1>3
<1>5. \A y \in T : x \in Nat /\ y \in Nat
  OBVIOUS
<1>6. \A y \in T : x <= y
  BY <1>4, <1>5
<1> QED
  BY <1>6

\* Of the files to send there is one that comes before the others.
LEMMA FirstIn ==
  ASSUME NEW Q \in SUBSET Sent, Q # {}, Distinct(Q)
  PROVE  First(Q) \in Q /\ First(Q).file \in Targets
<1>1. PICK i \in {q.entry : q \in Q} : \A j \in {q.entry : q \in Q} : i <= j
  <2>1. {q.entry : q \in Q} \in SUBSET Nat /\ {q.entry : q \in Q} # {}
    BY DEF Sent
  <2> QED
    BY <2>1, Smallest
<1>2. PICK n \in {q.place : q \in {r \in Q : r.entry = i}} :
        \A m \in {q.place : q \in {r \in Q : r.entry = i}} : n <= m
  <2>1. {q.place : q \in {r \in Q : r.entry = i}} \in SUBSET Nat
    BY DEF Sent
  <2>2. {q.place : q \in {r \in Q : r.entry = i}} # {}
    BY <1>1
  <2> QED
    BY <2>1, <2>2, Smallest
<1>3. PICK p \in Q : p.entry = i /\ p.place = n
  BY <1>2
<1>4. ASSUME NEW q \in Q PROVE q = p \/ Before(p, q)
  <2>1. /\ p.entry \in Nat /\ q.entry \in Nat /\ p.place \in Nat /\ q.place \in Nat
    BY DEF Sent
  <2>2. p.entry <= q.entry
    BY <1>1, <1>3
  <2>3. q.entry = p.entry => p.place <= q.place
    BY <1>2, <1>3
  <2>4. q.entry = p.entry /\ q.place = p.place => q = p
    BY DEF Distinct
  <2> QED
    BY <2>1, <2>2, <2>3, <2>4 DEF Before
<1>5. \E x \in Q : \A q \in Q : q = x \/ Before(x, q)
  BY <1>4
<1>6. First(Q) \in Q
  BY <1>5 DEF First
<1> QED
  BY <1>6 DEF Sent

-----------------------------------------------------------------------------
(* The listings.                                                           *)

\* A listing that shows all that it should still does so when less is asked of it.
LEMMA ShowsLess ==
  ASSUME NEW up, NEW away, NEW less \in SUBSET up, NEW fewer \in SUBSET away, NEW rows, NEW d,
         Shows(up, away, rows, d)
  PROVE  Shows(less, fewer, rows, d)
BY DEF Shows

\* The cache and its requests stay, and so does what it has to show, or part of it.
LEMMA ListsStay ==
  ASSUME ListingTypes, ListInv, UNCHANGED <<cache, lists>>, acked' \subseteq acked,
         gone' \subseteq gone, acked' \subseteq stored', gone' \cap stored' = {}
  PROVE  ListInv'
<1>1. ASSUME NEW d \in Dirs, cache[d].state = "loaded", ~cache[d].old
      PROVE  Shows(acked', gone', cache[d].rows, d)
  BY <1>1, ShowsLess DEF ListInv
<1>2. ASSUME NEW r \in lists, r.read, ~r.old
      PROVE  Shows(acked', gone', r.rows, r.dir)
  BY <1>2, ShowsLess DEF ListInv
<1>3. \A d \in Dirs : cache'[d].state = "loaded" /\ ~cache'[d].old =>
        Shows(acked', gone', cache'[d].rows, d)
  BY <1>1
<1>4. \A r \in lists' : r.read /\ ~r.old => Shows(acked', gone', r.rows, r.dir)
  BY <1>2
<1> QED
  BY <1>3, <1>4 DEF ListInv

\* A cache that is cleared keeps nothing.
LEMMA Purged ==
  ASSUME ListingTypes, Purge, acked' \subseteq stored', gone' \cap stored' = {}
  PROVE  /\ ListInv' /\ cache' \in [Dirs -> Kept] /\ lists' \subseteq Request
<1>1. cache' \in [Dirs -> Kept] /\ \A d \in Dirs : cache'[d].state = "none"
  BY DEF Purge, Unasked, Kept
<1>2. \A r \in lists : r.dir \in Dirs
  BY DEF ListingTypes, Request
<1>3. \A d \in Dirs : Old(d) \in Request /\ Old(d).old
  BY DEF Old, Request
<1>4. lists' \subseteq Request /\ \A r \in lists' : r.old
  BY <1>2, <1>3 DEF Purge
<1> QED
  BY <1>1, <1>4 DEF ListInv

\* What the server lists shows what is there, and nothing that is not.
LEMMA ListingShows ==
  ASSUME TabAssumption, NEW up \in SUBSET stored, NEW away, stored \subseteq Targets,
         away \cap stored = {}, NEW d \in Dirs
  PROVE  Shows(up, away, Listing(d), d) /\ Listing(d) \subseteq Rows
<1>1. \A f \in up : RowOf[f][1] = d => RowOf[f][2] \in Listing(d)
  BY DEF Listing
<1>2. ASSUME NEW row \in Listing(d) PROVE ~(InRow(<<d, row>>) \subseteq away)
  <2>1. PICK f \in stored : RowOf[f][1] = d /\ RowOf[f][2] = row
    BY DEF Listing
  <2>2. f \in InRow(<<d, row>>)
    BY <2>1 DEF InRow, TabAssumption
  <2> QED
    BY <2>1, <2>2
<1> QED
  BY <1>1, <1>2 DEF Shows, Listing, Rows

\* A step keeps what the listings have to show.
LEMMA ListStep ==
  ASSUME TabAssumption, WebInv, [Next]_tab
  PROVE  ListingTypes' /\ ListInv'
<1> USE DEF WebInv, ListingTypes, sending, tracker, page, listing, history
<1>0. acked \subseteq stored /\ gone \cap stored = {}
  BY DEF ListInv
<1>1. CASE UNCHANGED tab
  BY <1>0, <1>1, ListsStay DEF tab
<1>2. ASSUME NEW k \in Calls, Upload(k) PROVE ListingTypes' /\ ListInv'
  <2>1. UNCHANGED <<stored, page, history>>
    BY <1>2 DEF Upload
  <2> QED
    BY <1>0, <2>1, ListsStay
<1>3. ASSUME NEW k \in Calls, Serve(k) PROVE ListingTypes' /\ ListInv'
  <2>1. First(queue[k]).file \in Targets
    BY <1>3, FirstIn DEF Serve, SendingTypes, SendInv, UploadOK, Queued, Busy
  <2>2. PICK f : f = First(queue[k]).file
    OBVIOUS
  <2>3. UNCHANGED <<page, acked>> /\ (stored' = stored \/ stored' = stored \cup {f})
    BY <1>3, <2>2 DEF Serve
  <2>4. (stored' = stored /\ gone' = gone) \/ (stored' = stored \cup {f} /\ gone' = gone \ {f})
    <3>1. CASE f \in stored
      BY <1>3, <2>2, <3>1 DEF Serve
    <3>2. CASE f \notin stored
      BY <1>3, <2>2, <3>2 DEF Serve
    <3> QED
      BY <3>1, <3>2
  <2>5. acked' \subseteq stored' /\ gone' \subseteq gone /\ gone' \cap stored' = {}
        /\ stored' \subseteq Targets
    BY <1>0, <2>1, <2>2, <2>3, <2>4
  <2> QED
    BY <2>3, <2>5, ListsStay
<1>4. ASSUME NEW k \in Calls, Answer(k) \/ Lose(k) PROVE ListingTypes' /\ ListInv'
  <2>1. UNCHANGED <<stored, cwd, listing, removal, acked, gone>>
    BY <1>4 DEF Answer, Lose
  <2>2. loads' \in BOOLEAN
    BY <1>4 DEF Answer, Lose, Attempted, FileDone
  <2> QED
    BY <1>0, <2>1, <2>2, ListsStay
<1>5. ASSUME NEW k \in Calls, End(k) PROVE ListingTypes' /\ ListInv'
  <2>1. UNCHANGED <<stored, cwd, loads, removal, gone>>
    BY <1>5 DEF End
  <2>2. acked' \subseteq stored'
    BY <1>5, <2>1, <1>0 DEF End
  <2>3. CASE Purge
    BY <2>1, <2>2, <2>3, <1>0, Purged
  <2>4. CASE ~Clears(k)
    <3>1. UNCHANGED <<cache, lists>>
      BY <1>5, <2>4 DEF End
    <3>2. acked' = acked
      <4>1. ASSUME NEW i \in DOMAIN records[k], records[k][i].state = "loaded",
                   \A j \in DOMAIN records[k] : <<k, j>> \in Range(lru)
            PROVE FALSE
        <5>1. \A j \in 1 .. i : j \in DOMAIN records[k]
          BY DEF SendingTypes
        <5> QED
          BY <4>1, <5>1, <2>4 DEF Clears
      <4> QED
        BY <4>1, <1>5 DEF End
    <3> QED
      BY <2>1, <3>1, <3>2, <1>0, ListsStay
  <2> QED
    BY <1>5, <2>3, <2>4 DEF End
<1>6. CASE Toast \/ ToggleTracker \/ Navigate
  <2>1. UNCHANGED <<stored, listing, removal, history>> /\ cwd' \in Dirs /\ loads' \in BOOLEAN
    BY <1>6 DEF Toast, ToggleTracker, Navigate
  <2> QED
    BY <1>0, <2>1, ListsStay
<1>7. CASE GetContents
  <2>1. UNCHANGED <<stored, cwd, removal, history>> /\ loads' \in BOOLEAN
    BY <1>7 DEF GetContents
  <2>2. CASE UNCHANGED listing
    BY <1>0, <2>1, <2>2, ListsStay
  <2>3. CASE /\ cache' = [cache EXCEPT ![cwd].state = "loading"]
             /\ lists' = lists \cup {[dir |-> cwd, read |-> FALSE, rows |-> {}, old |-> FALSE]}
    <3>1. PICK new : new = [cache[cwd] EXCEPT !.state = "loading"]
      OBVIOUS
    <3>2. new \in Kept /\ new.state = "loading"
      BY <3>1 DEF Kept
    <3>3. /\ cache' \in [Dirs -> Kept] /\ cache'[cwd] = new
          /\ \A d \in Dirs : d # cwd => cache'[d] = cache[d]
      BY <2>3, <3>1, <3>2
    <3>4. lists' \subseteq Request
      <4>1. [dir |-> cwd, read |-> FALSE, rows |-> {}, old |-> FALSE] \in Request
        BY DEF Request
      <4> QED
        BY <2>3, <4>1
    <3>5. \A d \in Dirs : cache'[d].state = "loaded" /\ ~cache'[d].old =>
            Shows(acked', gone', cache'[d].rows, d)
      BY <2>1, <3>2, <3>3 DEF ListInv
    <3>6. \A r \in lists' : r.read /\ ~r.old => Shows(acked', gone', r.rows, r.dir)
      BY <2>1, <2>3 DEF ListInv
    <3> QED
      BY <1>0, <2>1, <3>3, <3>4, <3>5, <3>6 DEF ListInv
  <2> QED
    BY <1>7, <2>2, <2>3 DEF GetContents
<1>8. ASSUME NEW r \in lists, ReadList(r) PROVE ListingTypes' /\ ListInv'
  <2>1. UNCHANGED <<stored, cwd, loads, cache, removal, acked, gone>>
    BY <1>8 DEF ReadList
  <2>2. PICK new : new = [r EXCEPT !.read = TRUE, !.rows = Listing(r.dir)]
    OBVIOUS
  <2>3. r \in Request /\ r.dir \in Dirs
    BY DEF Request
  <2>4. Shows(acked, gone, Listing(r.dir), r.dir) /\ Listing(r.dir) \subseteq Rows
    BY <1>0, <2>3, ListingShows
  <2>5. new \in Request /\ new.rows = Listing(r.dir) /\ new.dir = r.dir
    BY <2>2, <2>3, <2>4 DEF Request
  <2>6. lists' = (lists \ {r}) \cup {new}
    BY <1>8, <2>2 DEF ReadList
  <2>7. \A q \in lists' : q.read /\ ~q.old => Shows(acked', gone', q.rows, q.dir)
    BY <2>1, <2>4, <2>5, <2>6 DEF ListInv
  <2>8. \A d \in Dirs : cache'[d].state = "loaded" /\ ~cache'[d].old =>
          Shows(acked', gone', cache'[d].rows, d)
    BY <2>1 DEF ListInv
  <2> QED
    BY <1>0, <2>1, <2>5, <2>6, <2>7, <2>8 DEF ListInv
<1>9. ASSUME NEW r \in lists, GotList(r) \/ NoList(r) PROVE ListingTypes' /\ ListInv'
  <2>1. UNCHANGED <<stored, cwd, loads, removal, acked, gone>> /\ lists' = lists \ {r}
    BY <1>9 DEF GotList, NoList
  <2>2. r \in Request /\ r.dir \in Dirs
    BY DEF Request
  <2>3. PICK new : cache' = [cache EXCEPT ![r.dir] = new]
                   /\ (new = Unasked \/ (r.read /\ new = [state |-> "loaded", rows |-> r.rows, old |-> r.old]))
    <3>1. CASE GotList(r)
      BY <3>1, Zenon DEF GotList
    <3>2. CASE NoList(r)
      BY <3>2, Zenon DEF NoList
    <3> QED
      BY <1>9, <3>1, <3>2
  <2>4. new \in Kept
    <3>1. r.rows \in SUBSET Rows /\ r.old \in BOOLEAN
      BY <2>2 DEF Request
    <3>2. [state |-> "loaded", rows |-> r.rows, old |-> r.old] \in Kept /\ Unasked \in Kept
      BY <3>1 DEF Kept, Unasked
    <3> QED
      BY <2>3, <3>2
  <2>5. new.state = "loaded" /\ ~new.old => Shows(acked, gone, new.rows, r.dir)
    <3>1. CASE new = Unasked
      BY <3>1 DEF Unasked
    <3>2. CASE r.read /\ new = [state |-> "loaded", rows |-> r.rows, old |-> r.old]
      <4>1. new.old = r.old /\ new.rows = r.rows
        BY <3>2
      <4> QED
        BY <3>2, <4>1 DEF ListInv
    <3> QED
      BY <2>3, <3>1, <3>2
  <2>6. \A d \in Dirs : cache'[d].state = "loaded" /\ ~cache'[d].old =>
          Shows(acked', gone', cache'[d].rows, d)
    BY <2>1, <2>2, <2>3, <2>5 DEF ListInv
  <2>7. \A q \in lists' : q.read /\ ~q.old => Shows(acked', gone', q.rows, q.dir)
    BY <2>1 DEF ListInv
  <2>8. cache' \in [Dirs -> Kept]
    BY <2>2, <2>3, <2>4
  <2> QED
    BY <1>0, <2>1, <2>6, <2>7, <2>8 DEF ListInv
<1>10. CASE Delete
  <2>1. UNCHANGED <<stored, cwd, loads, listing, history>>
    BY <1>10 DEF Delete
  <2>2. removal' \in Removal
    BY <1>10 DEF Delete, Removal
  <2> QED
    BY <1>0, <2>1, <2>2, ListsStay
<1>11. CASE ServeDelete
  <2>1. UNCHANGED <<cwd, loads, listing, gone>>
    BY <1>11 DEF ServeDelete
  <2>2. PICK there : stored' = stored \ there /\ acked' = acked \ there
    BY <1>11 DEF ServeDelete
  <2>3. PICK s \in {"error", "loaded"} : removal' = [removal EXCEPT !.state = s]
    BY <1>11 DEF ServeDelete
  <2>4. removal' \in Removal
    BY <1>11, <2>3 DEF ServeDelete, Removal
  <2> QED
    BY <1>0, <2>1, <2>2, <2>4, ListsStay
<1>12. CASE Deleted
  <2>1. UNCHANGED <<stored, cwd, acked>> /\ removal' = NoCall
    BY <1>12 DEF Deleted
  <2>2. CASE Purge /\ loads' = TRUE /\ gone' = gone \cup (InRow(removal.row) \ stored)
    BY <1>0, <2>1, <2>2, Purged
  <2>3. CASE UNCHANGED <<cache, lists, loads, gone>>
    BY <1>0, <2>1, <2>3, ListsStay
  <2> QED
    BY <1>12, <2>2, <2>3 DEF Deleted
<1>13. CASE DeleteLost
  <2>1. UNCHANGED <<stored, cwd, loads, listing, history>> /\ removal' = NoCall
    BY <1>13 DEF DeleteLost
  <2> QED
    BY <1>0, <2>1, ListsStay
<1>14. ASSUME NEW f \in Targets, OtherWrites(f) \/ OtherDeletes(f) PROVE ListingTypes' /\ ListInv'
  <2>1. UNCHANGED page
    BY <1>14 DEF OtherWrites, OtherDeletes
  <2>2. \/ stored' = stored \cup {f} /\ gone' = gone \ {f} /\ acked' = acked
        \/ stored' = stored \ {f} /\ acked' = acked \ {f} /\ gone' = gone
    BY <1>14 DEF OtherWrites, OtherDeletes
  <2> QED
    BY <1>0, <2>1, <2>2, ListsStay
<1> QED
  BY <1>1, <1>2, <1>3, <1>4, <1>5, <1>6, <1>7, <1>8, <1>9, <1>10, <1>11, <1>12, <1>13, <1>14
  DEF Next, Handlers

-----------------------------------------------------------------------------
(* One upload.                                                             *)

\* The server's answer to a file: it is stored, or refused.
LEMMA Served ==
  ASSUME NEW R, NEW Q \in SUBSET Sent, NEW p, NEW u, UploadOK(R, Q, "sent", p, u)
  PROVE  /\ UploadOK(R, Q, "loaded", p \cup {First(Q).file}, u)
         /\ UploadOK(R, Q, "error", p, u)
<1> DEFINE f == First(Q).file
<1>1. Queued(R, Q, "loaded") /\ Queued(R, Q, "error")
  BY DEF UploadOK, Queued, Busy
<1>2. First(Q) \in Q /\ First(Q).entry \in DOMAIN R
  BY FirstIn DEF UploadOK, Queued, Busy
<1>3. UploadOK(R, Q, "error", p, u)
  BY <1>1 DEF UploadOK, InHand
<1>4. f \in Left(Q, First(Q).entry)
  BY <1>2 DEF Left
<1>5. ASSUME NEW i \in DOMAIN R PROVE Truthful(R[i], Left(Q, i), p \cup {f}, u)
  <2>1. f \notin R[i].failed
    <3>1. CASE i = First(Q).entry
      BY <1>4, <3>1 DEF UploadOK, Counted
    <3>2. CASE i # First(Q).entry
      <4>1. f \in R[First(Q).entry].files
        BY <1>2, <1>4 DEF UploadOK, Counted
      <4>2. f \notin R[i].files
        BY <1>2, <3>2, <4>1 DEF UploadOK, Apart
      <4> QED
        BY <4>2 DEF UploadOK, Counted
    <3> QED
      BY <3>1, <3>2
  <2> QED
    BY <2>1 DEF UploadOK, Truthful
<1>6. InHand(Q, "loaded", p \cup {f}, u)
  <2>1. \A q \in Q : q # First(Q) => q.file \notin p \cup {f}
    BY <1>2 DEF UploadOK, InHand, Queued, Distinct
  <2> QED
    BY <2>1 DEF InHand
<1>7. R # << >>
  BY DEF UploadOK, Queued
<1> QED
  BY <1>1, <1>3, <1>5, <1>6, <1>7 DEF UploadOK

\* Another attempt at the file, and an answer that is lost.
LEMMA Tried ==
  ASSUME NEW R, NEW Q \in SUBSET Sent, NEW p, NEW u, NEW x \in Busy, UploadOK(R, Q, x, p, u)
  PROVE  /\ x = "error" => UploadOK(R, Q, "sent", p, u)
         /\ x = "sent" => UploadOK(R, Q, "error", p, u)
         /\ UploadOK(R, Q, "sent", p, u \cup {First(Q).file})
         /\ UploadOK(R, Q, "error", p, u \cup {First(Q).file})
<1>1. Queued(R, Q, "sent") /\ Queued(R, Q, "error")
  BY DEF UploadOK, Queued, Busy
<1>2. \A i \in DOMAIN R : Truthful(R[i], Left(Q, i), p, u \cup {First(Q).file})
  BY DEF UploadOK, Truthful
<1>3. /\ InHand(Q, "sent", p, u \cup {First(Q).file})
      /\ InHand(Q, "error", p, u \cup {First(Q).file})
  BY DEF UploadOK, InHand
<1>4. /\ x = "error" => InHand(Q, "sent", p, u)
      /\ x = "sent" => InHand(Q, "error", p, u)
  BY DEF UploadOK, InHand
<1> QED
  BY <1>1, <1>2, <1>3, <1>4 DEF UploadOK

\* The file at hand is done with, and its record counts it.
Counts(r, f, x, now) ==
  /\ now.files = r.files /\ now.done = r.done + 1
  /\ now.failed = IF x = "error" THEN r.failed \cup {f} ELSE r.failed
  /\ now.state = IF r.done + 1 = Cardinality(r.files) THEN Settled(r.files, now.failed) ELSE r.state

LEMMA LeftLess ==
  ASSUME NEW Q \in SUBSET Sent, Q # {}, Distinct(Q), NEW i
  PROVE  Left(Q \ {First(Q)}, i) =
           IF i = First(Q).entry THEN Left(Q, i) \ {First(Q).file} ELSE Left(Q, i)
<1>1. First(Q) \in Q
  BY FirstIn
<1>2. CASE i # First(Q).entry
  BY <1>2 DEF Left
<1>3. CASE i = First(Q).entry
  <2>1. \A q \in Q \ {First(Q)} : q.file # First(Q).file
    BY <1>1 DEF Distinct
  <2>2. Left(Q \ {First(Q)}, i) \subseteq Left(Q, i) \ {First(Q).file}
    BY <2>1 DEF Left
  <2>3. ASSUME NEW f \in Left(Q, i), f # First(Q).file PROVE f \in Left(Q \ {First(Q)}, i)
    BY <2>3 DEF Left
  <2> QED
    BY <1>3, <2>2, <2>3
<1> QED
  BY <1>2, <1>3

\* What the upload goes on with.
Finishes(R, Q, x, S, L, y) ==
  /\ L = Q \ {First(Q)} /\ y = IF L = {} THEN "over" ELSE "sent"
  /\ \E now \in RecordType :
       /\ Counts(R[First(Q).entry], First(Q).file, x, now)
       /\ S = [R EXCEPT ![First(Q).entry] = now]

LEMMA Done ==
  ASSUME NEW R \in Seq(RecordType), NEW Q \in SUBSET Sent, NEW p, NEW u, NEW x \in {"loaded", "error"},
         UploadOK(R, Q, x, p, u),
         NEW S, NEW L, NEW y, Finishes(R, Q, x, S, L, y)
  PROVE  /\ UploadOK(S, L, y, p, u)
         /\ L = {} => R[First(Q).entry].done + 1 = Cardinality(R[First(Q).entry].files)
<1> DEFINE f == First(Q).file
           e == First(Q).entry
<1>0. PICK now \in RecordType : Counts(R[e], f, x, now) /\ S = [R EXCEPT ![e] = now]
  BY DEF Finishes
<1>0a. L = Q \ {First(Q)} /\ y = IF L = {} THEN "over" ELSE "sent"
  BY DEF Finishes
<1>1. Q # {} /\ Distinct(Q) /\ First(Q) \in Q /\ e \in DOMAIN R
  BY FirstIn DEF UploadOK, Queued, Busy
<1>2. /\ DOMAIN S = DOMAIN R /\ S[e] = now
      /\ \A i \in DOMAIN R : S[i].files = R[i].files /\ (i # e => S[i] = R[i])
  BY <1>0, <1>1 DEF Counts
<1>3. Left(L, e) = Left(Q, e) \ {f} /\ \A i \in DOMAIN R : i # e => Left(L, i) = Left(Q, i)
  BY <1>0a, <1>1, LeftLess
<1>4. f \in Left(Q, e)
  BY <1>1 DEF Left
<1>5. Queued(S, L, y)
  <2>1. Distinct(L) /\ (\A q \in L : q.entry \in DOMAIN S) /\ S # << >>
    BY <1>0a, <1>1, <1>2 DEF Distinct, UploadOK, Queued
  <2> QED
    BY <1>0a, <2>1 DEF Queued, Busy
<1>6. Apart(S)
  BY <1>2 DEF UploadOK, Apart
<1>7. Counted(R[e], Left(Q, e)) /\ Truthful(R[e], Left(Q, e), p, u)
  BY <1>1 DEF UploadOK
<1>8. IsFiniteSet(Left(Q, e)) /\ Cardinality(Left(L, e)) = Cardinality(Left(Q, e)) - 1
      /\ Cardinality(Left(L, e)) \in Nat /\ Cardinality(Left(Q, e)) \in Nat
      /\ (Cardinality(Left(L, e)) = 0 <=> Left(L, e) = {})
  <2>1. IsFiniteSet(Left(Q, e))
    BY <1>7, FS_Subset DEF Counted
  <2>2. IsFiniteSet(Left(L, e)) /\ Cardinality(Left(L, e)) = Cardinality(Left(Q, e)) - 1
    <3>1. /\ IsFiniteSet(Left(Q, e) \ {f})
          /\ Cardinality(Left(Q, e) \ {f}) =
               IF f \in Left(Q, e) THEN Cardinality(Left(Q, e)) - 1 ELSE Cardinality(Left(Q, e))
      BY <2>1, FS_RemoveElement, Zenon
    <3> HIDE DEF e, f
    <3> QED
      BY <3>1, <1>3, <1>4
  <2> QED
    BY <2>1, <2>2, FS_EmptySet, FS_CardinalityType
<1>9. R[e].done \in Nat /\ Cardinality(R[e].files) \in Nat
  <2>1. R[e] \in RecordType
    BY <1>1
  <2> QED
    BY <1>7, <2>1, FS_CardinalityType DEF RecordType, Counted
<1>10. R[e].done + 1 = Cardinality(R[e].files) <=> Left(L, e) = {}
  <2>1. R[e].done + Cardinality(Left(Q, e)) = Cardinality(R[e].files)
    BY <1>7 DEF Counted
  <2> HIDE DEF e, f
  <2> QED
    BY <1>8, <1>9, <2>1
<1>11. Counted(now, Left(L, e))
  <2>1. Left(L, e) \subseteq now.files /\ now.failed \subseteq now.files \ Left(L, e)
    BY <1>0, <1>3, <1>4, <1>7 DEF Counted, Counts
  <2>2. IsFiniteSet(now.files) /\ now.done + Cardinality(Left(L, e)) = Cardinality(now.files)
    BY <1>0, <1>7, <1>8, <1>9 DEF Counted, Counts
  <2>3. now.files # {} /\ R[e].state = "loading"
    BY <1>0, <1>4, <1>7 DEF Counted, Counts
  <2>4. now.state = "loading" <=> Left(L, e) # {}
    BY <1>0, <1>10, <2>3 DEF Counts, Settled
  <2> QED
    BY <2>1, <2>2, <2>3, <2>4 DEF Counted
<1>12. Truthful(now, Left(L, e), p, u)
  <2>1. x = "loaded" => f \in p
    BY DEF UploadOK, InHand
  <2>2. x = "error" /\ f \in p => f \in u
    BY DEF UploadOK, InHand
  <2>3. (now.files \ Left(L, e)) \ now.failed \subseteq p
    BY <1>0, <1>3, <1>7, <2>1 DEF Counts, Truthful
  <2>4. now.failed \cap p \subseteq u
    BY <1>0, <1>7, <2>2 DEF Counts, Truthful
  <2> QED
    BY <2>3, <2>4 DEF Truthful
<1>13. \A i \in DOMAIN S : Counted(S[i], Left(L, i)) /\ Truthful(S[i], Left(L, i), p, u)
  BY <1>2, <1>3, <1>11, <1>12 DEF UploadOK
<1>14. InHand(L, y, p, u)
  <2>1. \A q \in L : q.file \notin p
    BY <1>0a DEF UploadOK, InHand
  <2>2. L # {} => First(L) \in L
    BY <1>0a, <1>5, FirstIn DEF Queued
  <2> QED
    BY <1>0a, <2>1, <2>2 DEF InHand
<1>15. L = {} => Left(L, e) = {}
  BY DEF Left
<1>16. R # << >> /\ S # << >>
  BY <1>1, <1>2
<1>17. UploadOK(S, L, y, p, u)
  BY <1>5, <1>6, <1>13, <1>14, <1>16 DEF UploadOK
<1> QED
  BY <1>10, <1>15, <1>17

\* What a drop makes of its entries: nothing of them has been sent.
Begins(d, offer, R, Q) ==
  /\ R = [i \in DOMAIN offer |->
       [dest |-> d, files |-> {offer[i].files[n] : n \in Files(offer[i])},
        done |-> 0, failed |-> {}, state |-> "loading"]]
  /\ Q = UNION {
       {[entry |-> i, place |-> n, file |-> offer[i].files[n]] : n \in Files(offer[i])} :
         i \in DOMAIN offer}

\* A folder without files.
Bare(R) == \E i \in DOMAIN R : R[i].files = {}

LEMMA Begun ==
  ASSUME NEW d \in Dirs, NEW offer \in Offers[d],
         NEW R, NEW Q, Begins(d, offer, R, Q)
  PROVE  /\ R \in Seq(RecordType) /\ Q \in SUBSET Sent /\ DOMAIN R = DOMAIN offer /\ R # << >>
         /\ DOMAIN offer = 1 .. Len(offer) /\ Len(offer) \in Nat
         /\ \A x, u : x = (IF Q = {} THEN "over" ELSE "sent") => UploadOK(R, Q, x, {}, u)
         /\ Q = {} => Bare(R)
<1>1. IsOffer(offer)
  BY TabAssumption
<1>2. /\ offer # << >> /\ Len(offer) \in Nat /\ DOMAIN offer = 1 .. Len(offer)
      /\ \A i \in DOMAIN offer : offer[i] \in [folder : BOOLEAN, files : Seq(Targets \cup Hidden)]
  <2> DEFINE Entry == [folder : BOOLEAN, files : Seq(Targets \cup Hidden)]
  <2>1. offer \in Seq(Entry) /\ offer # << >>
    BY <1>1 DEF IsOffer
  <2> HIDE DEF Entry
  <2>2. Len(offer) \in Nat /\ DOMAIN offer = 1 .. Len(offer) /\ \A i \in DOMAIN offer : offer[i] \in Entry
    BY <2>1
  <2> QED
    BY <2>1, <2>2 DEF Entry
<1>3. DOMAIN offer # {}
  BY <1>1 DEF IsOffer
<1>4. ASSUME NEW i \in DOMAIN offer, NEW n \in Files(offer[i])
      PROVE  n \in DOMAIN offer[i].files /\ n \in Nat /\ offer[i].files[n] \in Targets
  <2>1. offer[i].files \in Seq(Targets \cup Hidden) /\ offer[i].folder \in BOOLEAN
    BY <1>2
  <2>2. n \in DOMAIN offer[i].files /\ n \in Nat
    BY <2>1 DEF Files
  <2>3. offer[i].files[n] \in Targets \cup Hidden
    BY <2>1, <2>2
  <2>4. CASE offer[i].folder
    BY <2>2, <2>3, <2>4 DEF Files
  <2>5. CASE ~offer[i].folder
    BY <1>1, <2>2, <2>5 DEF IsOffer, Range
  <2> QED
    BY <2>2, <2>4, <2>5
<1>5. \A q \in Q : \E i \in DOMAIN offer : \E n \in Files(offer[i]) :
        q = [entry |-> i, place |-> n, file |-> offer[i].files[n]]
  BY DEF Begins
<1>6. Q \in SUBSET Sent
  BY <1>2, <1>4, <1>5 DEF Sent
<1>7. Distinct(Q) /\ \A q \in Q : q.entry \in DOMAIN offer
  <2>1. ASSUME NEW p \in Q, NEW q \in Q,
               p.file = q.file \/ (p.entry = q.entry /\ p.place = q.place)
        PROVE  p = q
    <3>1. PICK i \in DOMAIN offer : \E n \in Files(offer[i]) :
            p = [entry |-> i, place |-> n, file |-> offer[i].files[n]]
      BY <1>5
    <3>2. PICK n \in Files(offer[i]) : p = [entry |-> i, place |-> n, file |-> offer[i].files[n]]
      BY <3>1
    <3>3. PICK j \in DOMAIN offer : \E m \in Files(offer[j]) :
            q = [entry |-> j, place |-> m, file |-> offer[j].files[m]]
      BY <1>5
    <3>4. PICK m \in Files(offer[j]) : q = [entry |-> j, place |-> m, file |-> offer[j].files[m]]
      BY <3>3
    <3>5. n \in DOMAIN offer[i].files /\ m \in DOMAIN offer[j].files
      BY <1>4
    <3>6. i = j /\ n = m
      BY <1>1, <2>1, <3>2, <3>4, <3>5 DEF IsOffer
    <3> QED
      BY <3>2, <3>4, <3>6
  <2>2. \A q \in Q : q.entry \in DOMAIN offer
    BY <1>5
  <2> QED
    BY <2>1, <2>2 DEF Distinct
<1>8. \A i \in DOMAIN offer :
        R[i].files = {offer[i].files[n] : n \in Files(offer[i])} /\ R[i].failed = {}
        /\ R[i].done = 0 /\ R[i].state = "loading"
  BY DEF Begins
<1>9. ASSUME NEW i \in DOMAIN offer PROVE R[i] \in RecordType
  <2>1. {offer[i].files[n] : n \in Files(offer[i])} \in SUBSET Targets
    BY <1>4
  <2>2. R[i] = [dest |-> d, files |-> {offer[i].files[n] : n \in Files(offer[i])},
                done |-> 0, failed |-> {}, state |-> "loading"]
    BY DEF Begins
  <2> QED
    BY <2>1, <2>2 DEF RecordType
<1>10. DOMAIN R = DOMAIN offer /\ R # << >> /\ R \in Seq(RecordType)
  <2>1. R \in [1 .. Len(offer) -> RecordType]
    BY <1>2, <1>9 DEF Begins
  <2> QED
    BY <1>2, <1>3, <2>1
<1>11. ASSUME NEW i \in DOMAIN offer PROVE Left(Q, i) = R[i].files
  <2>1. ASSUME NEW f \in Left(Q, i) PROVE f \in R[i].files
    <3>1. PICK q \in Q : q.entry = i /\ q.file = f
      BY DEF Left
    <3> QED
      BY <1>5, <1>8, <3>1
  <2>2. ASSUME NEW f \in R[i].files PROVE f \in Left(Q, i)
    <3>1. PICK n \in Files(offer[i]) : f = offer[i].files[n]
      BY <1>8
    <3>2. PICK q : q = [entry |-> i, place |-> n, file |-> offer[i].files[n]]
      OBVIOUS
    <3>3. q \in Q
      BY <3>2 DEF Begins
    <3> QED
      BY <3>1, <3>2, <3>3 DEF Left
  <2> QED
    BY <2>1, <2>2
<1>12. ASSUME NEW i \in DOMAIN offer PROVE IsFiniteSet(R[i].files)
  <2> DEFINE g == [n \in Files(offer[i]) |-> offer[i].files[n]]
  <2>1. IsFiniteSet(Files(offer[i]))
    <3>1. offer[i].files \in Seq(Targets \cup Hidden)
      BY <1>2
    <3>2. Len(offer[i].files) \in Nat /\ DOMAIN offer[i].files = 1 .. Len(offer[i].files)
      BY <3>1
    <3>3. IsFiniteSet(1 .. Len(offer[i].files))
      BY <3>2, FS_Interval
    <3>4. Files(offer[i]) \in SUBSET (1 .. Len(offer[i].files))
      BY <3>2 DEF Files
    <3> QED
      BY <3>3, <3>4, FS_Subset
  <2>2. g \in Surjection(Files(offer[i]), R[i].files)
    BY <1>8 DEF Surjection
  <2> QED
    BY <2>1, <2>2, FS_Surjection DEF ExistsSurjection
<1>13. \A u : \A i \in DOMAIN R : Counted(R[i], Left(Q, i)) /\ Truthful(R[i], Left(Q, i), {}, u)
  <2> SUFFICES ASSUME NEW i \in DOMAIN offer, NEW u
               PROVE  Counted(R[i], Left(Q, i)) /\ Truthful(R[i], Left(Q, i), {}, u)
    BY <1>10
  <2>1. Cardinality(R[i].files) \in Nat
    BY <1>12, FS_CardinalityType
  <2>2. R[i].done + Cardinality(Left(Q, i)) = Cardinality(R[i].files)
    BY <2>1, <1>8, <1>11
  <2> QED
    BY <2>2, <1>8, <1>11, <1>12 DEF Counted, Truthful
<1>14. Apart(R)
  <2>1. ASSUME NEW i \in DOMAIN offer, NEW j \in DOMAIN offer, i # j
        PROVE  R[i].files \cap R[j].files = {}
    <3>1. ASSUME NEW n \in Files(offer[i]), NEW m \in Files(offer[j]),
                 offer[i].files[n] = offer[j].files[m]
          PROVE  FALSE
      <4>1. n \in DOMAIN offer[i].files /\ m \in DOMAIN offer[j].files
        BY <1>4
      <4> QED
        BY <1>1, <2>1, <3>1, <4>1 DEF IsOffer
    <3> QED
      BY <1>8, <3>1
  <2> QED
    BY <1>10, <2>1 DEF Apart
<1>15. \A x, u : x = (IF Q = {} THEN "over" ELSE "sent") => Queued(R, Q, x) /\ InHand(Q, x, {}, u)
  BY <1>7, <1>10 DEF Queued, InHand, Busy
<1>16. Q = {} => \E i \in DOMAIN R : R[i].files = {}
  <2> SUFFICES ASSUME Q = {} PROVE \E i \in DOMAIN R : R[i].files = {}
    OBVIOUS
  <2>1. PICK i \in DOMAIN offer : TRUE
    BY <1>3
  <2>2. Left(Q, i) = {}
    BY DEF Left
  <2> QED
    BY <1>10, <1>11, <2>2
<1> QED
  BY <1>2, <1>6, <1>10, <1>13, <1>14, <1>15, <1>16 DEF UploadOK, Bare

-----------------------------------------------------------------------------
(* The records that are kept, and the uploads of the tab.                  *)

LEMMA NewestKept ==
  ASSUME EntryLimit \in Nat, NEW E, NEW s \in Seq(E)
  PROVE  Newest(s) \in Seq(E) /\ Len(Newest(s)) <= EntryLimit
<1>1. Len(s) \in Nat /\ s \in [1 .. Len(s) -> E]
  BY LenProperties
<1>2. CASE Len(s) > EntryLimit
  <2> DEFINE m == Len(s) - EntryLimit + 1
  <2>1. m \in Int /\ m > 1 /\ Len(s) \in Int /\ Len(s) - m + 1 = EntryLimit
    BY <1>1, <1>2
  <2> HIDE DEF m
  <2>2. \A i \in m .. Len(s) : s[i] \in E
    BY <1>1, <2>1
  <2>3. SubSeq(s, m, Len(s)) \in Seq(E)
        /\ Len(SubSeq(s, m, Len(s))) = IF m <= Len(s) THEN Len(s) - m + 1 ELSE 0
    BY <2>1, <2>2, SubSeqProperties
  <2>4. Newest(s) = SubSeq(s, m, Len(s))
    BY <1>2 DEF Newest, m
  <2> QED
    BY <2>1, <2>3, <2>4
<1>3. CASE ~(Len(s) > EntryLimit)
  BY <1>1, <1>3 DEF Newest
<1> QED
  BY <1>2, <1>3

LEMMA OneKept ==
  ASSUME EntryLimit \in Nat, NEW E, NEW s \in Seq(E), NEW e \in E
  PROVE  Keep(s, e) \in Seq(E) /\ Len(Keep(s, e)) <= EntryLimit
<1>1. Len(s) \in Nat /\ s \in [1 .. Len(s) -> E] /\ DOMAIN s = 1 .. Len(s)
  BY LenProperties
<1>2. Without(s, e) \in Seq(E)
  <2>1. CASE \E i \in DOMAIN s : s[i] = e
    <3>1. PICK i \in DOMAIN s : i = CHOOSE j \in DOMAIN s : s[j] = e
      BY <2>1
    <3>2. i \in Int /\ i - 1 \in Int /\ i + 1 \in Int /\ 1 \in Int /\ Len(s) \in Int
      BY <1>1
    <3>3. \A j \in 1 .. i - 1 : s[j] \in E
      BY <1>1, <3>2
    <3>4. \A j \in i + 1 .. Len(s) : s[j] \in E
      BY <1>1, <3>2
    <3>5. SubSeq(s, 1, i - 1) \in Seq(E) /\ SubSeq(s, i + 1, Len(s)) \in Seq(E)
      BY <3>2, <3>3, <3>4, SubSeqProperties
    <3>6. SubSeq(s, 1, i - 1) \o SubSeq(s, i + 1, Len(s)) \in Seq(E)
      BY <3>5, ConcatProperties
    <3> QED
      BY <2>1, <3>1, <3>6 DEF Without, RemoveAt
  <2>2. CASE ~(\E i \in DOMAIN s : s[i] = e)
    BY <2>2 DEF Without
  <2> QED
    BY <2>1, <2>2
<1>3. Append(Without(s, e), e) \in Seq(E)
  BY <1>2, AppendProperties
<1> QED
  BY <1>3, NewestKept DEF Keep

\* A sequence of elements of a set is one of elements of a larger.
LEMMA WiderSeq ==
  ASSUME NEW E, NEW F, E \subseteq F, NEW s \in Seq(E)
  PROVE  s \in Seq(F)
<1>1. Len(s) \in Nat /\ s \in [1 .. Len(s) -> E]
  BY LenProperties
<1>2. s \in [1 .. Len(s) -> F]
  BY <1>1
<1> QED
  BY <1>1, <1>2

Uploads == {"none", "sent", "loaded", "error", "over", "done"}

\* An upload that gets on leaves the others alone; it has the records it had, or more.
LEMMA OneCall ==
  ASSUME SendingTypes, SendInv, NEW k \in Calls, NEW R \in Seq(RecordType), NEW Q \in SUBSET Sent,
         NEW x \in Uploads, NEW a \in 0 .. Retries, NEW p \in SUBSET Targets, NEW u \in SUBSET Targets,
         records' = [records EXCEPT ![k] = R], queue' = [queue EXCEPT ![k] = Q],
         xhr' = [xhr EXCEPT ![k] = x], attempt' = [attempt EXCEPT ![k] = a],
         put' = [put EXCEPT ![k] = p], unsure' = [unsure EXCEPT ![k] = u],
         UploadOK(R, Q, x, p, u), DOMAIN records[k] \subseteq DOMAIN R,
         Len(lru') <= EntryLimit, lru' \in Seq(Entries')
  PROVE  SendingTypes' /\ SendInv'
<1>1. /\ records' \in [Calls -> Seq(RecordType)] /\ queue' \in [Calls -> SUBSET Sent]
      /\ attempt' \in [Calls -> 0 .. Retries] /\ xhr' \in [Calls -> Uploads]
      /\ put' \in [Calls -> SUBSET Targets] /\ unsure' \in [Calls -> SUBSET Targets]
  BY DEF SendingTypes, Uploads
<1>2. SendingTypes'
  BY <1>1 DEF SendingTypes, Uploads
<1>3. ASSUME NEW j \in Calls
      PROVE  UploadOK(records'[j], queue'[j], xhr'[j], put'[j], unsure'[j])
  <2>1. CASE j = k
    BY <2>1 DEF SendingTypes
  <2>2. CASE j # k
    <3>1. /\ records'[j] = records[j] /\ queue'[j] = queue[j] /\ xhr'[j] = xhr[j]
          /\ put'[j] = put[j] /\ unsure'[j] = unsure[j]
      BY <2>2 DEF SendingTypes
    <3> QED
      BY <3>1 DEF SendInv
  <2> QED
    BY <2>1, <2>2
<1> QED
  BY <1>2, <1>3 DEF SendInv

LEMMA SameEntries ==
  ASSUME NEW k \in Calls, NEW R, DOMAIN records[k] \subseteq DOMAIN R, records \in [Calls -> Seq(RecordType)],
         records' = [records EXCEPT ![k] = R]
  PROVE  /\ Entries \subseteq Entries' /\ \A i \in DOMAIN R : <<k, i>> \in Entries'
         /\ DOMAIN records[k] = DOMAIN R => Entries' = Entries
         /\ \A e \in Entries' \ Entries : e[1] = k
<1>1. \A j \in Calls : DOMAIN records[j] \subseteq DOMAIN records'[j] /\ (j # k => records'[j] = records[j])
  OBVIOUS
<1>2. records'[k] = R
  OBVIOUS
<1>3. Entries' = UNION {{j} \X DOMAIN records'[j] : j \in Calls}
  BY DEF Entries, Calls
<1>4. \A e : e \in Entries' <=> \E j \in Calls : e \in {j} \X DOMAIN records'[j]
  BY <1>3
<1>5. \A e : e \in Entries <=> \E j \in Calls : e \in {j} \X DOMAIN records[j]
  BY DEF Entries
<1>6. Entries \subseteq Entries' /\ \A i \in DOMAIN R : <<k, i>> \in Entries'
  BY <1>1, <1>2, <1>4, <1>5
<1>7. ASSUME NEW e \in Entries', e \notin Entries \/ DOMAIN records[k] = DOMAIN R
      PROVE  e \in Entries \/ (e[1] = k /\ e \notin Entries)
  <2>1. PICK j \in Calls : e \in {j} \X DOMAIN records'[j]
    BY <1>4
  <2>2. e[1] = j
    BY <2>1
  <2> QED
    BY <2>1, <2>2, <1>1, <1>2, <1>5, <1>7
<1>8. ASSUME DOMAIN records[k] = DOMAIN R PROVE Entries' \subseteq Entries
  BY <1>1, <1>2, <1>4, <1>5, <1>8
<1> QED
  BY <1>6, <1>7, <1>8

\* The file at hand is done with: the upload goes on to the next, or is over.
LEMMA FileDoneStep ==
  ASSUME TabAssumption, SendingTypes, SendInv, NEW k \in Calls, NEW x \in {"loaded", "error"},
         NEW u \in SUBSET Targets, UploadOK(records[k], queue[k], x, put[k], u),
         FileDone(k, x), put' = put, unsure' = [unsure EXCEPT ![k] = u]
  PROVE  /\ SendingTypes' /\ SendInv' /\ Entries' = Entries
         /\ \A j \in Calls : Started(j)' <=> Started(j)
         /\ \A e \in Entries : records'[e[1]][e[2]].files = records[e[1]][e[2]].files
         /\ queue'[k] = {} => timer' \/ InProgress(lru', records')
         /\ timer => timer'
<1>1. PICK f : f = First(queue[k])
  OBVIOUS
<1>2. PICK i : i = f.entry
  OBVIOUS
<1>3. PICK R : R = records[k]
  OBVIOUS
<1>4. PICK Q : Q = queue[k]
  OBVIOUS
<1>5. R \in Seq(RecordType) /\ Q \in SUBSET Sent
  BY <1>3, <1>4 DEF SendingTypes
<1>6. f \in Q /\ f.file \in Targets /\ i \in DOMAIN R /\ UploadOK(R, Q, x, put[k], u)
  BY <1>1, <1>2, <1>3, <1>4, <1>5, FirstIn DEF UploadOK, Queued, Busy
<1>7. PICK failed : failed = IF x = "error" THEN R[i].failed \cup {f.file} ELSE R[i].failed
  OBVIOUS
<1>8. PICK over \in BOOLEAN : over <=> R[i].done + 1 = Cardinality(R[i].files)
  OBVIOUS
<1>8a. PICK state : state = IF over THEN Settled(R[i].files, failed) ELSE R[i].state
  OBVIOUS
<1>9. PICK now : now = [R[i] EXCEPT !.done = @ + 1, !.failed = failed, !.state = state]
  OBVIOUS
<1>10. PICK S : S = [R EXCEPT ![i] = now]
  OBVIOUS
<1>11. /\ records' = [records EXCEPT ![k] = S]
       /\ queue' = [queue EXCEPT ![k] = Q \ {f}]
       /\ xhr' = [xhr EXCEPT ![k] = IF Q \ {f} = {} THEN "over" ELSE "sent"]
       /\ attempt' = [attempt EXCEPT ![k] = 0]
       /\ lru' = IF over THEN Keep(lru, <<k, i>>) ELSE lru
       /\ timer' = (timer \/ (over /\ ~InProgress(lru', records')))
  BY <1>1, <1>2, <1>3, <1>4, <1>7, <1>8, <1>8a, <1>9, <1>10 DEF FileDone
<1>12. R[i] \in RecordType
  BY <1>5, <1>6
<1>13. now \in RecordType /\ Counts(R[i], f.file, x, now)
  <2>1. failed \in SUBSET Targets
    BY <1>6, <1>7, <1>12 DEF RecordType
  <2>2. /\ now.dest = R[i].dest /\ now.files = R[i].files /\ now.done = R[i].done + 1
        /\ now.failed = failed /\ now.state = state
    BY <1>9, <1>12 DEF RecordType
  <2>3. state \in {"loading", "loaded", "error"}
    BY <1>8a, <1>12 DEF Settled, RecordType
  <2>4. now \in RecordType
    <3>1. R[i].done + 1 \in Nat
      BY <1>12 DEF RecordType
    <3> QED
      BY <1>9, <1>12, <2>1, <2>3, <3>1 DEF RecordType
  <2> QED
    BY <1>7, <1>8, <1>8a, <2>2, <2>4 DEF Counts
<1>14. /\ UploadOK(S, Q \ {f}, IF Q \ {f} = {} THEN "over" ELSE "sent", put[k], u)
       /\ Q \ {f} = {} => over
  <2>1. f = First(Q) /\ i = First(Q).entry /\ f.file = First(Q).file
    BY <1>1, <1>2, <1>4
  <2>2. PICK L : L = Q \ {f}
    OBVIOUS
  <2>3. PICK y : y = IF L = {} THEN "over" ELSE "sent"
    OBVIOUS
  <2>4. Counts(R[First(Q).entry], First(Q).file, x, now) /\ S = [R EXCEPT ![First(Q).entry] = now]
    BY <1>10, <1>13, <2>1
  <2>5. Finishes(R, Q, x, S, L, y)
    BY <1>13, <2>1, <2>2, <2>3, <2>4 DEF Finishes
  <2>6. PICK p : p = put[k]
    OBVIOUS
  <2>7. R \in Seq(RecordType) /\ Q \in SUBSET Sent /\ UploadOK(R, Q, x, p, u) /\ x \in {"loaded", "error"}
    BY <1>5, <1>6, <2>6
  <2>8. /\ UploadOK(S, L, y, p, u)
        /\ L = {} => R[First(Q).entry].done + 1 = Cardinality(R[First(Q).entry].files)
    BY <2>5, <2>7, Done, SMTT(30)
  <2> QED
    <3>1. UploadOK(S, Q \ {f}, IF Q \ {f} = {} THEN "over" ELSE "sent", put[k], u)
      BY <2>2, <2>3, <2>6, <2>8, Zenon
    <3>2. Q \ {f} = {} => R[i].done + 1 = Cardinality(R[i].files)
      BY <2>1, <2>2, <2>8, Zenon
    <3> QED
      BY <1>8, <3>1, <3>2
<1>15. S \in Seq(RecordType) /\ DOMAIN S = DOMAIN R /\ S # << >> /\ R # << >>
       /\ \A j \in DOMAIN R : S[j].files = R[j].files
  <2>1. S \in Seq(RecordType)
    BY <1>5, <1>6, <1>10, <1>13
  <2>2. DOMAIN S = DOMAIN R /\ \A j \in DOMAIN R : S[j].files = R[j].files
    BY <1>6, <1>10, <1>13 DEF Counts
  <2> QED
    BY <1>6, <2>1, <2>2
<1>16. Entries' = Entries /\ <<k, i>> \in Entries'
  BY <1>3, <1>6, <1>11, <1>15, SameEntries DEF SendingTypes
<1>17. lru' \in Seq(Entries') /\ Len(lru') <= EntryLimit
  <2>1. EntryLimit \in Nat /\ lru \in Seq(Entries) /\ Len(lru) <= EntryLimit
    BY DEF TabAssumption, SendingTypes
  <2>2. Keep(lru, <<k, i>>) \in Seq(Entries) /\ Len(Keep(lru, <<k, i>>)) <= EntryLimit
    BY <1>16, <2>1, OneKept
  <2> QED
    BY <1>11, <1>16, <2>1, <2>2
<1>18. SendingTypes' /\ SendInv'
  <2>1. /\ Q \ {f} \in SUBSET Sent /\ 0 \in 0 .. Retries /\ put[k] \in SUBSET Targets
        /\ (IF Q \ {f} = {} THEN "over" ELSE "sent") \in Uploads
    BY <1>5 DEF TabAssumption, SendingTypes, Uploads
  <2>2. put' = [put EXCEPT ![k] = put[k]]
    BY DEF SendingTypes
  <2>3. DOMAIN records[k] \subseteq DOMAIN S
    BY <1>3, <1>15
  <2> QED
    BY <1>11, <1>14, <1>15, <1>17, <2>1, <2>2, <2>3, OneCall
<1>19. \A j \in Calls : Started(j)' <=> Started(j)
  BY <1>3, <1>11, <1>15 DEF Started, SendingTypes
<1>20. \A e \in Entries : records'[e[1]][e[2]].files = records[e[1]][e[2]].files
  <2>1. \A j \in Calls : \A n \in DOMAIN records[j] : records'[j][n].files = records[j][n].files
    BY <1>3, <1>11, <1>15 DEF SendingTypes
  <2> QED
    BY <2>1 DEF Entries
<1>21. queue'[k] = Q \ {f}
  BY <1>11 DEF SendingTypes
<1>22. queue'[k] = {} => timer' \/ InProgress(lru', records')
  BY <1>11, <1>14, <1>21
<1> QED
  BY <1>11, <1>16, <1>18, <1>19, <1>20, <1>22

\* Every upload that has begun comes after those that began before.
LEMMA BeganBefore ==
  ASSUME TabAssumption, TellInv, TrackerTypes, NEW k \in Calls, \A j \in 1 .. k - 1 : Started(j), ~Started(k)
  PROVE  since <= k
<1>1. MaxUploads \in Nat /\ k \in Nat /\ since \in Nat /\ k \in 1 .. MaxUploads
  BY DEF TabAssumption, TrackerTypes, Calls
<1>2. CASE since > k
  <2>1. since \in Calls /\ Started(since)
    BY <1>1, <1>2 DEF TellInv, TrackerTypes
  <2>2. k \in 1 .. since - 1
    BY <1>1, <1>2
  <2>3. Started(k)
    BY <2>1, <2>2 DEF TellInv
  <2> QED
    BY <2>3
<1> QED
  BY <1>1, <1>2

\* A drop.
LEMMA UploadStep ==
  ASSUME TabAssumption, SendingTypes, SendInv, TrackerTypes, TellInv, cwd \in Dirs,
         NEW k \in Calls, Upload(k)
  PROVE  SendingTypes' /\ SendInv' /\ TrackerTypes' /\ TellInv'
<1>1. PICK offer \in Offers[cwd] :
        /\ records' = [records EXCEPT ![k] =
             [i \in DOMAIN offer |->
                [dest |-> cwd, files |-> {offer[i].files[n] : n \in Files(offer[i])},
                 done |-> 0, failed |-> {}, state |-> "loading"]]]
        /\ queue' = [queue EXCEPT ![k] = UNION {
             {[entry |-> i, place |-> n, file |-> offer[i].files[n]] : n \in Files(offer[i])} :
               i \in DOMAIN offer}]
        /\ lru' = Newest(lru \o [i \in DOMAIN offer |-> <<k, i>>])
  BY DEF Upload
<1>2. PICK d \in Dirs : d = cwd
  OBVIOUS
<1>3. PICK R : R = [i \in DOMAIN offer |->
        [dest |-> d, files |-> {offer[i].files[n] : n \in Files(offer[i])},
         done |-> 0, failed |-> {}, state |-> "loading"]]
  OBVIOUS
<1>4. PICK Q : Q = UNION {
        {[entry |-> i, place |-> n, file |-> offer[i].files[n]] : n \in Files(offer[i])} :
          i \in DOMAIN offer}
  OBVIOUS
<1>5. PICK x : x = IF Q = {} THEN "over" ELSE "sent"
  OBVIOUS
<1>6. records' = [records EXCEPT ![k] = R] /\ queue' = [queue EXCEPT ![k] = Q]
  BY <1>1, <1>2, <1>3, <1>4, Zenon
<1>7. PICK u : u = unsure[k]
  OBVIOUS
<1>8. offer \in Offers[d]
  BY <1>2
<1>9. /\ R \in Seq(RecordType) /\ Q \in SUBSET Sent /\ DOMAIN R = DOMAIN offer /\ R # << >>
      /\ DOMAIN offer = 1 .. Len(offer) /\ Len(offer) \in Nat
      /\ UploadOK(R, Q, x, {}, u)
      /\ Q = {} => Bare(R)
  <2>1. Begins(d, offer, R, Q)
    BY <1>3, <1>4, Zenon DEF Begins
  <2>2. /\ R \in Seq(RecordType) /\ Q \in SUBSET Sent /\ DOMAIN R = DOMAIN offer /\ R # << >>
        /\ DOMAIN offer = 1 .. Len(offer) /\ Len(offer) \in Nat
        /\ Q = {} => Bare(R)
    BY <1>8, <2>1, Begun
  <2>3. UploadOK(R, Q, x, {}, u)
    BY <1>5, <1>8, <2>1, Begun
  <2> QED
    BY <2>2, <2>3
<1>10. records[k] = << >> /\ put[k] = {} /\ UNCHANGED <<attempt, put, unsure, timer, visible, told>>
       /\ (\A j \in 1 .. k - 1 : Started(j)) /\ since' = Since(k)
  BY DEF Upload, SendInv, UploadOK, history, Started
<1>11. queue'[k] = Q /\ xhr' = [xhr EXCEPT ![k] = x]
  <2>1. queue'[k] = Q
    BY <1>6 DEF SendingTypes
  <2> QED
    BY <1>5, <2>1 DEF Upload
<1>12. /\ Entries \subseteq Entries' /\ \A i \in DOMAIN R : <<k, i>> \in Entries'
       /\ \A e \in Entries' \ Entries : e[1] = k
  <2>1. DOMAIN records[k] \subseteq DOMAIN R
    BY <1>10
  <2> QED
    BY <1>6, <2>1, SameEntries DEF SendingTypes
<1>13. lru' \in Seq(Entries') /\ Len(lru') <= EntryLimit
  <2>1. PICK more : more = [i \in DOMAIN offer |-> <<k, i>>]
    OBVIOUS
  <2>2. more \in Seq(Entries')
    <3>1. more \in [1 .. Len(offer) -> Entries']
      BY <1>9, <1>12, <2>1
    <3> QED
      BY <1>9, <3>1
  <2>3. lru \in Seq(Entries')
    BY <1>12, WiderSeq DEF SendingTypes
  <2>4. lru \o more \in Seq(Entries')
    BY <2>2, <2>3, ConcatProperties
  <2>5. lru' = Newest(lru \o more)
    BY <1>1, <2>1, Zenon
  <2>6. EntryLimit \in Nat
    BY DEF TabAssumption
  <2> QED
    BY <2>4, <2>5, <2>6, NewestKept
<1>14. SendingTypes' /\ SendInv'
  <2>1. x \in Uploads /\ attempt[k] \in 0 .. Retries /\ {} \in SUBSET Targets /\ u \in SUBSET Targets
    BY <1>5, <1>7 DEF SendingTypes, Uploads
  <2>2. /\ attempt' = [attempt EXCEPT ![k] = attempt[k]] /\ put' = [put EXCEPT ![k] = {}]
        /\ unsure' = [unsure EXCEPT ![k] = u]
    BY <1>7, <1>10 DEF SendingTypes
  <2>3. DOMAIN records[k] \subseteq DOMAIN R
    BY <1>10
  <2> QED
    BY <1>6, <1>9, <1>11, <1>13, <2>1, <2>2, <2>3, OneCall
<1>15. \A j \in Calls : Started(j)' <=> Started(j) \/ j = k
  BY <1>6, <1>9, <1>10 DEF Started, SendingTypes
<1>16. since \in Nat /\ k \in Nat /\ k # 0 /\ ~Started(k) /\ since <= k
  BY <1>10, BeganBefore DEF TrackerTypes, Calls, TabAssumption, Started
<1>17. since' \in Calls /\ Started(since)' /\ since' <= k /\ (since # 0 => since' = since)
  <2>1. CASE since = 0
    BY <1>10, <1>15, <1>16, <2>1 DEF Since
  <2>2. CASE since # 0
    BY <1>10, <1>15, <1>16, <2>2 DEF Since, TellInv, TrackerTypes
  <2> QED
    BY <2>1, <2>2
<1>18. TrackerTypes'
  BY <1>10, <1>12, <1>17 DEF TrackerTypes, Calls
<1>19. \A j \in Calls : Started(j)' => \A i \in 1 .. j - 1 : Started(i)'
  <2> SUFFICES ASSUME NEW j \in Calls, Started(j)', NEW i \in 1 .. j - 1 PROVE Started(i)'
    OBVIOUS
  <2>1. i \in Calls
    BY DEF Calls, TabAssumption
  <2>2. Started(i)
    BY <1>10, <1>15 DEF TellInv
  <2> QED
    BY <1>15, <2>1, <2>2
<1>20. \A e \in Entries' \ told' : since' # 0 /\ since' <= e[1]
  <2> SUFFICES ASSUME NEW e \in Entries', e \notin told PROVE since' # 0 /\ since' <= e[1]
    BY <1>10
  <2>1. CASE e \in Entries
    BY <1>16, <1>17, <2>1 DEF TellInv
  <2>2. CASE e \notin Entries
    BY <1>12, <1>16, <1>17, <2>2 DEF Calls
  <2> QED
    BY <2>1, <2>2
<1>21. EmptyDropped' \/ \E j \in Calls : queue'[j] # {}
  <2>1. CASE Q # {}
    BY <1>11, <2>1
  <2>2. CASE Q = {}
    <3>1. PICK i \in DOMAIN R : R[i].files = {}
      BY <1>9, <2>2 DEF Bare
    <3>2. records'[k] = R
      BY <1>6 DEF SendingTypes
    <3>3. PICK e \in Entries' : e = <<k, i>>
      BY <1>12
    <3>4. records'[e[1]][e[2]].files = {}
      BY <3>1, <3>2, <3>3
    <3> QED
      BY <3>4 DEF EmptyDropped, Record
  <2> QED
    BY <2>1, <2>2
<1>22. TellInv'
  BY <1>17, <1>19, <1>20, <1>21 DEF TellInv
<1> QED
  BY <1>14, <1>18, <1>22

\* The server handles a request.
LEMMA ServeStep ==
  ASSUME SendingTypes, SendInv, TrackerTypes, TellInv, NEW k \in Calls, Serve(k)
  PROVE  SendingTypes' /\ SendInv' /\ TrackerTypes' /\ TellInv'
<1>1. UNCHANGED <<records, queue, attempt, lru, since, timer, visible, told, unsure>>
  BY DEF Serve, tracker
<1>2. PICK R : R = records[k]
  OBVIOUS
<1>3. PICK Q : Q = queue[k]
  OBVIOUS
<1>4. PICK p : p = put[k]
  OBVIOUS
<1>5. PICK f : f = First(Q).file
  OBVIOUS
<1>6. UploadOK(R, Q, "sent", p, unsure[k]) /\ Q \in SUBSET Sent /\ R \in Seq(RecordType) /\ p \in SUBSET Targets
  BY <1>2, <1>3, <1>4 DEF Serve, SendInv, SendingTypes
<1>7. f \in Targets
  BY <1>5, <1>6, FirstIn DEF UploadOK, Queued, Busy
<1>8. UploadOK(R, Q, "loaded", p \cup {f}, unsure[k]) /\ UploadOK(R, Q, "error", p, unsure[k])
  BY <1>5, <1>6, Served
<1>9. PICK x \in {"loaded", "error"}, q \in SUBSET Targets :
        /\ xhr' = [xhr EXCEPT ![k] = x] /\ put' = [put EXCEPT ![k] = q]
        /\ UploadOK(R, Q, x, q, unsure[k])
  <2>1. CASE f \in stored
    <3>1. xhr' = [xhr EXCEPT ![k] = "error"] /\ put' = put
      BY <1>3, <1>5, <2>1 DEF Serve
    <3>2. put' = [put EXCEPT ![k] = p]
      BY <3>1, <1>4 DEF SendingTypes
    <3> QED
      BY <3>1, <3>2, <1>6, <1>8
  <2>2. CASE f \notin stored
    <3>1. xhr' = [xhr EXCEPT ![k] = "loaded"] /\ put' = [put EXCEPT ![k] = p \cup {f}]
      BY <1>3, <1>4, <1>5, <2>2 DEF Serve
    <3>2. p \cup {f} \in SUBSET Targets
      BY <1>6, <1>7
    <3> QED
      BY <3>1, <3>2, <1>8
  <2> QED
    BY <2>1, <2>2
<1>10. Entries' = Entries
  BY <1>1 DEF Entries, Calls
<1>11. SendingTypes' /\ SendInv'
  <2>1. /\ records' = [records EXCEPT ![k] = R] /\ queue' = [queue EXCEPT ![k] = Q]
        /\ attempt' = [attempt EXCEPT ![k] = attempt[k]] /\ unsure' = [unsure EXCEPT ![k] = unsure[k]]
    BY <1>1, <1>2, <1>3 DEF SendingTypes
  <2>2. lru' \in Seq(Entries') /\ Len(lru') <= EntryLimit
    BY <1>1, <1>10 DEF SendingTypes
  <2>3. x \in Uploads /\ attempt[k] \in 0 .. Retries /\ unsure[k] \in SUBSET Targets
        /\ DOMAIN records[k] \subseteq DOMAIN R
    BY <1>2 DEF SendingTypes, Uploads
  <2> QED
    BY <1>6, <1>9, <2>1, <2>2, <2>3, OneCall
<1>12. TrackerTypes' /\ TellInv'
  BY <1>1, <1>10 DEF TrackerTypes, TellInv, Started, EmptyDropped, Record
<1> QED
  BY <1>11, <1>12

\* The answer to an attempt, or the lack of one.
LEMMA AttemptStep ==
  ASSUME TabAssumption, SendingTypes, SendInv, TrackerTypes, TellInv, NEW k \in Calls, xhr[k] \in Busy,
         NEW x \in {"loaded", "error"}, NEW u \in SUBSET Targets, Attempted(k, x),
         UploadOK(records[k], queue[k], x, put[k], u), unsure' = [unsure EXCEPT ![k] = u],
         UNCHANGED <<put, visible, told>>
  PROVE  SendingTypes' /\ SendInv' /\ TrackerTypes' /\ TellInv'
<1>1. CASE Again(k, x) /\ attempt' = [attempt EXCEPT ![k] = @ + 1] /\ xhr' = [xhr EXCEPT ![k] = "sent"]
           /\ UNCHANGED <<records, queue, lru, since, timer, loads>>
  <2>1. PICK R : R = records[k]
    OBVIOUS
  <2>2. PICK Q : Q = queue[k]
    OBVIOUS
  <2>3. PICK p : p = put[k]
    OBVIOUS
  <2>4. UploadOK(R, Q, "sent", p, u) /\ R \in Seq(RecordType) /\ Q \in SUBSET Sent /\ p \in SUBSET Targets
    <3>1. R \in Seq(RecordType) /\ Q \in SUBSET Sent /\ p \in SUBSET Targets
      BY <2>1, <2>2, <2>3 DEF SendingTypes
    <3>2. UploadOK(R, Q, "error", p, u)
      BY <1>1, <2>1, <2>2, <2>3 DEF Again
    <3> QED
      BY <3>1, <3>2, Tried DEF Busy
  <2>5. PICK a \in 0 .. Retries : attempt' = [attempt EXCEPT ![k] = a]
    <3>1. attempt[k] + 1 \in 0 .. Retries
      BY <1>1 DEF Again, SendingTypes, TabAssumption
    <3> QED
      BY <1>1, <3>1
  <2>6. Entries' = Entries
    BY <1>1 DEF Entries, Calls
  <2>7. SendingTypes' /\ SendInv'
    <3>1. /\ records' = [records EXCEPT ![k] = R] /\ queue' = [queue EXCEPT ![k] = Q]
          /\ put' = [put EXCEPT ![k] = p]
      BY <1>1, <2>1, <2>2, <2>3 DEF SendingTypes
    <3>2. lru' \in Seq(Entries') /\ Len(lru') <= EntryLimit
      BY <1>1, <2>6 DEF SendingTypes
    <3>3. "sent" \in Uploads /\ DOMAIN records[k] \subseteq DOMAIN R
      BY <2>1 DEF Uploads
    <3> QED
      BY <1>1, <2>4, <2>5, <3>1, <3>2, <3>3, OneCall
  <2>8. TrackerTypes' /\ TellInv'
    BY <1>1, <2>6 DEF TrackerTypes, TellInv, Started, EmptyDropped, Record
  <2> QED
    BY <2>7, <2>8
<1>2. CASE FileDone(k, x)
  <2>1. /\ SendingTypes' /\ SendInv' /\ Entries' = Entries
        /\ \A j \in Calls : Started(j)' <=> Started(j)
        /\ \A e \in Entries : records'[e[1]][e[2]].files = records[e[1]][e[2]].files
        /\ queue'[k] = {} => timer' \/ InProgress(lru', records')
        /\ timer => timer'
    BY <1>2, FileDoneStep
  <2>2. since' = Since(k) /\ timer' \in BOOLEAN
    BY <1>2 DEF FileDone, TrackerTypes
  <2>3. Started(k)
    BY DEF Started, UploadOK, Queued, Busy
  <2>4. TrackerTypes'
    BY <2>1, <2>2 DEF TrackerTypes, Since
  <2>5. \A j \in Calls : Started(j)' => \A i \in 1 .. j - 1 : Started(i)'
    <3> SUFFICES ASSUME NEW j \in Calls, Started(j)', NEW i \in 1 .. j - 1 PROVE Started(i)'
      OBVIOUS
    <3>1. i \in Calls
      BY DEF Calls, TabAssumption
    <3>2. Started(i)
      BY <2>1 DEF TellInv
    <3> QED
      BY <2>1, <3>1, <3>2
  <2>6. since' # 0 => Started(since)'
    <3>1. since' \in Calls => Started(since')
      BY <2>2, <2>3 DEF Since, TellInv, TrackerTypes
    <3>2. since' \in Calls => records'[since'] # << >>
      BY <2>1, <3>1 DEF Started
    <3> QED
      BY <2>4, <3>2 DEF TrackerTypes, Started
  <2>7. \A e \in Entries' \ told' : since' # 0 /\ since' <= e[1]
    BY <2>1, <2>2 DEF TellInv, Since
  <2>8. timer' \/ EmptyDropped' \/ \E j \in Calls : queue'[j] # {}
    <3> SUFFICES ASSUME ~EmptyDropped', \A j \in Calls : queue'[j] = {} PROVE ~InProgress(lru', records')
      BY <2>1
    <3>1. ASSUME NEW e \in Entries' PROVE records'[e[1]][e[2]].state # "loading"
      <4>1. PICK j \in Calls : e[1] = j /\ e[2] \in DOMAIN records'[j]
        BY DEF Entries, Calls
      <4>2. UploadOK(records'[j], queue'[j], xhr'[j], put'[j], unsure'[j])
        BY <2>1 DEF SendInv
      <4>3. Counted(records'[j][e[2]], Left(queue'[j], e[2]))
        BY <4>1, <4>2 DEF UploadOK
      <4>4. Left(queue'[j], e[2]) = {}
        BY DEF Left
      <4>5. records'[j][e[2]].files # {}
        BY <4>1 DEF EmptyDropped, Record
      <4> QED
        BY <4>1, <4>3, <4>4, <4>5 DEF Counted
    <3>2. lru' \in Seq(Entries')
      BY <2>1 DEF SendingTypes
    <3> QED
      BY <3>1, <3>2 DEF InProgress
  <2>9. TellInv'
    BY <2>5, <2>6, <2>7, <2>8 DEF TellInv
  <2> QED
    BY <2>1, <2>4, <2>9
<1> QED
  BY <1>1, <1>2 DEF Attempted, Outcome

LEMMA AnswerStep ==
  ASSUME TabAssumption, SendingTypes, SendInv, TrackerTypes, TellInv,
         NEW k \in Calls, Answer(k) \/ Lose(k)
  PROVE  SendingTypes' /\ SendInv' /\ TrackerTypes' /\ TellInv'
<1>1. xhr[k] \in Busy /\ UNCHANGED <<put, visible, told>>
  BY DEF Answer, Lose, Busy, history
<1>2. UploadOK(records[k], queue[k], xhr[k], put[k], unsure[k])
  BY DEF SendInv
<1>3. unsure \in [Calls -> SUBSET Targets] /\ unsure[k] \in SUBSET Targets /\ queue[k] \in SUBSET Sent
  BY DEF SendingTypes
<1>4. CASE Answer(k)
  <2>1. unsure' = [unsure EXCEPT ![k] = unsure[k]]
    BY <1>3, <1>4 DEF Answer, history
  <2>2. PICK x \in {"loaded", "error"} : x = xhr[k]
    BY <1>4 DEF Answer
  <2>3. Attempted(k, x) /\ UploadOK(records[k], queue[k], x, put[k], unsure[k])
    BY <1>2, <1>4, <2>2 DEF Answer
  <2> QED
    BY <1>1, <1>3, <2>1, <2>3, AttemptStep
<1>5. CASE Lose(k)
  <2>1. PICK f : f = First(queue[k]).file
    OBVIOUS
  <2>2. f \in Targets
    BY <1>1, <1>2, <1>3, <2>1, FirstIn DEF UploadOK, Queued
  <2>3. PICK u \in SUBSET Targets : unsure' = [unsure EXCEPT ![k] = u]
                                   /\ UploadOK(records[k], queue[k], "error", put[k], u)
    <3>1. CASE xhr[k] = "loaded"
      <4>1. unsure' = [unsure EXCEPT ![k] = unsure[k] \cup {f}]
        BY <1>5, <2>1, <3>1 DEF Lose
      <4>2. UploadOK(records[k], queue[k], "error", put[k], unsure[k] \cup {f})
        BY <1>1, <1>2, <1>3, <2>1, Tried
      <4>3. unsure[k] \cup {f} \in SUBSET Targets
        BY <1>3, <2>2
      <4> QED
        BY <4>1, <4>2, <4>3
    <3>2. CASE xhr[k] = "sent"
      <4>1. unsure' = [unsure EXCEPT ![k] = unsure[k]]
        BY <1>3, <1>5, <3>2 DEF Lose
      <4>2. UploadOK(records[k], queue[k], "error", put[k], unsure[k])
        BY <1>1, <1>2, <1>3, <3>2, Tried
      <4> QED
        BY <1>3, <4>1, <4>2
    <3> QED
      BY <1>5, <3>1, <3>2 DEF Lose
  <2>4. Attempted(k, "error")
    BY <1>5 DEF Lose
  <2> QED
    BY <1>1, <2>3, <2>4, AttemptStep
<1> QED
  BY <1>4, <1>5

\* The end of an upload: nothing of it is left to send.
LEMMA EndStep ==
  ASSUME SendingTypes, SendInv, TrackerTypes, TellInv, NEW k \in Calls, End(k)
  PROVE  SendingTypes' /\ SendInv' /\ TrackerTypes' /\ TellInv'
<1>1. UNCHANGED <<records, queue, attempt, lru, since, timer, visible, told, put, unsure>>
      /\ xhr[k] = "over" /\ xhr' = [xhr EXCEPT ![k] = "done"]
  BY DEF End, tracker
<1>2. Entries' = Entries
  BY <1>1 DEF Entries, Calls
<1>3. UploadOK(records[k], queue[k], "done", put[k], unsure[k])
  <2>1. UploadOK(records[k], queue[k], "over", put[k], unsure[k])
    BY <1>1 DEF SendInv
  <2> QED
    BY <2>1 DEF UploadOK, Queued, InHand, Busy
<1>4. \A j \in Calls : UploadOK(records'[j], queue'[j], xhr'[j], put'[j], unsure'[j])
  <2> SUFFICES ASSUME NEW j \in Calls
               PROVE  UploadOK(records[j], queue[j], xhr'[j], put[j], unsure[j])
    BY <1>1
  <2>1. CASE j = k
    BY <1>1, <1>3, <2>1 DEF SendingTypes
  <2>2. CASE j # k
    BY <1>1, <2>2 DEF SendInv, SendingTypes
  <2> QED
    BY <2>1, <2>2
<1>5. SendingTypes' /\ SendInv'
  BY <1>1, <1>2, <1>4 DEF SendingTypes, SendInv
<1>6. TrackerTypes' /\ TellInv'
  BY <1>1, <1>2 DEF TrackerTypes, TellInv, Started, EmptyDropped, Record
<1> QED
  BY <1>5, <1>6

\* A toast, or the tracker that is shown or hidden.
LEMMA TrackerStep ==
  ASSUME SendingTypes, SendInv, TrackerTypes, TellInv, Toast \/ ToggleTracker
  PROVE  SendingTypes' /\ SendInv' /\ TrackerTypes' /\ TellInv'
<1>1. UNCHANGED <<records, queue, attempt, xhr, lru, put, unsure>>
  BY DEF Toast, ToggleTracker, sending, history
<1>2. Entries' = Entries
  BY <1>1 DEF Entries, Calls
<1>3. SendingTypes' /\ SendInv'
  BY <1>1, <1>2 DEF SendingTypes, SendInv
<1>4. CASE Toast
  <2>1. Entries' \subseteq told' /\ told' \subseteq Entries'
    BY <1>2, <1>4 DEF Toast, TellInv, TrackerTypes
  <2>2. since' = 0 /\ timer' = FALSE /\ visible' = visible
    BY <1>4 DEF Toast
  <2>3. TellInv'
    BY <1>1, <2>1, <2>2 DEF TellInv, Started
  <2> QED
    BY <1>3, <2>1, <2>2, <2>3 DEF TrackerTypes
<1>5. CASE ToggleTracker
  <2>1. UNCHANGED <<since, timer, told>> /\ visible' \in BOOLEAN
    BY <1>5 DEF ToggleTracker, TrackerTypes
  <2>2. TrackerTypes' /\ TellInv'
    BY <1>1, <1>2, <2>1 DEF TrackerTypes, TellInv, Started, EmptyDropped, Record
  <2> QED
    BY <1>3, <2>2
<1> QED
  BY <1>4, <1>5

LEMMA SendStep ==
  ASSUME TabAssumption, WebInv, [Next]_tab
  PROVE  SendingTypes' /\ SendInv' /\ TrackerTypes' /\ TellInv'
<1> USE DEF WebInv
<1>1. ASSUME UNCHANGED <<sending, tracker, put, unsure>>
      PROVE  SendingTypes' /\ SendInv' /\ TrackerTypes' /\ TellInv'
  <2>1. Entries' = Entries
    BY <1>1 DEF Entries, Calls, sending
  <2>2. SendingTypes' /\ SendInv'
    BY <1>1, <2>1 DEF SendingTypes, SendInv, sending
  <2>3. TrackerTypes' /\ TellInv'
    BY <1>1, <2>1 DEF TrackerTypes, TellInv, Started, EmptyDropped, Record, sending, tracker
  <2> QED
    BY <2>2, <2>3
<1>2. CASE UNCHANGED tab
  BY <1>1, <1>2 DEF tab, history
<1>3. ASSUME NEW k \in Calls, Upload(k)
      PROVE  SendingTypes' /\ SendInv' /\ TrackerTypes' /\ TellInv'
  BY <1>3, UploadStep DEF ListingTypes
<1>4. ASSUME NEW k \in Calls, Serve(k)
      PROVE  SendingTypes' /\ SendInv' /\ TrackerTypes' /\ TellInv'
  BY <1>4, ServeStep
<1>5. ASSUME NEW k \in Calls, Answer(k) \/ Lose(k)
      PROVE  SendingTypes' /\ SendInv' /\ TrackerTypes' /\ TellInv'
  BY <1>5, AnswerStep
<1>6. ASSUME NEW k \in Calls, End(k)
      PROVE  SendingTypes' /\ SendInv' /\ TrackerTypes' /\ TellInv'
  BY <1>6, EndStep
<1>7. CASE Toast \/ ToggleTracker
  BY <1>7, TrackerStep
<1>8. CASE Navigate \/ GetContents \/ Delete \/ ServeDelete \/ Deleted \/ DeleteLost
  BY <1>1, <1>8 DEF Navigate, GetContents, Delete, ServeDelete, Deleted, DeleteLost, history
<1>9. ASSUME NEW r \in lists, ReadList(r) \/ GotList(r) \/ NoList(r)
      PROVE  SendingTypes' /\ SendInv' /\ TrackerTypes' /\ TellInv'
  BY <1>1, <1>9 DEF ReadList, GotList, NoList, history
<1>10. ASSUME NEW f \in Targets, OtherWrites(f) \/ OtherDeletes(f)
       PROVE  SendingTypes' /\ SendInv' /\ TrackerTypes' /\ TellInv'
  BY <1>1, <1>10 DEF OtherWrites, OtherDeletes
<1> QED
  BY <1>2, <1>3, <1>4, <1>5, <1>6, <1>7, <1>8, <1>9, <1>10 DEF Next, Handlers

LEMMA WebInit ==
  ASSUME TabAssumption, Init
  PROVE  WebInv
<1>1. Entries = {} /\ \A k \in Calls : DOMAIN records[k] = {}
  BY DEF Init, Entries
<1>2. /\ records \in [Calls -> Seq(RecordType)] /\ queue \in [Calls -> SUBSET Sent]
      /\ lru \in Seq(Entries) /\ Len(lru) = 0
  BY DEF Init
<1>3. SendingTypes
  BY <1>2 DEF Init, SendingTypes, TabAssumption
<1>4. TrackerTypes /\ ListingTypes
  BY DEF Init, TrackerTypes, ListingTypes, Unasked, Kept, TabAssumption
<1>5. ListInv
  BY DEF Init, ListInv, Unasked
<1>6. ASSUME NEW k \in Calls PROVE UploadOK(records[k], queue[k], xhr[k], put[k], unsure[k])
  BY <1>1 DEF Init, UploadOK, Queued, Distinct, Busy, Apart, InHand
<1>7. TellInv
  BY <1>1 DEF Init, TellInv, Started
<1> QED
  BY <1>3, <1>4, <1>5, <1>6, <1>7 DEF WebInv, SendInv

LEMMA WebInductive == Spec => []WebInv
<1>1. Init => WebInv
  BY WebInit, TabAssumption
<1>2. WebInv /\ [Next]_tab => WebInv'
  BY ListStep, SendStep, TabAssumption DEF WebInv
<1> QED
  BY <1>1, <1>2, PTL DEF Spec

-----------------------------------------------------------------------------
(* What holds of the tab.                                                  *)

LEMMA WebTyped ==
  ASSUME TabAssumption, WebInv
  PROVE  TabTypeOK
<1>1. ASSUME NEW k \in Calls, NEW i \in DOMAIN records[k]
      PROVE  LET r == records[k][i] IN
             r.failed \subseteq r.files /\ r.done \in 0 .. Cardinality(r.files)
             /\ r.state \in {"loading", "loaded", "error"}
  <2>1. PICK r : r = records[k][i]
    OBVIOUS
  <2>2. r \in RecordType
    <3>1. records[k] \in Seq(RecordType)
      BY DEF WebInv, SendingTypes
    <3> QED
      BY <2>1, <3>1
  <2>3. PICK left : Counted(r, left)
    BY <2>1 DEF WebInv, SendInv, UploadOK
  <2>4. Cardinality(left) \in Nat /\ Cardinality(r.files) \in Nat
    BY <2>3, FS_Subset, FS_CardinalityType DEF Counted
  <2>5. r.done \in 0 .. Cardinality(r.files)
    BY <2>2, <2>3, <2>4 DEF Counted, RecordType
  <2> QED
    BY <2>1, <2>2, <2>3, <2>5 DEF Counted, RecordType
<1>2. Range(lru) \subseteq Entries
  BY DEF WebInv, SendingTypes, Range
<1>3. since \in 0 .. MaxUploads
  BY DEF WebInv, TrackerTypes, Calls, TabAssumption
<1>4. \A d \in Dirs : cache[d].state \in {"none", "loading", "loaded"}
  BY DEF WebInv, ListingTypes, Kept
<1>5. \A k \in Calls : xhr[k] \in Uploads /\ attempt[k] \in 0 .. Retries
  BY DEF WebInv, SendingTypes, Uploads
<1> QED
  BY <1>1, <1>2, <1>3, <1>4, <1>5
  DEF WebInv, SendingTypes, TrackerTypes, ListingTypes, TabTypeOK, Uploads

\* What the tracker says of an upload that is over is so: a file that it does not
\* count as failed has been stored, and one that it does has not, but where an
\* answer was lost (FsModel.js _uploadWithRetry, FsService.js).
THEOREM WebUploadsTruthful == Spec => []UploadsTruthful
<1>1. ASSUME WebInv PROVE UploadsTruthful
  <2>1. TabTypeOK
    BY <1>1, WebTyped, TabAssumption
  <2>2. ASSUME NEW e \in Entries, Record(e).state # "loading"
        PROVE  /\ Record(e).files \ Record(e).failed \subseteq put[e[1]]
               /\ Record(e).failed \cap put[e[1]] \subseteq unsure[e[1]]
    <3>1. PICK k \in Calls : e[1] = k /\ e[2] \in DOMAIN records[k]
      BY DEF Entries
    <3>2. PICK r : r = records[k][e[2]]
      OBVIOUS
    <3>3. PICK left : left = Left(queue[k], e[2])
      OBVIOUS
    <3>4. Counted(r, left) /\ Truthful(r, left, put[k], unsure[k])
      BY <1>1, <3>1, <3>2, <3>3 DEF WebInv, SendInv, UploadOK
    <3>5. left = {}
      BY <2>2, <3>1, <3>2, <3>4 DEF Counted, Record
    <3> QED
      BY <3>1, <3>2, <3>4, <3>5 DEF Truthful, Record
  <2> QED
    BY <2>1, <2>2 DEF UploadsTruthful
<1> QED
  BY <1>1, WebInductive, PTL

\* A listing that is kept shows what the tab has uploaded, and not what it has
\* deleted, though no request is made for it again (clearCache.js, FsModel.js).
THEOREM WebOwnChangesSeen == Spec => []OwnChangesSeen
<1>1. WebInv => OwnChangesSeen
  BY DEF WebInv, ListInv, Shows, OwnChangesSeen
<1> QED
  BY <1>1, WebInductive, PTL

\* No upload ends without a toast that counts it, or the tracker showing it, also
\* where uploads overlap (caskfs-upload-tracker.js).
THEOREM WebAnnounced == Spec => []Announced
<1>1. ASSUME WebInv PROVE Announced
  <2>1. ASSUME \A k \in Calls : xhr[k] \in {"none", "done"} PROVE \A k \in Calls : queue[k] = {}
    BY <1>1, <2>1 DEF WebInv, SendInv, UploadOK, Queued, Busy
  <2> QED
    BY <1>1, <2>1 DEF WebInv, TellInv, Announced
<1> QED
  BY <1>1, WebInductive, PTL
=============================================================================
