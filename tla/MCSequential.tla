---------------------------- MODULE MCSequential ----------------------------
(***************************************************************************)
(* One session of CaskStore, and one tab of WebClient, for TLC, side by    *)
(* side: each behaviour is one of one of them, and the other stands still. *)
(***************************************************************************)
EXTENDS MCCaskStore, WebState

CONSTANTS a, b, c, dot, d1, d2

\* A file, and a folder of two: its row of the listing is that of the folder.
Rows == a :> <<d1, "a">> @@ b :> <<d1, "x">> @@ c :> <<d1, "x">>
OneFile(f) == [folder |-> FALSE, files |-> <<f>>]
Folder(s) == [folder |-> TRUE, files |-> s]
Dropped ==
  d1 :> {<<OneFile(a), Folder(<<b>>)>>, <<Folder(<<b, dot, c>>)>>, <<Folder(<<dot>>)>>} @@ d2 :> {}

Contents == {{}, {b}}

W == INSTANCE WebClient

\* A tab that is closed: what it does is not looked at.
Closed == MaxEvents + 1
WebOver ==
  /\ stored = {} /\ records = [k \in Calls |-> <<>>] /\ queue = [k \in Calls |-> {}]
  /\ attempt = [k \in Calls |-> 0] /\ xhr = [k \in Calls |-> "none"] /\ lru = <<>>
  /\ since = 0 /\ timer = FALSE /\ visible = FALSE /\ told = {} /\ cwd = d1 /\ loads = FALSE
  /\ cache = [d \in {d1, d2} |-> W!Unasked] /\ lists = {} /\ removal = NoCall
  /\ put = [k \in Calls |-> {}] /\ unsure = [k \in Calls |-> {}] /\ acked = {} /\ gone = {}
  /\ events = Closed

OfStore(A) == events = Closed /\ A /\ UNCHANGED tab
OfWeb(A) == events # Closed /\ A /\ UNCHANGED vars

MCInit == Init /\ (WebOver \/ W!Init)
MCNext ==
  \/ OfStore(Next)
  \/ OfWeb(W!GetContents)
  \/ \E k \in Calls : OfWeb(W!End(k))
  \/ ~W!Pending /\ \E k \in Calls :
       OfWeb(W!Upload(k)) \/ OfWeb(W!Serve(k)) \/ OfWeb(W!Answer(k)) \/ OfWeb(W!Lose(k))
  \/ ~W!Pending /\ (OfWeb(W!Toast) \/ OfWeb(W!ToggleTracker) \/ OfWeb(W!Navigate))
  \/ ~W!Pending /\ \E r \in lists : OfWeb(W!ReadList(r)) \/ OfWeb(W!GotList(r)) \/ OfWeb(W!NoList(r))
  \/ ~W!Pending /\ (OfWeb(W!Delete) \/ OfWeb(W!ServeDelete) \/ OfWeb(W!Deleted) \/ OfWeb(W!DeleteLost))
  \/ ~W!Pending /\ \E f \in {a, b, c} : OfWeb(W!OtherWrites(f)) \/ OfWeb(W!OtherDeletes(f))
MCSpec == MCInit /\ [][MCNext]_<<vars, tab>>
=============================================================================
