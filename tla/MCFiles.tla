------------------------------ MODULE MCFiles ------------------------------
(***************************************************************************)
(* Instances of DirectoryTree and HttpFiles for TLC, side by side: each    *)
(* behaviour is one of one of them, and the other stands still.            *)
(***************************************************************************)
EXTENDS Files, TLC

CONSTANTS f1, f2, h1, h2

Tree(ds, fs) == [dirs |-> {<< >>, <<1>>} \cup ds, files |-> fs]

\* A directory of files only, one of directories only, a mixed one that fits a
\* page, and two in which a file is a directory too.
SmallTrees ==
  {Tree({}, {<<1, 1>>, <<1, 2>>, <<1, 3>>}),
   Tree({<<1, 1>>, <<1, 2>>, <<1, 3>>}, {<<1, 2, 1>>}),
   Tree({<<1, 2>>}, {<<1, 1>>, <<1, 2, 1>>, <<1, 2, 2>>}),
   Tree({<<1, 1>>}, {<<1, 1>>, <<1, 1, 1>>}),
   Tree({<<1, 1>>}, {<<1>>, <<1, 1, 1>>})}
AllWalks == {[op |-> o, root |-> <<1>>] : o \in Walks}
SomeFiles == {<<1, 1>>, <<1, 2, 1>>, <<1, 3>>}

\* Two files, one in the path of the other; of three bytes and of one.
Starting ==
  {f1 :> Absent @@ f2 :> Absent, f1 :> h1 @@ f2 :> Absent, f1 :> h1 @@ f2 :> h2}

\* Every method of the client, and what only other clients send.
Called ==
  {<<"read", f1, Absent, Absent>>, <<"read", f1, 1, 9>>, <<"read", f1, Absent, 2>>,
   <<"metadata", f1>>, <<"ls", f1>>, <<"ifNoneMatch", f1, h1>>, <<"writeHash", f1, h1>>,
   <<"write", f1, h1, FALSE>>, <<"write", f1, h2, TRUE>>, <<"write", f2, h1, TRUE>>,
   <<"delete", f1, FALSE>>, <<"delete", f2, TRUE>>, <<"malformed", f1>>,
   <<"copy", f2, f1, TRUE, TRUE>>, <<"copy", f1, f2, FALSE, TRUE>>}

InPath == f1 :> {} @@ f2 :> {f1}
Bytes == h1 :> 3 @@ h2 :> 1

TreeOver ==
  /\ dirs = {<< >>} /\ files = {} /\ job = [op |-> "move", root |-> <<1>>] /\ pc = "done"
  /\ stack = << >> /\ seen = [f \in AllPaths |-> 0]
  /\ edited = FALSE /\ edits = MaxEdits /\ writing = << >> /\ making = {}

HttpOver ==
  /\ now = [f \in {f1, f2} |-> Absent] /\ parents = {} /\ stored = {}
  /\ lock = [f \in {f1, f2} |-> Absent] /\ handler = [c \in Clients |-> "idle"]
  /\ req = [c \in Clients |-> Absent] /\ found = [c \in Clients |-> Absent]
  /\ reply = [c \in Clients |-> Absent] /\ ever = [c \in Clients |-> {}]
  /\ did = [c \in Clients |-> {}] /\ calls = MaxCalls

OfTree(A) == A /\ UNCHANGED httpVars
OfHttp(A) == A /\ UNCHANGED vars

FilesInit == (Init /\ HttpOver) \/ (TreeOver /\ H!Init)
FilesNext ==
  \/ OfTree(Start) \/ OfTree(Page) \/ OfTree(VisitFile) \/ OfTree(ShowEntry)
  \/ OfTree(DeleteOne) \/ OfTree(Descend) \/ OfTree(NextPage) \/ OfTree(Leave)
  \/ OfTree(Mkdir) \/ OfTree(InsertFile) \/ OfTree(DeleteFile) \/ OfTree(Finished)
  \/ \E c \in Clients :
       \/ OfHttp(H!Arrive(c)) \/ OfHttp(H!Invalid(c)) \/ OfHttp(H!Get(c)) \/ OfHttp(H!SendBody(c))
       \/ OfHttp(H!Missing(c)) \/ OfHttp(H!Client(c)) \/ OfHttp(H!Lock(c)) \/ OfHttp(H!LockTimeout(c))
       \/ OfHttp(H!Upload(c)) \/ OfHttp(H!Abandon(c)) \/ OfHttp(H!Store(c))
       \/ OfHttp(H!CopyLook(c)) \/ OfHttp(H!CopyFile(c)) \/ OfHttp(H!DeleteLook(c))
       \/ OfHttp(H!Remove(c)) \/ OfHttp(H!RemoveTimeout(c)) \/ OfHttp(H!List(c)) \/ OfHttp(H!IsFile(c))
everything == <<vars, httpVars>>
FilesSpec ==
  /\ FilesInit /\ [][FilesNext]_everything
  /\ WF_everything(OfTree(Walk)) /\ WF_everything(OfTree(InsertFile))
  /\ \A c \in Clients : SF_everything(OfHttp(H!Serve(c)))
=============================================================================
