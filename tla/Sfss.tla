-------------------------------- MODULE Sfss --------------------------------
(***************************************************************************)
(* The file server of src/sfss-server (server.c, server_functions.c): its  *)
(* directory tree SFS-root-dir and one action per handler.                 *)
(*                                                                         *)
(* A path is <<tree, sub, name>>: file `name' of directory `sub' of /A     *)
(* followed by the number `tree'; sub is Top for a file of /A<tree>        *)
(* itself.  Files are read and written in blocks of 16 bytes at offsets    *)
(* that are multiples of 16, so contents and offsets are counted in        *)
(* blocks; a block holds the letter of the app that wrote it, or blanks.   *)
(***************************************************************************)
EXTENDS Integers, Sequences

CONSTANTS
  N,        \* the number of apps
  Dirs,     \* novoDir1, novoDir2, novoDir3
  Names,    \* file0, file1, file2
  Offsets   \* block offsets the apps draw from (0..4 in the code)

ASSUME NAssumption       == N \in Nat \ {0}
ASSUME DirsAssumption    == "." \notin Dirs
ASSUME OffsetsAssumption == Offsets \subseteq Nat

VARIABLES
  dirs,     \* the directories <<tree, sub>> below SFS-root-dir
  files,    \* the files
  content,  \* content[p]: the blocks of file p
  call      \* call[i]: the system call of app i in progress, see Calls

serverVars == <<dirs, files, content>>
----------------------------------------------------------------------------
Owners == 1..N
Trees  == 0..N
Top    == "."
Paths  == Trees \X (Dirs \cup {Top}) \X Names
Blank  == 0
Blocks == {Blank} \cup Owners      \* an owner stands for its letter

Parent(p) == <<p[1], p[2]>>

\* Mutant: an app uses the directory of any other app.
TargetsAll(i) == Trees

\* "Escolhe aleatoriamente entre o diretorio proprio e o A0".
Targets(i) == {0, i}

\* What prepare_syscall of app i can ask for; `len' is 1 for a payload of 16
\* bytes and 0 for an empty one.
Requests(i) ==
       [op : {"RD"}, path : Targets(i) \X (Dirs \cup {Top}) \X Names, offset : Offsets, len : {0}]
  \cup [op : {"WR"}, path : Targets(i) \X (Dirs \cup {Top}) \X Names, offset : Offsets, len : {0, 1}]
  \cup [op : {"DC", "DR"}, path : Targets(i) \X Dirs \X {""}, offset : {0}, len : {0}]
  \cup [op : {"DL"}, path : Targets(i) \X {Top} \X {""}, offset : {0}, len : {0}]

\* The zeroed reply of server.c: path and listing empty.
NoPath == <<>>
Reply0 == [offset |-> 0, error |-> 0, data |-> <<>>, isDeleting |-> FALSE,
           path |-> NoPath, names |-> {}]

\* A call is idle, served by the server, or received by the kernel.
Idle == [stage |-> "idle"]
Served(req, rep) == [stage |-> "served", req |-> req, rep |-> rep]

\* buildOwnerDir: /A<tree> is created when it is missing.
buildOwnerDir(req) == dirs \cup {<<req.path[1], Top>>}

Answer(i, req, rep) ==
  /\ call[i] = Idle
  /\ call' = [call EXCEPT ![i] = Served(req, rep)]

ServerInit ==
  /\ dirs = {}
  /\ files = {}
  /\ content = [p \in Paths |-> <<>>]
----------------------------------------------------------------------------
(* RD *)

\* offset -1: no such file; -2: at or past its end; else one block.
ReadReply(req) ==
  LET s == content[req.path] IN
  IF req.path \notin files THEN [Reply0 EXCEPT !.offset = -1]
  ELSE IF req.offset >= Len(s) THEN [Reply0 EXCEPT !.offset = -2]
  ELSE [Reply0 EXCEPT !.offset = 1, !.data = <<s[req.offset + 1]>>]

handleRead(i, req) ==
  /\ req.op = "RD"
  /\ dirs' = buildOwnerDir(req)
  /\ Answer(i, req, ReadReply(req))
  /\ UNCHANGED <<files, content>>
----------------------------------------------------------------------------
(* WR *)

\* An empty write at offset 0 removes the file.
IsRemoval(req) == req.len = 0 /\ req.offset = 0

RemoveFile(i, req) ==
  /\ req.op = "WR" /\ IsRemoval(req)
  /\ dirs' = buildOwnerDir(req)
  /\ files' = files \ {req.path}
  /\ content' = [content EXCEPT ![req.path] = <<>>]
  /\ Answer(i, req, IF req.path \in files
                    THEN [Reply0 EXCEPT !.isDeleting = TRUE]
                    ELSE [Reply0 EXCEPT !.offset = -1])

\* Length of file p after a write: blanks fill the gap up to the offset.
LengthAfter(req) ==
  LET n == Len(content[req.path])
      m == req.offset + req.len
  IN IF m > n THEN m ELSE n

\* Mutant: the gap is not filled, so that its blocks (here N + 1) are all NUL.
ContentAfterUnfilled(i, req) ==
  LET s == content[req.path] IN
  [b \in 1..LengthAfter(req) |->
     IF b = req.offset + 1 /\ req.len = 1 THEN i
     ELSE IF b <= Len(s) THEN s[b] ELSE N + 1]

ContentAfter(i, req) ==
  LET s == content[req.path] IN
  [b \in 1..LengthAfter(req) |->
     IF b = req.offset + 1 /\ req.len = 1 THEN i
     ELSE IF b <= Len(s) THEN s[b] ELSE Blank]

\* "r+b", else "w+b": the file is created when its directory exists.
WriteFile(i, req) ==
  /\ req.op = "WR" /\ ~IsRemoval(req)
  /\ dirs' = buildOwnerDir(req)
  /\ Parent(req.path) \in dirs'
  /\ files' = files \cup {req.path}
  /\ content' = [content EXCEPT ![req.path] = ContentAfter(i, req)]
  /\ Answer(i, req, [Reply0 EXCEPT !.offset = req.offset, !.path = req.path])

WriteFails(i, req) ==
  /\ req.op = "WR" /\ ~IsRemoval(req)
  /\ dirs' = buildOwnerDir(req)
  /\ Parent(req.path) \notin dirs'
  /\ Answer(i, req, [Reply0 EXCEPT !.offset = -2])
  /\ UNCHANGED <<files, content>>
----------------------------------------------------------------------------
(* DC, DR, DL *)

handleCreateDir(i, req) ==
  /\ req.op = "DC"
  /\ dirs' = buildOwnerDir(req) \cup {Parent(req.path)}
  /\ Answer(i, req, IF Parent(req.path) \in dirs
                    THEN [Reply0 EXCEPT !.error = -1]
                    ELSE [Reply0 EXCEPT !.path = Parent(req.path)])
  /\ UNCHANGED <<files, content>>

\* Mutant: the directory is removed with what it contains.
MayRemoveAll(dir) == dir \in dirs

\* rmdir removes only an empty directory.
MayRemove(dir) == dir \in dirs /\ \A p \in files : Parent(p) # dir

handleRemoveDir(i, req) ==
  /\ req.op = "DR"
  /\ \/ /\ MayRemove(Parent(req.path))
        /\ dirs' = buildOwnerDir(req) \ {Parent(req.path)}
        /\ Answer(i, req, [Reply0 EXCEPT !.path = <<req.path[1], Top>>])
     \/ /\ ~MayRemove(Parent(req.path))
        /\ dirs' = buildOwnerDir(req)
        /\ Answer(i, req, [Reply0 EXCEPT !.error = -1])
  /\ UNCHANGED <<files, content>>

\* The entries of /A<tree>: files and directories.
Listing(tree) ==
       {<<p[3], "FILE">> : p \in {q \in files : Parent(q) = <<tree, Top>>}}
  \cup {<<d[2], "DIR">> : d \in {e \in dirs : e[1] = tree /\ e[2] # Top}}

handleListDir(i, req) ==
  /\ req.op = "DL"
  /\ dirs' = buildOwnerDir(req)
  /\ Answer(i, req, [Reply0 EXCEPT !.names = Listing(req.path[1])])
  /\ UNCHANGED <<files, content>>

\* One turn of the server's loop, for a request of app i.
handleOperation(i) ==
  \E req \in Requests(i) :
    \/ handleRead(i, req)
    \/ RemoveFile(i, req) \/ WriteFile(i, req) \/ WriteFails(i, req)
    \/ handleCreateDir(i, req)
    \/ handleRemoveDir(i, req)
    \/ handleListDir(i, req)
============================================================================
