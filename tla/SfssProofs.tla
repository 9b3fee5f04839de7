----------------------------- MODULE SfssProofs -----------------------------
(***************************************************************************)
(* The directory tree of the file server stays well formed, a write keeps  *)
(* every other block, a reply about a private directory stays true, and    *)
(* the registry of the kernel covers the files: for any number of apps,    *)
(* directories, files and offsets, whatever the apps ask for and in        *)
(* whatever order it is served.                                            *)
(***************************************************************************)
EXTENDS SfssSystem, FiniteSetTheorems, SequenceTheorems, TLAPS

DirPaths == Trees \X (Dirs \cup {Top})

TreeTypeOK ==
  /\ dirs \subseteq DirPaths
  /\ files \subseteq Paths
  /\ content \in [Paths -> Seq(Blocks)]

\* NoOrphans needs nothing but the types of the tree to be inductive: MayRemove
\* keeps the directories of files, and a request names no /A<n> to remove.
TreeInv == TreeTypeOK /\ NoOrphans
----------------------------------------------------------------------------
\* What every request names: a file, or a directory below some /A<n>.
LEMMA RequestPath ==
  ASSUME NEW i \in Owners, NEW req \in Requests(i)
  PROVE  /\ req.path[1] \in Trees
         /\ req.op \in {"RD", "WR"} =>
              /\ req.path \in Paths
              /\ req.offset \in Nat
              /\ req.len \in {0, 1}
         /\ req.op \in {"DC", "DR"} => req.path[2] \in Dirs
<1> USE OffsetsAssumption
<1>1. Targets(i) \subseteq Trees
  BY NAssumption DEF Targets, Trees, Owners
<1>2. CASE req \in [op : {"RD"}, path : Targets(i) \X (Dirs \cup {Top}) \X Names,
                    offset : Offsets, len : {0}]
  BY <1>1, <1>2 DEF Paths
<1>3. CASE req \in [op : {"WR"}, path : Targets(i) \X (Dirs \cup {Top}) \X Names,
                    offset : Offsets, len : {0, 1}]
  BY <1>1, <1>3 DEF Paths
<1>4. CASE req \in [op : {"DC", "DR"}, path : Targets(i) \X Dirs \X {""},
                    offset : {0}, len : {0}]
  BY <1>1, <1>4
<1>5. CASE req \in [op : {"DL"}, path : Targets(i) \X {Top} \X {""},
                    offset : {0}, len : {0}]
  BY <1>1, <1>5
<1> QED BY <1>2, <1>3, <1>4, <1>5 DEF Requests

\* The components of a path.
LEMMA ParentOf ==
  ASSUME NEW p \in Paths
  PROVE  Parent(p) \in DirPaths /\ Parent(p)[1] = p[1] /\ p[1] \in Trees
BY DEF Paths, Parent, DirPaths

\* buildOwnerDir only adds the directory of the tree a request is about.
LEMMA OwnerDirBuilt ==
  ASSUME TreeInv, NEW i \in Owners, NEW req \in Requests(i)
  PROVE  /\ dirs \subseteq buildOwnerDir(req)
         /\ buildOwnerDir(req) \subseteq DirPaths
         /\ <<req.path[1], Top>> \in buildOwnerDir(req)
         /\ \A d \in buildOwnerDir(req) : <<d[1], Top>> \in buildOwnerDir(req)
BY RequestPath DEF TreeInv, TreeTypeOK, NoOrphans, buildOwnerDir, DirPaths

\* What a file holds after a write: at least one block.
LEMMA ContentAfterType ==
  ASSUME TreeTypeOK, NEW i \in Owners, NEW req \in Requests(i),
         req.op = "WR", ~IsRemoval(req)
  PROVE  ContentAfter(i, req) \in Seq(Blocks) /\ ContentAfter(i, req) # <<>>
<1> DEFINE s == content[req.path]
           n == LengthAfter(req)
<1>1. req.path \in Paths /\ req.offset \in Nat /\ req.len \in {0, 1}
  BY RequestPath
<1>2. s \in Seq(Blocks) /\ Len(s) \in Nat /\ \A b \in 1..Len(s) : s[b] \in Blocks
  BY <1>1 DEF TreeTypeOK
<1>3. n \in Nat /\ n >= 1
  BY <1>1, <1>2 DEF LengthAfter, IsRemoval
<1>4. \A b \in 1..n : (IF b = req.offset + 1 /\ req.len = 1 THEN i
                       ELSE IF b <= Len(s) THEN s[b] ELSE Blank) \in Blocks
  BY <1>2, <1>3 DEF Blocks
<1>5. ContentAfter(i, req) \in [1..n -> Blocks]
  BY <1>4 DEF ContentAfter
<1>6. ContentAfter(i, req) \in Seq(Blocks) /\ Len(ContentAfter(i, req)) = n
  BY <1>3, <1>5
<1> QED BY <1>3, <1>6
----------------------------------------------------------------------------
\* One turn of the server's loop keeps the tree well formed.
LEMMA HandlerKeepsTree ==
  ASSUME TreeInv, NEW i \in Owners, handleOperation(i)
  PROVE  TreeInv'
<1>1. PICK req \in Requests(i) :
        \/ handleRead(i, req)
        \/ RemoveFile(i, req) \/ WriteFile(i, req) \/ WriteFails(i, req)
        \/ handleCreateDir(i, req) \/ handleRemoveDir(i, req) \/ handleListDir(i, req)
  BY DEF handleOperation
<1> DEFINE owned == buildOwnerDir(req)
<1>2. /\ dirs \subseteq owned /\ owned \subseteq DirPaths
      /\ <<req.path[1], Top>> \in owned
      /\ \A d \in owned : <<d[1], Top>> \in owned
  BY OwnerDirBuilt
<1>3. /\ files \subseteq Paths /\ content \in [Paths -> Seq(Blocks)]
      /\ \A p \in files : Parent(p) \in dirs /\ content[p] # <<>>
  BY DEF TreeInv, TreeTypeOK, NoOrphans
<1> HIDE DEF owned
<1>4. CASE dirs' = owned /\ UNCHANGED <<files, content>>
  BY <1>2, <1>3, <1>4 DEF TreeInv, TreeTypeOK, NoOrphans, Parent
<1>5. CASE RemoveFile(i, req)
  <2>1. dirs' = owned /\ files' = files \ {req.path}
        /\ content' = [content EXCEPT ![req.path] = <<>>]
    BY <1>5 DEF RemoveFile, owned
  <2>2. req.path \in Paths
    BY <1>5, RequestPath DEF RemoveFile
  <2>3. content' \in [Paths -> Seq(Blocks)] /\ \A p \in files' : content'[p] = content[p]
    BY <1>3, <2>1, <2>2
  <2> QED BY <1>2, <1>3, <2>1, <2>3 DEF TreeInv, TreeTypeOK, NoOrphans, Parent
<1>6. CASE WriteFile(i, req)
  <2>1. /\ dirs' = owned /\ Parent(req.path) \in owned
        /\ files' = files \cup {req.path}
        /\ content' = [content EXCEPT ![req.path] = ContentAfter(i, req)]
    BY <1>6 DEF WriteFile, owned
  <2>2. req.path \in Paths
    BY <1>6, RequestPath DEF WriteFile
  <2>3. ContentAfter(i, req) \in Seq(Blocks) /\ ContentAfter(i, req) # <<>>
    BY <1>6, ContentAfterType DEF WriteFile, TreeInv
  <2>4. content' \in [Paths -> Seq(Blocks)] /\ \A p \in files' : content'[p] # <<>>
    BY <1>3, <2>1, <2>2, <2>3
  <2> QED BY <1>2, <1>3, <2>1, <2>2, <2>4 DEF TreeInv, TreeTypeOK, NoOrphans, Parent
<1>7. CASE handleCreateDir(i, req)
  <2>1. dirs' = owned \cup {Parent(req.path)} /\ UNCHANGED <<files, content>>
    BY <1>7 DEF handleCreateDir, owned
  <2>2. Parent(req.path) \in DirPaths /\ Parent(req.path)[1] = req.path[1]
    BY <1>7, RequestPath DEF handleCreateDir, Parent, DirPaths
  <2> QED BY <1>2, <1>3, <2>1, <2>2 DEF TreeInv, TreeTypeOK, NoOrphans, Parent
<1>8. CASE handleRemoveDir(i, req)
  <2>1. CASE MayRemove(Parent(req.path)) /\ dirs' = owned \ {Parent(req.path)}
    <3>1. UNCHANGED <<files, content>>
      BY <1>8 DEF handleRemoveDir
    <3>2. \A p \in files : Parent(p) # Parent(req.path)
      BY <2>1 DEF MayRemove
    <3>3. Parent(req.path) = <<req.path[1], req.path[2]>> /\ req.path[2] # Top
      BY <1>8, RequestPath, DirsAssumption DEF handleRemoveDir, Parent, Top
    <3>4. \A d : <<d[1], Top>> # Parent(req.path)
      BY <3>3
    <3>5. \A d \in dirs' : <<d[1], Top>> \in dirs'
      BY <1>2, <2>1, <3>4
    <3>6. \A p \in files : Parent(p) \in dirs'
      BY <1>2, <1>3, <2>1, <3>2
    <3> QED BY <1>2, <1>3, <2>1, <3>1, <3>5, <3>6 DEF TreeInv, TreeTypeOK, NoOrphans, Parent
  <2>2. CASE dirs' = owned
    BY <1>4, <1>8, <2>2 DEF handleRemoveDir
  <2> QED BY <1>8, <2>1, <2>2 DEF handleRemoveDir, owned
<1> QED
  BY <1>1, <1>4, <1>5, <1>6, <1>7, <1>8
  DEF handleRead, WriteFails, handleListDir, owned

LEMMA TreeInitially == Init => TreeInv
BY DEF Init, ServerInit, TreeInv, TreeTypeOK, NoOrphans

LEMMA TreeInductive ==
  ASSUME TreeInv, [Next]_vars
  PROVE  TreeInv'
<1>1. CASE UNCHANGED serverVars
  BY <1>1 DEF serverVars, TreeInv, TreeTypeOK, NoOrphans, Parent
<1>2. ASSUME NEW i \in Owners, Serve(i) PROVE TreeInv'
  BY <1>2, HandlerKeepsTree DEF Serve
<1>3. CASE UNCHANGED vars
  BY <1>1, <1>3 DEF vars
<1>4. ASSUME NEW i \in Owners,
             Register(i) \/ Unregister(i) \/ JustReceive(i) \/ Consume(i)
      PROVE  UNCHANGED serverVars
  BY <1>4 DEF Register, Unregister, JustReceive, Consume
<1> QED BY <1>1, <1>2, <1>3, <1>4 DEF Next

\* For all numbers of apps, directories, names, offsets and calls: no file
\* without its directory, no directory without its /A<n>, no empty file
\* (handleWrite, handleCreateDir, handleRemoveDir, buildOwnerDir).
THEOREM TreeStaysWellFormed == Spec => []NoOrphans
<1>1. TreeInv => NoOrphans
  BY DEF TreeInv
<1> QED BY <1>1, TreeInitially, TreeInductive, PTL DEF Spec
----------------------------------------------------------------------------
(* The calls. *)

CallOf(i) ==
  {Idle} \cup [stage : {"served", "received"}, req : Requests(i), rep : Replies]

\* A reply to a write names the file written, at the offset asked for, and is
\* registered; a reply to a removal or a failure names nothing.
WriteReplyFits(req, rep) ==
  \/ rep.path = NoPath /\ ~IsRegistered(rep)
  \/ rep.path = req.path /\ IsRegistered(rep)

CallInv ==
  /\ call = [i \in Owners |-> call[i]]
  /\ \A i \in Owners :
       /\ call[i] \in CallOf(i)
       /\ InCall(i) /\ call[i].req.op = "WR" => WriteReplyFits(call[i].req, call[i].rep)

\* Changing one field of a reply keeps it a reply.
LEMMA ReplyFields ==
  /\ Reply0 \in Replies
  /\ \A rep \in Replies :
       /\ \A o \in {-2, -1, 1} \cup Offsets \cup {0} : [rep EXCEPT !.offset = o] \in Replies
       /\ [rep EXCEPT !.error = -1] \in Replies
       /\ \A b \in Blocks : [rep EXCEPT !.data = <<b>>] \in Replies
       /\ [rep EXCEPT !.isDeleting = TRUE] \in Replies
       /\ \A p \in Paths \cup DirPaths : [rep EXCEPT !.path = p] \in Replies
       /\ \A n \in SUBSET ((Names \X {"FILE"}) \cup (Dirs \X {"DIR"})) :
            [rep EXCEPT !.names = n] \in Replies
<1>1. Reply0 \in Replies
  BY DEF Reply0, Replies
<1>2. ASSUME NEW rep \in Replies, NEW o \in {-2, -1, 1} \cup Offsets \cup {0}
      PROVE  [rep EXCEPT !.offset = o] \in Replies
  BY DEF Replies
<1>3. ASSUME NEW rep \in Replies
      PROVE  [rep EXCEPT !.error = -1] \in Replies /\ [rep EXCEPT !.isDeleting = TRUE] \in Replies
  BY DEF Replies
<1>4. ASSUME NEW rep \in Replies, NEW b \in Blocks
      PROVE  [rep EXCEPT !.data = <<b>>] \in Replies
  BY DEF Replies
<1>5. ASSUME NEW rep \in Replies, NEW p \in Paths \cup DirPaths
      PROVE  [rep EXCEPT !.path = p] \in Replies
  BY DEF Replies, DirPaths
<1>6. ASSUME NEW rep \in Replies,
             NEW n \in SUBSET ((Names \X {"FILE"}) \cup (Dirs \X {"DIR"}))
      PROVE  [rep EXCEPT !.names = n] \in Replies
  BY DEF Replies
<1> QED BY <1>1, <1>2, <1>3, <1>4, <1>5, <1>6

LEMMA NoPathIsNone ==
  ASSUME NEW p \in Paths
  PROVE  p # NoPath
BY DEF Paths, NoPath
\* What one turn of the server's loop does to the call of app i: its reply fits
\* the request, names the file it creates, and is true when it is sent.
Answers(i, req, rep) ==
  /\ call[i] = Idle
  /\ call' = [call EXCEPT ![i] = Served(req, rep)]
  /\ req.op = "WR" => WriteReplyFits(req, rep)
  /\ \A p \in files' : p \in files \/ (req.op = "WR" /\ rep.path = p)
  /\ StillTrue(i, req, rep)'

LEMMA ReadAnswers ==
  ASSUME TreeInv, NEW i \in Owners, NEW req \in Requests(i), handleRead(i, req)
  PROVE  \E rep \in Replies : Answers(i, req, rep)
<1>1. /\ req.op = "RD" /\ req.path \in Paths /\ req.offset \in Nat
      /\ UNCHANGED <<files, content>> /\ Answer(i, req, ReadReply(req))
  BY RequestPath DEF handleRead
<1>2. ReadReply(req) \in Replies
  <2> DEFINE s == content[req.path]
  <2>1. s \in Seq(Blocks)
    BY <1>1 DEF TreeInv, TreeTypeOK
  <2> DEFINE of(o) == [Reply0 EXCEPT !.offset = o]
  <2>2. of(-1) \in Replies /\ of(-2) \in Replies /\ of(1) \in Replies
    BY ReplyFields
  <2>3. /\ req.path \notin files => ReadReply(req) = of(-1)
        /\ req.path \in files /\ req.offset >= Len(s) => ReadReply(req) = of(-2)
    BY DEF ReadReply
  <2>4. CASE req.path \in files /\ ~(req.offset >= Len(s))
    <3>1. s[req.offset + 1] \in Blocks
      BY <1>1, <2>1, <2>4
    <3>2. ReadReply(req) = [of(1) EXCEPT !.data = <<s[req.offset + 1]>>]
      BY <2>4 DEF ReadReply, Reply0
    <3> HIDE DEF of, s
    <3> QED BY <2>2, <3>1, <3>2, ReplyFields
  <2> HIDE DEF of, s
  <2> QED BY <2>2, <2>3, <2>4
<1>3. ReadReply(req)' = ReadReply(req)
  BY <1>1 DEF ReadReply
<1>4. PICK rep \in Replies : rep = ReadReply(req)
  BY <1>2
<1>5. StillTrue(i, req, rep)'
  BY <1>1, <1>3, <1>4 DEF StillTrue
<1>6. Answers(i, req, rep)
  BY <1>1, <1>4, <1>5 DEF Answers, Answer
<1> QED BY <1>6

LEMMA WriteAnswers ==
  ASSUME TreeInv, NEW i \in Owners, NEW req \in Requests(i),
         RemoveFile(i, req) \/ WriteFile(i, req) \/ WriteFails(i, req)
  PROVE  \E rep \in Replies : Answers(i, req, rep)
<1>1. /\ req.op = "WR" /\ req.path \in Paths /\ req.offset \in Nat /\ req.len \in {0, 1}
      /\ req.offset \in Offsets
  BY RequestPath DEF RemoveFile, WriteFile, WriteFails, Requests
<1>2. /\ Reply0.offset = 0 /\ ~Reply0.isDeleting /\ Reply0.path = NoPath
  BY DEF Reply0
<1>3. CASE RemoveFile(i, req) /\ req.path \in files
  <2> DEFINE rep == [Reply0 EXCEPT !.isDeleting = TRUE]
  <2>1. rep \in Replies
    BY ReplyFields
  <2>2. rep.isDeleting /\ rep.path = NoPath
    BY DEF Reply0
  <2>3. Answer(i, req, rep) /\ files' = files \ {req.path}
    BY <1>3 DEF RemoveFile
  <2> HIDE DEF rep
  <2>4. StillTrue(i, req, rep)'
    BY <1>1, <2>2, <2>3 DEF StillTrue
  <2>5. WriteReplyFits(req, rep)
    BY <2>2 DEF WriteReplyFits, IsRegistered
  <2> QED BY <2>1, <2>3, <2>4, <2>5 DEF Answers, Answer
<1>4. CASE RemoveFile(i, req) /\ req.path \notin files
  <2> DEFINE rep == [Reply0 EXCEPT !.offset = -1]
  <2>1. rep \in Replies
    BY ReplyFields
  <2>2. rep.offset = -1 /\ ~rep.isDeleting /\ rep.path = NoPath
    BY DEF Reply0
  <2>3. Answer(i, req, rep) /\ files' = files \ {req.path}
    BY <1>4 DEF RemoveFile
  <2> HIDE DEF rep
  <2>4. StillTrue(i, req, rep)'
    BY <1>1, <2>2, <2>3 DEF StillTrue
  <2>5. WriteReplyFits(req, rep)
    BY <2>2 DEF WriteReplyFits, IsRegistered
  <2> QED BY <2>1, <2>3, <2>4, <2>5 DEF Answers, Answer
<1>5. CASE WriteFile(i, req)
  <2> DEFINE rep == [Reply0 EXCEPT !.offset = req.offset, !.path = req.path]
  <2>1. rep \in Replies
    <3>1. rep = [[Reply0 EXCEPT !.offset = req.offset] EXCEPT !.path = req.path]
      BY DEF Reply0
    <3> QED BY <1>1, <3>1, ReplyFields
  <2>2. rep.offset = req.offset /\ ~rep.isDeleting /\ rep.path = req.path
    BY DEF Reply0
  <2>3. Answer(i, req, rep) /\ files' = files \cup {req.path}
        /\ content' = [content EXCEPT ![req.path] = ContentAfter(i, req)]
    BY <1>5 DEF WriteFile
  <2> HIDE DEF rep
  <2>4. WriteReplyFits(req, rep)
    BY <1>1, <2>2 DEF WriteReplyFits, IsRegistered
  <2>5. ASSUME req.len = 1 PROVE content'[req.path][req.offset + 1] = i
    <3> DEFINE n == LengthAfter(req)
    <3>1. content'[req.path] = ContentAfter(i, req)
      BY <1>1, <2>3 DEF TreeInv, TreeTypeOK
    <3>2. Len(content[req.path]) \in Nat
      BY <1>1 DEF TreeInv, TreeTypeOK
    <3>3. req.offset + 1 \in 1..n
      BY <1>1, <2>5, <3>2 DEF LengthAfter
    <3> HIDE DEF n
    <3>4. ContentAfter(i, req)[req.offset + 1] = i
      BY <2>5, <3>3 DEF ContentAfter, n
    <3> QED BY <3>1, <3>4
  <2>6. rep.offset # -1 /\ rep.offset # -2
    BY <1>1, <2>2
  <2>7. StillTrue(i, req, rep)'
    BY <1>1, <2>2, <2>3, <2>5, <2>6 DEF StillTrue
  <2> QED BY <1>1, <2>1, <2>2, <2>3, <2>4, <2>7 DEF Answers, Answer
<1>6. CASE WriteFails(i, req)
  <2> DEFINE rep == [Reply0 EXCEPT !.offset = -2]
  <2>1. rep \in Replies
    BY ReplyFields
  <2>2. rep.offset = -2 /\ ~rep.isDeleting /\ rep.path = NoPath
    BY DEF Reply0
  <2>3. Answer(i, req, rep) /\ files' = files /\ Parent(req.path) \notin dirs'
    BY <1>6 DEF WriteFails
  <2> HIDE DEF rep
  <2>4. StillTrue(i, req, rep)'
    BY <1>1, <2>2, <2>3 DEF StillTrue, Parent
  <2>5. WriteReplyFits(req, rep)
    BY <2>2 DEF WriteReplyFits, IsRegistered
  <2> QED BY <2>1, <2>3, <2>4, <2>5 DEF Answers, Answer
<1> QED BY <1>3, <1>4, <1>5, <1>6

LEMMA DirectoryAnswers ==
  ASSUME TreeInv, NEW i \in Owners, NEW req \in Requests(i),
         handleCreateDir(i, req) \/ handleRemoveDir(i, req) \/ handleListDir(i, req)
  PROVE  \E rep \in Replies : Answers(i, req, rep)
<1> DEFINE owned == dirs \cup {<<req.path[1], Top>>}
           failed == [Reply0 EXCEPT !.error = -1]
           named(d) == [Reply0 EXCEPT !.path = d]
<1>1. /\ req.op # "WR" /\ req.op # "RD" /\ files' = files /\ req.path[1] \in Trees
      /\ buildOwnerDir(req) = owned
  BY RequestPath DEF handleCreateDir, handleRemoveDir, handleListDir, buildOwnerDir
<1>2. /\ failed \in Replies /\ failed.error = -1
      /\ \A d \in DirPaths : named(d) \in Replies /\ named(d).error = 0
  BY ReplyFields DEF Reply0
<1>3. req.op \in {"DC", "DR"} => /\ req.path[2] \in Dirs
                                 /\ Parent(req.path) = <<req.path[1], req.path[2]>>
                                 /\ Parent(req.path) # <<req.path[1], Top>>
                                 /\ Parent(req.path) \in DirPaths
  BY <1>1, RequestPath, DirsAssumption DEF Parent, DirPaths, Top
<1>4. <<req.path[1], Top>> \in DirPaths
  BY <1>1 DEF DirPaths
<1> HIDE DEF failed, named
<1>5. CASE handleCreateDir(i, req)
  <2>1. req.op = "DC" /\ Parent(req.path) \in dirs'
    BY <1>5 DEF handleCreateDir
  <2>2. ASSUME NEW rep PROVE StillTrue(i, req, rep)'
    BY <2>1 DEF StillTrue, Parent
  <2>3. Answer(i, req, failed) \/ Answer(i, req, named(Parent(req.path)))
    BY <1>5 DEF handleCreateDir, failed, named
  <2> QED BY <1>1, <1>2, <1>3, <2>1, <2>2, <2>3 DEF Answers, Answer
<1>6. CASE handleRemoveDir(i, req) /\ MayRemove(Parent(req.path))
  <2> DEFINE rep == named(<<req.path[1], Top>>)
  <2>1. /\ req.op = "DR" /\ Parent(req.path) \notin dirs' /\ Answer(i, req, rep)
    BY <1>6 DEF handleRemoveDir, named
  <2>2. rep \in Replies /\ rep.error = 0
    BY <1>2, <1>4
  <2> HIDE DEF rep
  <2>3. StillTrue(i, req, rep)'
    BY <2>1, <2>2 DEF StillTrue, Parent
  <2> QED BY <1>1, <2>1, <2>2, <2>3 DEF Answers, Answer
<1>7. CASE handleRemoveDir(i, req) /\ ~MayRemove(Parent(req.path))
  <2>1. /\ req.op = "DR" /\ dirs' = owned /\ Answer(i, req, failed)
    BY <1>1, <1>7 DEF handleRemoveDir, failed
  <2>2. ~MayRemove(Parent(req.path))'
    BY <1>1, <1>3, <1>7, <2>1 DEF MayRemove, Parent
  <2>3. StillTrue(i, req, failed)'
    BY <1>2, <2>1, <2>2 DEF StillTrue, Parent
  <2> QED BY <1>1, <1>2, <2>1, <2>3 DEF Answers, Answer
<1>8. CASE handleListDir(i, req)
  <2>0. PICK rep : rep = [Reply0 EXCEPT !.names = Listing(req.path[1])]
    OBVIOUS
  <2>1. req.op = "DL" /\ dirs' = owned /\ Answer(i, req, rep)
    BY <1>1, <1>8, <2>0 DEF handleListDir
  <2>2. Listing(req.path[1]) \in SUBSET ((Names \X {"FILE"}) \cup (Dirs \X {"DIR"}))
    <3>1. ASSUME NEW q \in files PROVE q[3] \in Names
      BY <3>1 DEF TreeInv, TreeTypeOK, Paths
    <3>2. ASSUME NEW d \in dirs, d[2] # Top PROVE d[2] \in Dirs
      BY <3>2 DEF TreeInv, TreeTypeOK, DirPaths
    <3> QED BY <3>1, <3>2 DEF Listing
  <2>3. rep \in Replies /\ rep.names = Listing(req.path[1])
    BY <2>0, <2>2, ReplyFields DEF Reply0
  <2>4. Listing(req.path[1])' = Listing(req.path[1])
    <3>1. {e \in dirs' : e[1] = req.path[1] /\ e[2] # Top}
          = {e \in dirs : e[1] = req.path[1] /\ e[2] # Top}
      BY <2>1
    <3>2. {q \in files' : Parent(q)' = <<req.path[1], Top>>}
          = {q \in files : Parent(q) = <<req.path[1], Top>>}
      BY <1>1 DEF Parent
    <3> QED BY <3>1, <3>2 DEF Listing, Parent
  <2>5. StillTrue(i, req, rep)'
    BY <2>1, <2>3, <2>4 DEF StillTrue
  <2> QED BY <1>1, <2>1, <2>3, <2>5 DEF Answers, Answer
<1> QED BY <1>5, <1>6, <1>7, <1>8

LEMMA HandlerAnswers ==
  ASSUME TreeInv, NEW i \in Owners, handleOperation(i)
  PROVE  \E req \in Requests(i), rep \in Replies : Answers(i, req, rep)
BY ReadAnswers, WriteAnswers, DirectoryAnswers DEF handleOperation

\* The parts of a call that is in progress.
LEMMA CallParts ==
  ASSUME CallInv, NEW i \in Owners, InCall(i)
  PROVE  /\ call[i].stage \in {"served", "received"}
         /\ call[i].req \in Requests(i) /\ call[i].rep \in Replies
         /\ call[i].req.op = "WR" => WriteReplyFits(call[i].req, call[i].rep)
         /\ [call[i] EXCEPT !.stage = "received"]
              = [stage |-> "received", req |-> call[i].req, rep |-> call[i].rep]
<1>1. call[i] \in [stage : {"served", "received"}, req : Requests(i), rep : Replies]
  BY DEF CallInv, CallOf, InCall, Idle
<1> QED BY <1>1 DEF CallInv

\* A call that begins, and its effect on the calls.
LEMMA CallBegins ==
  ASSUME CallInv, NEW i \in Owners, NEW req \in Requests(i), NEW rep \in Replies,
         Answers(i, req, rep)
  PROVE  /\ call'[i] = [stage |-> "served", req |-> req, rep |-> rep]
         /\ \A j \in Owners : j # i => call'[j] = call[j]
         /\ ~InCall(i)
         /\ CallInv'
<1>1. /\ call'[i] = [stage |-> "served", req |-> req, rep |-> rep]
      /\ \A j \in Owners : j # i => call'[j] = call[j]
      /\ call' = [j \in Owners |-> call'[j]]
  BY DEF CallInv, Answers, Served
<1>2. ~InCall(i)
  BY DEF Answers, InCall, Idle
<1>3. ASSUME NEW j \in Owners
      PROVE  /\ call'[j] \in CallOf(j)
             /\ InCall(j)' /\ call'[j].req.op = "WR"
                  => WriteReplyFits(call'[j].req, call'[j].rep)
  <2>1. CASE j = i
    BY <1>1, <2>1 DEF Answers, CallOf
  <2>2. CASE j # i
    BY <1>1, <2>2 DEF CallInv, InCall
  <2> QED BY <2>1, <2>2
<1>4. CallInv'
  BY <1>1, <1>3 DEF CallInv, WriteReplyFits, IsRegistered
<1> QED BY <1>1, <1>2, <1>4

\* The kernel receives a reply: the call is the same but for its stage.
LEMMA CallReceived ==
  ASSUME CallInv, NEW i \in Owners, call[i].stage = "served", call' = Received(i)
  PROVE  /\ call'[i] = [stage |-> "received", req |-> call[i].req, rep |-> call[i].rep]
         /\ \A j \in Owners : j # i => call'[j] = call[j]
         /\ CallInv'
<1>1. /\ call[i].req \in Requests(i) /\ call[i].rep \in Replies /\ InCall(i)
      /\ [call[i] EXCEPT !.stage = "received"]
           = [stage |-> "received", req |-> call[i].req, rep |-> call[i].rep]
  BY CallParts DEF InCall
<1>2. /\ call'[i] = [stage |-> "received", req |-> call[i].req, rep |-> call[i].rep]
      /\ \A j \in Owners : j # i => call'[j] = call[j]
      /\ call' = [j \in Owners |-> call'[j]]
  BY <1>1 DEF CallInv, Received
<1>3. ASSUME NEW j \in Owners
      PROVE  /\ call'[j] \in CallOf(j)
             /\ InCall(j)' /\ call'[j].req.op = "WR"
                  => WriteReplyFits(call'[j].req, call'[j].rep)
  <2>1. CASE j = i
    BY <1>1, <1>2, <2>1 DEF CallInv, CallOf, InCall
  <2>2. CASE j # i
    BY <1>2, <2>2 DEF CallInv, InCall
  <2> QED BY <2>1, <2>2
<1>4. CallInv'
  BY <1>2, <1>3 DEF CallInv, WriteReplyFits, IsRegistered
<1> QED BY <1>2, <1>4

LEMMA CallEnds ==
  ASSUME CallInv, NEW i \in Owners, Consume(i)
  PROVE  /\ call'[i] = Idle /\ ~InCall(i)'
         /\ \A j \in Owners : j # i => call'[j] = call[j]
         /\ CallInv'
<1>1. /\ call'[i] = Idle
      /\ \A j \in Owners : j # i => call'[j] = call[j]
      /\ call' = [j \in Owners |-> call'[j]]
  BY DEF CallInv, Consume
<1>2. ~InCall(i)'
  BY <1>1 DEF InCall, Idle
<1>3. ASSUME NEW j \in Owners
      PROVE  /\ call'[j] \in CallOf(j)
             /\ InCall(j)' /\ call'[j].req.op = "WR"
                  => WriteReplyFits(call'[j].req, call'[j].rep)
  <2>1. CASE j = i
    BY <1>1, <1>2, <2>1 DEF CallOf
  <2>2. CASE j # i
    BY <1>1, <2>2 DEF CallInv, InCall
  <2> QED BY <2>1, <2>2
<1>4. CallInv'
  BY <1>1, <1>3 DEF CallInv, WriteReplyFits, IsRegistered
<1> QED BY <1>1, <1>2, <1>4
----------------------------------------------------------------------------
(* Replies about private directories. *)

\* Nothing changes in /A<t>.
TreeKept(t) ==
  /\ \A d \in DirPaths : d[1] = t => (d \in dirs' <=> d \in dirs)
  /\ \A p \in Paths : p[1] = t => (p \in files' <=> p \in files) /\ content'[p] = content[p]

\* A request of app i leaves the directories of the other apps alone.
LEMMA OtherTreesKept ==
  ASSUME TreeInv, NEW i \in Owners, handleOperation(i), NEW t \in Owners, t # i
  PROVE  TreeKept(t)
<1>1. PICK req \in Requests(i) :
        \/ handleRead(i, req)
        \/ RemoveFile(i, req) \/ WriteFile(i, req) \/ WriteFails(i, req)
        \/ handleCreateDir(i, req) \/ handleRemoveDir(i, req) \/ handleListDir(i, req)
  BY DEF handleOperation
<1>2. req.path[1] # t
  <2>1. t # 0
    BY NAssumption DEF Owners
  <2>2. req.path[1] \in {0, i}
    BY DEF Requests, Targets
  <2> QED BY <2>1, <2>2
<1>3. \A d \in DirPaths : d[1] = t => d # Parent(req.path) /\ d # <<req.path[1], Top>>
  BY <1>2 DEF Parent
<1>4. \A p \in Paths : p[1] = t => p # req.path
  BY <1>2
<1>5. content \in [Paths -> Seq(Blocks)]
  BY DEF TreeInv, TreeTypeOK
<1>6. \A d \in DirPaths : d[1] = t => (d \in dirs' <=> d \in dirs)
  BY <1>1, <1>3
  DEF handleRead, RemoveFile, WriteFile, WriteFails, handleCreateDir, handleRemoveDir,
      handleListDir, buildOwnerDir
<1>7. CASE UNCHANGED <<files, content>>
  BY <1>6, <1>7 DEF TreeKept
<1>8. CASE RemoveFile(i, req)
  BY <1>4, <1>5, <1>6, <1>8 DEF TreeKept, RemoveFile
<1>9. CASE WriteFile(i, req)
  <2>1. /\ files' = files \cup {req.path}
        /\ content' = [content EXCEPT ![req.path] = ContentAfter(i, req)]
    BY <1>9 DEF WriteFile
  <2> QED BY <1>4, <1>5, <1>6, <2>1 DEF TreeKept
<1> QED
  BY <1>1, <1>7, <1>8, <1>9
  DEF handleRead, WriteFails, handleCreateDir, handleRemoveDir, handleListDir

\* What a reply says about a directory stays true while nothing changes there.
LEMMA KeptStaysTrue ==
  ASSUME TreeInv, TreeInv', NEW i \in Owners, NEW req \in Requests(i), NEW rep \in Replies,
         req.path[1] = i, TreeKept(i), StillTrue(i, req, rep)
  PROVE  StillTrue(i, req, rep)'
<1>1. /\ dirs \subseteq DirPaths /\ dirs' \subseteq DirPaths
      /\ files \subseteq Paths /\ files' \subseteq Paths
  BY DEF TreeInv, TreeTypeOK
<1>2. CASE req.op = "RD"
  <2>1. req.path \in Paths
    BY <1>2, RequestPath
  <2>2. ReadReply(req)' = ReadReply(req)
    BY <2>1 DEF ReadReply, TreeKept
  <2> QED BY <1>2, <2>2 DEF StillTrue
<1>3. CASE req.op = "WR"
  <2>1. req.path \in Paths /\ Parent(req.path) \in DirPaths /\ Parent(req.path)[1] = i
    BY <1>3, RequestPath, ParentOf
  <2>2. /\ req.path \in files' <=> req.path \in files
        /\ content'[req.path] = content[req.path]
        /\ Parent(req.path) \in dirs' <=> Parent(req.path) \in dirs
    BY <2>1 DEF TreeKept
  <2> QED BY <1>3, <2>2 DEF StillTrue, Parent
<1>4. CASE req.op \in {"DC", "DR"}
  <2>1. Parent(req.path) \in DirPaths /\ Parent(req.path)[1] = i
    BY <1>4, RequestPath DEF Parent, DirPaths
  <2>2. Parent(req.path) \in dirs' <=> Parent(req.path) \in dirs
    BY <2>1 DEF TreeKept
  <2>3. \A p \in Paths : Parent(p) = Parent(req.path) => (p \in files' <=> p \in files)
    BY <2>1 DEF TreeKept, Parent
  <2>4. MayRemove(Parent(req.path))' <=> MayRemove(Parent(req.path))
    BY <1>1, <2>2, <2>3 DEF MayRemove, Parent
  <2> QED BY <1>4, <2>2, <2>4 DEF StillTrue, Parent
<1>5. CASE req.op = "DL"
  <2>1. {q \in files' : Parent(q) = <<i, Top>>} = {q \in files : Parent(q) = <<i, Top>>}
    BY <1>1 DEF TreeKept, Parent
  <2>2. {e \in dirs' : e[1] = i /\ e[2] # Top} = {e \in dirs : e[1] = i /\ e[2] # Top}
    BY <1>1 DEF TreeKept
  <2>3. Listing(i)' = Listing(i)
    BY <2>1, <2>2 DEF Listing, Parent
  <2>4. rep.names = Listing(i)
    BY <1>5 DEF StillTrue
  <2> QED BY <1>5, <2>3, <2>4 DEF StillTrue
<1> QED
  <2>1. req.op \in {"RD", "WR", "DC", "DR", "DL"}
    BY DEF Requests
  <2> QED BY <1>2, <1>3, <1>4, <1>5, <2>1

\* Calls whose app, request and reply stay the same remain fresh, if the step
\* leaves their directory alone.
LEMMA CallStaysFresh ==
  ASSUME TreeInv, TreeInv', CallInv, PrivateRepliesAreFresh,
         NEW i \in Owners, InCall(i), call[i].req.path[1] = i, TreeKept(i),
         call'[i].req = call[i].req, call'[i].rep = call[i].rep
  PROVE  StillTrue(i, call[i].req, call[i].rep)'
<1>1. PICK req \in Requests(i) : req = call[i].req
  BY CallParts
<1>2. PICK rep \in Replies : rep = call[i].rep
  BY CallParts
<1>3. StillTrue(i, req, rep)
  BY <1>1, <1>2 DEF PrivateRepliesAreFresh
<1>4. StillTrue(i, req, rep)'
  BY <1>1, <1>2, <1>3, KeptStaysTrue
<1>5. req = call'[i].req /\ rep = call'[i].rep
  BY <1>1, <1>2
<1> QED BY <1>4, <1>5 DEF StillTrue, ReadReply, Reply0, Listing, MayRemove, Parent

LEMMA FreshInductive ==
  ASSUME TreeInv, CallInv, PrivateRepliesAreFresh, [Next]_vars
  PROVE  CallInv' /\ PrivateRepliesAreFresh'
<1> USE TreeInductive
<1>1. ASSUME UNCHANGED serverVars, NEW i \in Owners PROVE TreeKept(i)
  BY <1>1 DEF serverVars, TreeKept
<1>2. CASE UNCHANGED vars
  <2>1. UNCHANGED serverVars /\ call' = call
    BY <1>2 DEF vars
  <2>2. CallInv'
    BY <2>1 DEF CallInv, InCall, WriteReplyFits, IsRegistered
  <2>3. ASSUME NEW i \in Owners, InCall(i), call[i].req.path[1] = i
        PROVE  StillTrue(i, call[i].req, call[i].rep)'
    BY <1>1, <2>1, <2>3, CallStaysFresh
  <2> QED BY <2>1, <2>2, <2>3 DEF PrivateRepliesAreFresh, InCall
<1>3. ASSUME NEW i \in Owners, Serve(i) PROVE CallInv' /\ PrivateRepliesAreFresh'
  <2>1. PICK req \in Requests(i), rep \in Replies : Answers(i, req, rep)
    BY <1>3, HandlerAnswers DEF Serve
  <2>2. /\ call'[i] = [stage |-> "served", req |-> req, rep |-> rep]
        /\ \A j \in Owners : j # i => call'[j] = call[j]
        /\ CallInv'
    BY <2>1, CallBegins
  <2>3. ASSUME NEW j \in Owners, InCall(j)', call'[j].req.path[1] = j
        PROVE  StillTrue(j, call[j].req, call[j].rep)'
    <3>1. CASE j = i
      <4>1. StillTrue(i, req, rep)'
        BY <2>1 DEF Answers
      <4>2. call'[i].req = req /\ call'[i].rep = rep
        BY <2>2
      <4> QED BY <3>1, <4>1, <4>2 DEF StillTrue, ReadReply, Reply0, Listing, MayRemove, Parent
    <3>2. CASE j # i
      <4>1. InCall(j) /\ call[j].req.path[1] = j /\ call'[j] = call[j]
        BY <2>2, <2>3, <3>2 DEF InCall
      <4>2. TreeKept(j)
        BY <1>3, <3>2, OtherTreesKept DEF Serve
      <4> QED BY <4>1, <4>2, CallStaysFresh
    <3> QED BY <3>1, <3>2
  <2> QED BY <2>2, <2>3 DEF PrivateRepliesAreFresh
<1>4. ASSUME NEW i \in Owners, Register(i) \/ Unregister(i) \/ JustReceive(i)
      PROVE  CallInv' /\ PrivateRepliesAreFresh'
  <2>1. call[i].stage = "served" /\ call' = Received(i) /\ UNCHANGED serverVars
    BY <1>4 DEF Register, Unregister, JustReceive
  <2>2. /\ call'[i] = [stage |-> "received", req |-> call[i].req, rep |-> call[i].rep]
        /\ \A j \in Owners : j # i => call'[j] = call[j]
        /\ CallInv'
    BY <2>1, CallReceived
  <2>3. ASSUME NEW j \in Owners, InCall(j)', call'[j].req.path[1] = j
        PROVE  StillTrue(j, call[j].req, call[j].rep)'
    <3>1. call'[j].req = call[j].req /\ call'[j].rep = call[j].rep
      BY <2>2
    <3>2. InCall(j)
      BY <2>1, <2>2, <2>3 DEF InCall
    <3> QED BY <1>1, <2>1, <2>3, <3>1, <3>2, CallStaysFresh
  <2> QED BY <2>2, <2>3 DEF PrivateRepliesAreFresh
<1>5. ASSUME NEW i \in Owners, Consume(i) PROVE CallInv' /\ PrivateRepliesAreFresh'
  <2>1. /\ ~InCall(i)' /\ CallInv' /\ UNCHANGED serverVars
        /\ \A j \in Owners : j # i => call'[j] = call[j]
    BY <1>5, CallEnds DEF Consume
  <2>2. ASSUME NEW j \in Owners, InCall(j)', call'[j].req.path[1] = j
        PROVE  StillTrue(j, call[j].req, call[j].rep)'
    <3>1. call'[j] = call[j] /\ InCall(j)
      BY <2>1, <2>2 DEF InCall
    <3> QED BY <1>1, <2>1, <2>2, <3>1, CallStaysFresh
  <2> QED BY <2>1, <2>2 DEF PrivateRepliesAreFresh
<1> QED BY <1>2, <1>3, <1>4, <1>5 DEF Next

LEMMA FreshInitially == Init => CallInv /\ PrivateRepliesAreFresh
BY DEF Init, CallInv, CallOf, InCall, Idle, PrivateRepliesAreFresh

\* For all numbers of apps, directories, names, offsets and calls, and however
\* long the kernel holds a reply: what it says about the app's own directory
\* is still true when the app reads it, because Targets lets no other app
\* change that directory.
THEOREM PrivateRepliesStayFresh == Spec => []PrivateRepliesAreFresh
<1>1. Init => TreeInv /\ CallInv /\ PrivateRepliesAreFresh
  BY TreeInitially, FreshInitially
<1>2. TreeInv /\ CallInv /\ PrivateRepliesAreFresh /\ [Next]_vars
        => TreeInv' /\ CallInv' /\ PrivateRepliesAreFresh'
  BY TreeInductive, FreshInductive
<1> QED BY <1>1, <1>2, PTL DEF Spec
----------------------------------------------------------------------------
(* The registry of written files. *)

\* The least of a set of indexes is in it.  (Min chooses one, so that there is
\* one must be shown: strict inclusion of the sets {y : y <= x} is well
\* founded.)
LEMMA LeastIndex ==
  ASSUME NEW n \in Nat, NEW I, I \subseteq 1..n, I # {}
  PROVE  Min(I) \in I
<1> DEFINE UpTo(x) == {y \in I : y <= x}
           T == {UpTo(x) : x \in I}
           R == StrictSubsetOrdering(1..n)
<1>1. IsFiniteSet(1..n)
  BY FS_Interval
<1>2. IsWellFoundedOn(R, SUBSET (1..n))
  BY <1>1, FS_StrictSubsetOrderingWellFounded, FS_FiniteSubsetsOfFinite
<1>3. T \subseteq SUBSET (1..n) /\ T # {}
  OBVIOUS
<1>4. \E t \in T : \A u \in T : <<u, t>> \notin R
  <2> HIDE DEF T, R
  <2> QED BY <1>2, <1>3, WFMin
<1>5. PICK x \in I : \A y \in I : <<UpTo(y), UpTo(x)>> \notin R
  BY <1>4
<1>6. ASSUME NEW y \in I PROVE x <= y
  <2>0. /\ x \in Int /\ y \in Int /\ \A z \in I : z \in Int
    BY <1>6
  <2> SUFFICES ASSUME y < x PROVE FALSE
    BY <2>0
  <2>1. UpTo(y) \subseteq UpTo(x) /\ x \in UpTo(x) /\ x \notin UpTo(y)
    <3>1. \A z \in I : z <= y => z <= x
      BY <2>0
    <3>2. x <= x /\ ~(x <= y)
      BY <2>0
    <3> QED BY <3>1, <3>2
  <2>2. UpTo(y) \in SUBSET (1..n) /\ UpTo(x) \in SUBSET (1..n)
    OBVIOUS
  <2> HIDE DEF UpTo
  <2>3. <<UpTo(y), UpTo(x)>> \in R
    BY <2>1, <2>2 DEF StrictSubsetOrdering
  <2> QED BY <1>5, <2>3
<1> QED BY <1>6 DEF Min

\* RemoveFirst takes away at most one occurrence of e.
LEMMA RemoveFirstFacts ==
  ASSUME NEW S, NEW s \in Seq(S), NEW e
  PROVE  /\ RemoveFirst(s, e) \in Seq(S)
         /\ Len(RemoveFirst(s, e)) <= Len(s)
         /\ Range(s) \ {e} \subseteq Range(RemoveFirst(s, e))
<1> DEFINE I == {i \in 1..Len(s) : s[i] = e}
<1>0. Len(s) \in Nat
  OBVIOUS
<1>1. CASE I = {}
  <2>1. RemoveFirst(s, e) = s
    BY <1>1 DEF RemoveFirst
  <2> QED BY <1>0, <2>1
<1>2. CASE I # {}
  <2> DEFINE k == Min(I)
  <2>1. k \in 1..Len(s) /\ s[k] = e
    BY <1>0, <1>2, LeastIndex
  <2>2. RemoveFirst(s, e) = SubSeq(s, 1, k - 1) \o SubSeq(s, k + 1, Len(s))
    <3>1. SelectInSeq(s, LAMBDA v : v = e) = k
      BY <1>2 DEF SelectInSeq
    <3>2. \E i \in 1..Len(s) : s[i] = e
      BY <1>2
    <3> QED BY <3>1, <3>2 DEF RemoveFirst, RemoveAt
  <2> HIDE DEF k
  <2> DEFINE r == SubSeq(s, 1, k - 1) \o SubSeq(s, k + 1, Len(s))
  <2>3. /\ r \in Seq(S) /\ Len(r) = Len(s) - 1
        /\ \A j \in 1..(Len(s) - 1) : r[j] = IF j < k THEN s[j] ELSE s[j + 1]
    <3> DEFINE a == SubSeq(s, 1, k - 1)
               b == SubSeq(s, k + 1, Len(s))
    <3>1. /\ a \in Seq(S) /\ Len(a) = k - 1 /\ \A j \in 1..(k - 1) : a[j] = s[j]
      BY <1>0, <2>1, SubSeqProperties
    <3>2. /\ b \in Seq(S) /\ Len(b) = Len(s) - k
          /\ \A j \in 1..(Len(s) - k) : b[j] = s[j + k]
      BY <1>0, <2>1, SubSeqProperties
    <3> HIDE DEF a, b
    <3>3. /\ a \o b \in Seq(S) /\ Len(a \o b) = Len(s) - 1
          /\ \A j \in 1..(Len(s) - 1) :
               (a \o b)[j] = IF j < k THEN a[j] ELSE b[j - (k - 1)]
      <4>1. /\ a \o b \in Seq(S) /\ Len(a \o b) = Len(a) + Len(b)
            /\ \A j \in 1..(Len(a) + Len(b)) :
                 (a \o b)[j] = IF j <= Len(a) THEN a[j] ELSE b[j - Len(a)]
        BY <3>1, <3>2, ConcatProperties
      <4>2. /\ Len(a) = k - 1 /\ Len(a) + Len(b) = Len(s) - 1
            /\ \A j \in 1..(Len(s) - 1) : j <= k - 1 <=> j < k
        BY <1>0, <2>1, <3>1, <3>2
      <4> QED BY <4>1, <4>2
    <3>4. ASSUME NEW j \in 1..(Len(s) - 1)
          PROVE  (a \o b)[j] = IF j < k THEN s[j] ELSE s[j + 1]
      <4>1. CASE j < k
        BY <1>0, <2>1, <3>1, <3>3, <4>1
      <4>2. CASE ~(j < k)
        <5>1. j - (k - 1) \in 1..(Len(s) - k) /\ (j - (k - 1)) + k = j + 1
          BY <1>0, <2>1, <4>2
        <5> QED BY <3>2, <3>3, <4>2, <5>1
      <4> QED BY <4>1, <4>2
    <3> QED BY <3>3, <3>4 DEF a, b
  <2> HIDE DEF r
  <2>4. ASSUME NEW x \in Range(s), x # e PROVE x \in Range(r)
    <3>1. PICK j \in 1..Len(s) : s[j] = x
      BY <2>4 DEF Range
    <3> DEFINE m == IF j < k THEN j ELSE j - 1
    <3>2. m \in 1..(Len(s) - 1) /\ r[m] = x
      <4>1. j # k
        BY <2>1, <2>4, <3>1
      <4>2. CASE j < k
        BY <1>0, <2>1, <2>3, <3>1, <4>2
      <4>3. CASE j > k
        <5>1. m = j - 1 /\ m \in 1..(Len(s) - 1) /\ ~(m < k) /\ m + 1 = j
          BY <1>0, <2>1, <3>1, <4>3
        <5> QED BY <2>3, <3>1, <5>1
      <4> QED BY <1>0, <2>1, <3>1, <4>1, <4>2, <4>3
    <3> HIDE DEF m
    <3>3. m \in DOMAIN r
      BY <1>0, <2>3, <3>2
    <3> QED BY <3>2, <3>3 DEF Range
  <2> QED BY <1>0, <2>2, <2>3, <2>4 DEF r
<1> QED BY <1>1, <1>2

RegistryInv ==
  /\ written \in [Owners -> Seq(Entries)]
  /\ \A i \in Owners : Len(written[i]) <= MaxWritten
  /\ registered \in [Owners -> SUBSET Paths]
  /\ dropped \subseteq Paths
  /\ calls \in 0..MaxCalls
  /\ RegistryCoversFiles

LEMMA RegistryInitially == Init => RegistryInv
<1> SUFFICES ASSUME Init PROVE RegistryInv
  OBVIOUS
<1>1. ASSUME NEW i \in Owners
      PROVE  written[i] \in Seq(Entries) /\ Len(written[i]) <= MaxWritten
  <2>1. PICK c \in InitialCounts : written[i] \in [1..c -> {Garbage, NoPath}]
    BY DEF Init
  <2>2. c \in Nat /\ c <= MaxWritten
    BY RegistryAssumption
  <2>3. written[i] \in [1..c -> Entries]
    BY <2>1 DEF Entries
  <2> QED BY <2>2, <2>3
<1>2. written = [i \in Owners |-> written[i]]
  BY DEF Init
<1>3. calls \in 0..MaxCalls
  BY RegistryAssumption DEF Init
<1> QED BY <1>1, <1>2, <1>3 DEF RegistryInv, RegistryCoversFiles, Init, ServerInit

\* Only the tree and the calls change: every file is accounted for as before,
\* or by the reply to the write that has created it.
LEMMA CoverKept ==
  ASSUME RegistryInv, UNCHANGED <<written, histories>>, calls' \in 0..MaxCalls,
         \A p \in files' : p \in files
           \/ \E i \in Owners :
                call'[i].stage = "served" /\ call'[i].req.op = "WR" /\ call'[i].rep.path = p,
         \A i \in Owners, p \in files :
           (call[i].stage = "served" /\ call[i].req.op = "WR" /\ call[i].rep.path = p)
             => call'[i] = call[i]
  PROVE  RegistryInv'
<1>1. written' = written /\ registered' = registered /\ dropped' = dropped
  BY DEF histories
<1>2. RegistryCoversFiles'
  BY <1>1 DEF RegistryInv, RegistryCoversFiles
<1> QED BY <1>1, <1>2 DEF RegistryInv

LEMMA RegisterKeeps ==
  ASSUME TreeInv, CallInv, RegistryInv, NEW i \in Owners, Register(i)
  PROVE  RegistryInv'
<1> DEFINE p == call[i].rep.path
<1>1. /\ call[i].stage = "served" /\ call[i].req.op = "WR" /\ IsRegistered(call[i].rep)
      /\ call' = Received(i) /\ files' = files /\ calls' = calls
  BY DEF Register, serverVars
<1>2. \A j \in Owners : j # i => call'[j] = call[j]
  BY <1>1, CallReceived
<1>3. p \in Paths
  BY <1>1, CallParts, RequestPath DEF WriteReplyFits, InCall
<1>4. p \in Entries
  BY <1>3 DEF Entries
<1>5. /\ written \in [Owners -> Seq(Entries)] /\ \A j \in Owners : Len(written[j]) <= MaxWritten
      /\ registered \in [Owners -> SUBSET Paths] /\ dropped \subseteq Paths
      /\ \A j \in Owners : registered[j] \subseteq Range(written[j])
  BY DEF RegistryInv, RegistryCoversFiles
<1> HIDE DEF p
<1>6. ASSUME NEW q \in files
      PROVE  \/ q \in dropped \/ q = p
             \/ \E j \in Owners :
                  \/ q \in registered[j]
                  \/ call'[j].stage = "served" /\ call'[j].req.op = "WR" /\ call'[j].rep.path = q
  BY <1>2 DEF RegistryInv, RegistryCoversFiles, p
<1>7. CASE HasRoom(i)
  <2>1. /\ written' = [written EXCEPT ![i] = Append(@, p)]
        /\ registered' = [registered EXCEPT ![i] = @ \cup {p}]
        /\ dropped' = dropped
    BY <1>7 DEF Register, p
  <2>2. /\ written[i] \in Seq(Entries) /\ Len(written[i]) < MaxWritten
        /\ MaxWritten \in Nat
    BY <1>5, <1>7, RegistryAssumption DEF HasRoom
  <2>3. /\ Append(written[i], p) \in Seq(Entries)
        /\ Len(Append(written[i], p)) = Len(written[i]) + 1
        /\ \A k \in 1..Len(written[i]) : Append(written[i], p)[k] = written[i][k]
        /\ Append(written[i], p)[Len(written[i]) + 1] = p
    BY <1>4, <2>2, AppendProperties
  <2>4. Range(written[i]) \cup {p} \subseteq Range(Append(written[i], p))
    <3>1. DOMAIN written[i] = 1..Len(written[i])
          /\ DOMAIN Append(written[i], p) = 1..(Len(written[i]) + 1)
      BY <2>2, <2>3
    <3>2. Len(written[i]) \in Nat
      BY <2>2
    <3> QED BY <2>3, <3>1, <3>2 DEF Range
  <2>5. Len(Append(written[i], p)) <= MaxWritten
    BY <2>2, <2>3
  <2>6. /\ written' \in [Owners -> Seq(Entries)]
        /\ \A j \in Owners : Len(written'[j]) <= MaxWritten
    BY <1>5, <2>1, <2>3, <2>5
  <2>7. /\ registered' \in [Owners -> SUBSET Paths]
        /\ \A j \in Owners : registered'[j] \subseteq Range(written'[j])
    BY <1>3, <1>5, <2>1, <2>4
  <2>8. \A j \in Owners : registered[j] \subseteq registered'[j]
    BY <1>5, <2>1
  <2>9. p \in registered'[i]
    BY <1>5, <2>1
  <2>10. RegistryCoversFiles'
    BY <1>1, <1>6, <2>1, <2>7, <2>8, <2>9 DEF RegistryCoversFiles
  <2> QED BY <1>1, <1>5, <2>1, <2>6, <2>7, <2>10 DEF RegistryInv
<1>8. CASE ~HasRoom(i)
  <2>1. dropped' = dropped \cup {p} /\ written' = written /\ registered' = registered
    BY <1>8 DEF Register, p
  <2>2. RegistryCoversFiles'
    BY <1>1, <1>5, <1>6, <2>1 DEF RegistryCoversFiles
  <2> QED BY <1>1, <1>3, <1>5, <2>1, <2>2 DEF RegistryInv
<1> QED BY <1>7, <1>8

LEMMA UnregisterKeeps ==
  ASSUME TreeInv, CallInv, RegistryInv, NEW i \in Owners, Unregister(i)
  PROVE  RegistryInv'
<1>1. /\ call[i].stage = "served" /\ call[i].req.op = "WR" /\ call[i].rep.isDeleting
      /\ call' = Received(i) /\ files' = files /\ calls' = calls
      /\ written' = [written EXCEPT ![i] = RemoveFirst(@, call[i].rep.path)]
      /\ registered' = registered /\ dropped' = dropped
  BY DEF Unregister, serverVars, histories
<1>2. \A j \in Owners : j # i => call'[j] = call[j]
  BY <1>1, CallReceived
<1>3. call[i].rep.path = NoPath
  BY <1>1, CallParts DEF WriteReplyFits, IsRegistered, InCall
<1>4. /\ written \in [Owners -> Seq(Entries)] /\ \A j \in Owners : Len(written[j]) <= MaxWritten
      /\ registered \in [Owners -> SUBSET Paths] /\ files \subseteq Paths
      /\ \A j \in Owners : registered[j] \subseteq Range(written[j])
  BY DEF RegistryInv, RegistryCoversFiles, TreeInv, TreeTypeOK
<1> DEFINE s == written[i]
           r == RemoveFirst(s, NoPath)
<1>5. s \in Seq(Entries) /\ Len(s) <= MaxWritten /\ Len(s) \in Nat /\ MaxWritten \in Nat
  BY <1>4, RegistryAssumption
<1> HIDE DEF s
<1>6. r \in Seq(Entries) /\ Len(r) <= Len(s) /\ Range(s) \ {NoPath} \subseteq Range(r)
  BY <1>5, RemoveFirstFacts
<1>7. Len(r) <= MaxWritten
  <2>1. Len(r) \in Nat
    BY <1>6
  <2> QED BY <1>5, <1>6, <2>1
<1> HIDE DEF r
<1>8. written' = [written EXCEPT ![i] = r]
  BY <1>1, <1>3 DEF r, s
<1>9. registered[i] \subseteq Range(r)
  BY <1>4, <1>6, NoPathIsNone DEF s
<1>10. RegistryCoversFiles'
  <2>1. ASSUME NEW q \in files
        PROVE  \/ q \in dropped
               \/ \E j \in Owners :
                    \/ q \in registered[j]
                    \/ call'[j].stage = "served" /\ call'[j].req.op = "WR" /\ call'[j].rep.path = q
    <3>1. q # NoPath
      BY <1>4, NoPathIsNone
    <3> QED BY <1>2, <1>3, <3>1 DEF RegistryInv, RegistryCoversFiles
  <2>2. \A j \in Owners : registered'[j] \subseteq Range(written'[j])
    BY <1>1, <1>4, <1>8, <1>9
  <2> QED BY <1>1, <2>1, <2>2 DEF RegistryCoversFiles
<1>11. /\ written' \in [Owners -> Seq(Entries)]
       /\ \A j \in Owners : Len(written'[j]) <= MaxWritten
  BY <1>4, <1>6, <1>7, <1>8
<1> QED BY <1>1, <1>10, <1>11 DEF RegistryInv

LEMMA RegistryInductive ==
  ASSUME TreeInv, CallInv, RegistryInv, [Next]_vars
  PROVE  RegistryInv'
<1>1. ASSUME NEW i \in Owners, Serve(i) PROVE RegistryInv'
  <2>1. PICK req \in Requests(i), rep \in Replies : Answers(i, req, rep)
    BY <1>1, HandlerAnswers DEF Serve
  <2>2. /\ call'[i] = [stage |-> "served", req |-> req, rep |-> rep]
        /\ \A j \in Owners : j # i => call'[j] = call[j]
        /\ ~InCall(i)
    BY <2>1, CallBegins
  <2>3. \A q \in files' : q \in files
          \/ \E j \in Owners :
               call'[j].stage = "served" /\ call'[j].req.op = "WR" /\ call'[j].rep.path = q
    BY <2>1, <2>2 DEF Answers
  <2>4. \A j \in Owners : call[j].stage = "served" => call'[j] = call[j]
    <3>1. call[i].stage # "served"
      BY <2>2 DEF Answers, Idle, InCall, CallInv, CallOf
    <3> QED BY <2>2, <3>1
  <2>5. calls' \in 0..MaxCalls
    <3>1. calls \in 0..MaxCalls /\ MaxCalls \in Nat
      BY RegistryAssumption DEF RegistryInv
    <3>2. calls < MaxCalls /\ calls' = calls + 1
      BY <1>1 DEF Serve
    <3> QED BY <3>1, <3>2
  <2>6. UNCHANGED <<written, histories>>
    BY <1>1 DEF Serve
  <2> QED BY <2>3, <2>4, <2>5, <2>6, CoverKept
<1>2. ASSUME NEW i \in Owners, JustReceive(i) PROVE RegistryInv'
  <2>1. /\ call[i].stage = "served" /\ call' = Received(i) /\ files' = files
        /\ UNCHANGED <<written, histories>> /\ calls' = calls
        /\ call[i].req.op = "WR" => ~IsRegistered(call[i].rep)
    BY <1>2 DEF JustReceive, serverVars
  <2>2. \A j \in Owners : j # i => call'[j] = call[j]
    BY <2>1, CallReceived
  <2>3. call[i].req.op = "WR" => call[i].rep.path = NoPath
    BY <2>1, CallParts DEF WriteReplyFits, InCall
  <2>4. files \subseteq Paths /\ calls' \in 0..MaxCalls
    BY <2>1 DEF TreeInv, TreeTypeOK, RegistryInv
  <2>5. \A j \in Owners, q \in files :
          (call[j].stage = "served" /\ call[j].req.op = "WR" /\ call[j].rep.path = q)
            => call'[j] = call[j]
    BY <2>2, <2>3, <2>4, NoPathIsNone
  <2> QED BY <2>1, <2>4, <2>5, CoverKept
<1>3. ASSUME NEW i \in Owners, Consume(i) PROVE RegistryInv'
  <2>1. /\ call[i].stage = "received" /\ files' = files
        /\ UNCHANGED <<written, histories>> /\ calls' = calls
    BY <1>3 DEF Consume, serverVars
  <2>2. \A j \in Owners : j # i => call'[j] = call[j]
    BY <1>3, CallEnds
  <2>3. calls' \in 0..MaxCalls
    BY <2>1 DEF RegistryInv
  <2> QED BY <2>1, <2>2, <2>3, CoverKept
<1>4. CASE UNCHANGED vars
  BY <1>4 DEF vars, serverVars, histories, RegistryInv, RegistryCoversFiles
<1> QED BY <1>1, <1>2, <1>3, <1>4, RegisterKeeps, UnregisterKeeps DEF Next

LEMMA SfssInvariant == Spec => [](TreeInv /\ CallInv /\ PrivateRepliesAreFresh /\ RegistryInv)
<1>1. Init => TreeInv /\ CallInv /\ PrivateRepliesAreFresh /\ RegistryInv
  BY TreeInitially, FreshInitially, RegistryInitially
<1>2. TreeInv /\ CallInv /\ PrivateRepliesAreFresh /\ RegistryInv /\ [Next]_vars
        => TreeInv' /\ CallInv' /\ PrivateRepliesAreFresh' /\ RegistryInv'
  BY TreeInductive, FreshInductive, RegistryInductive
<1> QED BY <1>1, <1>2, PTL DEF Spec

\* Every variable keeps its type, and no registry is written past its end
\* (HasRoom, whatever written_files_count held at first).
THEOREM SfssTypeCorrect == Spec => []TypeOK
<1>1. TreeInv /\ CallInv /\ RegistryInv => TypeOK
  BY CallParts DEF TypeOK, TreeInv, TreeTypeOK, RegistryInv, DirPaths
<1> QED BY <1>1, SfssInvariant, PTL

\* Whatever the registry held at first: every file is in the registry of an app
\* that wrote it, or its reply has not arrived or found no room; and what has
\* been registered stays, because the reply to a removal carries no path.
THEOREM RegistryAlwaysCovers == Spec => []RegistryCoversFiles
<1>1. RegistryInv => RegistryCoversFiles
  BY DEF RegistryInv
<1> QED BY <1>1, SfssInvariant, PTL
----------------------------------------------------------------------------
(* What a write may change. *)

\* The blocks of the file written: it does not shrink, the block at the offset
\* is the writer's, the other old ones are kept and the gap is blank.
LEMMA ContentAfterKeeps ==
  ASSUME TreeTypeOK, NEW i \in Owners, NEW req \in Requests(i),
         req.op = "WR", ~IsRemoval(req)
  PROVE  /\ Len(ContentAfter(i, req)) >= Len(content[req.path])
         /\ \A b \in DOMAIN ContentAfter(i, req) :
              \/ b \in DOMAIN content[req.path] /\ ContentAfter(i, req)[b] = content[req.path][b]
              \/ b \notin DOMAIN content[req.path] /\ ContentAfter(i, req)[b] = Blank
              \/ req.offset = b - 1 /\ ContentAfter(i, req)[b] = i
<1> DEFINE s == content[req.path]
           n == LengthAfter(req)
<1>1. req.path \in Paths /\ req.offset \in Nat /\ req.len \in {0, 1}
  BY RequestPath
<1>2. s \in Seq(Blocks) /\ Len(s) \in Nat /\ DOMAIN s = 1..Len(s)
  BY <1>1 DEF TreeTypeOK
<1>3. n \in Nat /\ n >= Len(s)
  BY <1>1, <1>2 DEF LengthAfter
<1>4. /\ ContentAfter(i, req) \in Seq(Blocks)
      /\ DOMAIN ContentAfter(i, req) = 1..n
      /\ \A b \in 1..n : ContentAfter(i, req)[b] =
           IF b = req.offset + 1 /\ req.len = 1 THEN i
           ELSE IF b <= Len(s) THEN s[b] ELSE Blank
  BY ContentAfterType DEF ContentAfter
<1> HIDE DEF n, s
<1>5. Len(ContentAfter(i, req)) = n
  BY <1>3, <1>4
<1>6. ASSUME NEW b \in 1..n
      PROVE  \/ b \in DOMAIN s /\ ContentAfter(i, req)[b] = s[b]
             \/ b \notin DOMAIN s /\ ContentAfter(i, req)[b] = Blank
             \/ req.offset = b - 1 /\ ContentAfter(i, req)[b] = i
  BY <1>1, <1>2, <1>3, <1>4
<1> QED BY <1>3, <1>4, <1>5, <1>6 DEF s

\* Block b of p is the one that the write served in this step has asked for.
OwnBlock(p, b) ==
  \E i \in Owners :
    /\ call'[i] # call[i]
    /\ call'[i].req.path = p /\ call'[i].req.offset = b - 1
    /\ content'[p][b] = i

BlocksKept(p) ==
  /\ Len(content'[p]) >= Len(content[p])
  /\ \A b \in DOMAIN content'[p] :
       \/ b \in DOMAIN content[p] /\ content'[p][b] = content[p][b]
       \/ b \notin DOMAIN content[p] /\ content'[p][b] = Blank
       \/ OwnBlock(p, b)

LEMMA BlocksKeptStep ==
  ASSUME TreeInv, CallInv, [Next]_vars, NEW p \in files, p \in files'
  PROVE  BlocksKept(p)
<1>1. p \in Paths /\ content \in [Paths -> Seq(Blocks)] /\ Len(content[p]) \in Nat
  BY DEF TreeInv, TreeTypeOK
<1>2. CASE content'[p] = content[p]
  BY <1>1, <1>2 DEF BlocksKept
<1>3. ASSUME NEW i \in Owners, Serve(i) PROVE BlocksKept(p)
  <2>1. PICK req \in Requests(i) :
          \/ handleRead(i, req)
          \/ RemoveFile(i, req) \/ WriteFile(i, req) \/ WriteFails(i, req)
          \/ handleCreateDir(i, req) \/ handleRemoveDir(i, req) \/ handleListDir(i, req)
    BY <1>3 DEF Serve, handleOperation
  <2>2. CASE content' = content
    BY <1>2, <2>2
  <2>3. CASE RemoveFile(i, req)
    <3>1. req.path # p /\ content' = [content EXCEPT ![req.path] = <<>>]
      BY <2>3 DEF RemoveFile
    <3> QED BY <1>1, <1>2, <3>1
  <2>4. CASE WriteFile(i, req) /\ req.path # p
    <3>1. content' = [content EXCEPT ![req.path] = ContentAfter(i, req)]
      BY <2>4 DEF WriteFile
    <3> QED BY <1>1, <1>2, <2>4, <3>1
  <2>5. CASE WriteFile(i, req) /\ req.path = p
    <3>1. /\ req.op = "WR" /\ ~IsRemoval(req)
          /\ content' = [content EXCEPT ![p] = ContentAfter(i, req)]
          /\ Answer(i, req, [Reply0 EXCEPT !.offset = req.offset, !.path = req.path])
      BY <2>5 DEF WriteFile
    <3>2. content'[p] = ContentAfter(i, req)
      BY <1>1, <3>1
    <3>3. call'[i].req = req /\ call'[i] # call[i]
      BY <3>1 DEF Answer, CallInv, Served, Idle
    <3>4. /\ Len(content'[p]) >= Len(content[p])
          /\ \A b \in DOMAIN content'[p] :
               \/ b \in DOMAIN content[p] /\ content'[p][b] = content[p][b]
               \/ b \notin DOMAIN content[p] /\ content'[p][b] = Blank
               \/ req.offset = b - 1 /\ content'[p][b] = i
      BY <2>5, <3>1, <3>2, ContentAfterKeeps DEF TreeInv
    <3> QED BY <2>5, <3>3, <3>4 DEF BlocksKept, OwnBlock
  <2> QED
    BY <2>1, <2>2, <2>3, <2>4, <2>5
    DEF handleRead, WriteFails, handleCreateDir, handleRemoveDir, handleListDir
<1>4. CASE content' = content
  BY <1>2, <1>4
<1> QED
  BY <1>3, <1>4
  DEF Next, Register, Unregister, JustReceive, Consume, vars, serverVars

\* A write touches nothing but its own block of its own file: every other block
\* that was there is kept and gaps are blank, for all files and offsets
\* (handleWrite opens with r+b before w+b and fills the gap).
THEOREM WritesKeepBlocks == Spec => BlocksAreKept
<1> DEFINE Kept ==
      \A p \in files \cap files' :
        /\ Len(content'[p]) >= Len(content[p])
        /\ \A b \in DOMAIN content'[p] :
             \/ b \in DOMAIN content[p] /\ content'[p][b] = content[p][b]
             \/ b \notin DOMAIN content[p] /\ content'[p][b] = Blank
             \/ \E i \in Owners :
                  /\ call'[i] # call[i]
                  /\ call'[i].req.path = p /\ call'[i].req.offset = b - 1
                  /\ content'[p][b] = i
<1>1. TreeInv /\ CallInv /\ [Next]_vars => [Kept]_vars
  BY BlocksKeptStep DEF BlocksKept, OwnBlock
<1> QED BY <1>1, SfssInvariant, PTL DEF Spec, BlocksAreKept
=============================================================================
