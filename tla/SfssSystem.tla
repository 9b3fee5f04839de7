----------------------------- MODULE SfssSystem -----------------------------
(***************************************************************************)
(* The file server used by the apps through the kernel.  Of the kernel and *)
(* the apps only what concerns files is here: each app has at most one     *)
(* call in progress (T1System shows that), the kernel registers successful *)
(* writes when a reply arrives (recvUdpReply), and it may hold a reply for *)
(* any time before the app consumes it, while the calls of the other apps  *)
(* go on.  A lost reply is one that is never received.                     *)
(***************************************************************************)
EXTENDS Sfss, FiniteSets, SequencesExt

CONSTANTS
  MaxWritten,     \* MAX_WRITTEN_FILES (128 in the code)
  InitialCounts,  \* what written_files_count[i] may hold before its first use
  MaxCalls        \* bound on the number of calls

ASSUME RegistryAssumption ==
  /\ MaxWritten \in Nat
  /\ InitialCounts \subseteq 0..MaxWritten
  /\ MaxCalls \in Nat

VARIABLES
  written,     \* written[i]: written_files[i], up to written_files_count[i]
  registered,  \* registered[i]: the paths put there, a history
  dropped,     \* the paths that found no room in a registry, a history
  calls        \* number of calls so far

histories == <<registered, dropped>>
vars == <<serverVars, call, written, histories, calls>>

\* What an entry nobody has written may hold: the array is on the stack of
\* main and never initialised.
Garbage == <<"garbage">>
Entries == Paths \cup {Garbage, NoPath}

Init ==
  /\ ServerInit
  /\ call = [i \in Owners |-> Idle]
  /\ written \in [Owners -> UNION {[1..c -> {Garbage, NoPath}] : c \in InitialCounts}]
  /\ registered = [i \in Owners |-> {}]
  /\ dropped = {}
  /\ calls = 0
----------------------------------------------------------------------------
Serve(i) ==
  /\ calls < MaxCalls
  /\ calls' = calls + 1
  /\ handleOperation(i)
  /\ UNCHANGED <<written, histories>>

\* Mutant: `offset > 0'.
IsRegisteredPositive(rep) == ~rep.isDeleting /\ rep.offset > 0

IsRegistered(rep) == ~rep.isDeleting /\ rep.offset >= 0

\* Mutant: `pos <= MAX_WRITTEN_FILES'.
HasRoomAtEnd(i) == Len(written[i]) <= MaxWritten

HasRoom(i) == Len(written[i]) < MaxWritten

Received(i) == [call EXCEPT ![i].stage = "received"]

\* recvUdpReply, the reply to a successful write: append its path.
Register(i) ==
  /\ call[i].stage = "served"
  /\ call[i].req.op = "WR" /\ IsRegistered(call[i].rep)
  /\ IF HasRoom(i)
     THEN /\ written' = [written EXCEPT ![i] = Append(@, call[i].rep.path)]
          /\ registered' = [registered EXCEPT ![i] = @ \cup {call[i].rep.path}]
          /\ UNCHANGED dropped
     ELSE /\ dropped' = dropped \cup {call[i].rep.path}
          /\ UNCHANGED <<written, registered>>
  /\ call' = Received(i)
  /\ UNCHANGED <<serverVars, calls>>

\* recvUdpReply, the reply to a removal: take its path out of the registry.
Unregister(i) ==
  /\ call[i].stage = "served"
  /\ call[i].req.op = "WR" /\ call[i].rep.isDeleting
  /\ written' = [written EXCEPT ![i] = RemoveFirst(@, call[i].rep.path)]
  /\ call' = Received(i)
  /\ UNCHANGED <<serverVars, histories, calls>>

\* recvUdpReply, any other reply.
JustReceive(i) ==
  /\ call[i].stage = "served"
  /\ call[i].req.op = "WR" => ~call[i].rep.isDeleting /\ ~IsRegistered(call[i].rep)
  /\ call' = Received(i)
  /\ UNCHANGED <<serverVars, written, histories, calls>>

\* The reply is delivered, and handle_reply of the app prints and clears it.
Consume(i) ==
  /\ call[i].stage = "received"
  /\ call' = [call EXCEPT ![i] = Idle]
  /\ UNCHANGED <<serverVars, written, histories, calls>>

Next == \E i \in Owners :
  Serve(i) \/ Register(i) \/ Unregister(i) \/ JustReceive(i) \/ Consume(i)

Spec == Init /\ [][Next]_vars
----------------------------------------------------------------------------
Replies ==
  [offset : {-2, -1, 1} \cup Offsets \cup {0}, error : {-1, 0},
   data : {<<>>} \cup {<<b>> : b \in Blocks}, isDeleting : BOOLEAN,
   path : Paths \cup (Trees \X (Dirs \cup {Top})) \cup {NoPath},
   names : SUBSET ((Names \X {"FILE"}) \cup (Dirs \X {"DIR"}))]

InCall(i) == call[i].stage # "idle"

\* `written_files' is never written past its end.
TypeOK ==
  /\ dirs \subseteq Trees \X (Dirs \cup {Top})
  /\ files \subseteq Paths
  /\ content \in [Paths -> Seq(Blocks)]
  /\ \A i \in Owners :
       InCall(i) => /\ call[i].stage \in {"served", "received"}
                    /\ call[i].req \in Requests(i)
                    /\ call[i].rep \in Replies
  /\ written \in [Owners -> Seq(Entries)]
  /\ \A i \in Owners : Len(written[i]) <= MaxWritten
  /\ registered \in [Owners -> SUBSET Paths]
  /\ dropped \subseteq Paths
  /\ calls \in 0..MaxCalls

\* The tree is well formed whatever order the apps' calls of WR, DC and DR
\* are served in: a file lies in a directory that exists and is never empty,
\* and a directory below /A<n> only exists with /A<n> (handleWrite,
\* handleCreateDir, handleRemoveDir, buildOwnerDir).
NoOrphans ==
  /\ \A p \in files : Parent(p) \in dirs /\ content[p] # <<>>
  /\ \A d \in dirs : <<d[1], Top>> \in dirs

\* A write touches nothing but its own block of its own file: every other
\* block that was there is kept, and what lies between the old end and the
\* offset is blank (handleWrite opens with r+b before w+b and fills the gap).
BlocksAreKept ==
  [][\A p \in files \cap files' :
       /\ Len(content'[p]) >= Len(content[p])
       /\ \A b \in DOMAIN content'[p] :
            \/ b \in DOMAIN content[p] /\ content'[p][b] = content[p][b]
            \/ b \notin DOMAIN content[p] /\ content'[p][b] = Blank
            \/ \E i \in Owners :
                 /\ call'[i] # call[i]
                 /\ call'[i].req.path = p /\ call'[i].req.offset = b - 1
                 /\ content'[p][b] = i]_vars

\* The outcome that reply rep to request req of app i reports is still true
\* of the tree.
StillTrue(i, req, rep) ==
  /\ req.op = "RD" => rep = ReadReply(req)
  /\ req.op = "WR" =>
       IF rep.isDeleting \/ rep.offset = -1 THEN req.path \notin files
       ELSE IF rep.offset = -2 THEN Parent(req.path) \notin dirs
       ELSE /\ req.path \in files
            /\ req.len = 1 => content[req.path][req.offset + 1] = i
  /\ req.op = "DC" => Parent(req.path) \in dirs
  /\ req.op = "DR" =>
       IF rep.error = 0 THEN Parent(req.path) \notin dirs ELSE ~MayRemove(Parent(req.path))
  /\ req.op = "DL" => rep.names = Listing(req.path[1])

\* However long the kernel holds a reply about the directory of the app
\* itself, the app learns from it what the tree is like when it reads it: no
\* other app can change that directory.  (About /A0 it may learn something
\* that is no longer true.)
PrivateRepliesAreFresh ==
  \A i \in Owners :
    InCall(i) /\ call[i].req.path[1] = i => StillTrue(i, call[i].req, call[i].rep)

\* Whatever the registry held at first: every file of the server is in the
\* registry of an app that wrote it, unless the reply to that write has not
\* arrived or found no room; and a path that has been put there stays, even
\* when the file is removed, whose reply carries no path (recvUdpReply).
RegistryCoversFiles ==
  /\ \A p \in files :
       \/ p \in dropped
       \/ \E i \in Owners :
            \/ p \in registered[i]
            \/ call[i].stage = "served" /\ call[i].req.op = "WR" /\ call[i].rep.path = p
  /\ \A i \in Owners : registered[i] \subseteq Range(written[i])
----------------------------------------------------------------------------
(* What the source says, and the code does not do. *)

\* "WRITE OK: 16 bytes foram escritos." (app_functions.c:158): what
\* handle_reply prints when the offset of the reply to a write is not negative.
WriteOkMeansWritten ==
  \A i \in Owners :
    LET c == call[i]
        s == content[c.req.path]
        block == c.req.offset + 1
    IN c.stage = "received" /\ c.req.op = "WR" /\ c.req.path[1] = i /\ c.rep.offset >= 0
         => block \in DOMAIN s /\ s[block] = i
============================================================================
