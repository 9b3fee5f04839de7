----------------------------- MODULE TwoReaders -----------------------------
(***************************************************************************)
(* LAB5/EX4: a parent forks a writer and two readers around one pipe.      *)
(* Every process inherits both ends; a read returns 0, which ends a        *)
(* reader, only when nobody is left who could write.                       *)
(***************************************************************************)
EXTENDS Integers, Sequences, SequencesExt

CONSTANT Messages  \* number of messages (4 in the code)

ASSUME MessagesAssumption == Messages \in Nat \ {0}

VARIABLES
  pipe,      \* messages in the pipe
  holders,   \* holders[e]: who has end "r" or "w" of it open
  kin,       \* kin[p]: where process p is
  wrote,     \* number of messages the writer has written
  taken,     \* messages that have been read
  printed    \* printed[p]: those reader p has printed

readersVars == <<pipe, holders, kin, wrote, taken, printed>>

Readers == {"r1", "r2"}
Family  == {"parent", "writer"} \cup Readers

\* The other end, which a process closes first.
Unused(p) == IF p = "writer" THEN "r" ELSE "w"

ReadersInit ==
  /\ pipe = <<>>
  /\ holders = [e \in {"r", "w"} |-> {"parent"}]
  /\ kin = [p \in Family |-> IF p = "parent" THEN "writer" ELSE "none"]
  /\ wrote = 0
  /\ taken = {}
  /\ printed = [p \in Readers |-> <<>>]

\* The parent forks the three in this order, and a child has what it has.  It
\* goes on when a fork fails.
Successor(p) == CASE p = "writer" -> "r1" [] p = "r1" -> "r2" [] p = "r2" -> "close"

ForkKin(p) ==
  /\ kin["parent"] = p
  /\ kin' = [kin EXCEPT !["parent"] = Successor(p), ![p] = "close"]
  /\ holders' = [e \in {"r", "w"} |-> holders[e] \cup {p}]
  /\ UNCHANGED <<pipe, wrote, taken, printed>>

ForkFails(p) ==
  /\ kin["parent"] = p
  /\ kin' = [kin EXCEPT !["parent"] = Successor(p), ![p] = "failed"]
  /\ UNCHANGED <<pipe, holders, wrote, taken, printed>>

\* Mutant: the readers do not close the end they do not use.
CloseUnusedNever(p) ==
  /\ kin[p] = "close" /\ p # "parent"
  /\ kin' = [kin EXCEPT ![p] = "loop"]
  /\ holders' = IF p = "writer" THEN [holders EXCEPT !["r"] = @ \ {p}] ELSE holders
  /\ UNCHANGED <<pipe, wrote, taken, printed>>

CloseUnused(p) ==
  /\ kin[p] = "close" /\ p # "parent"
  /\ kin' = [kin EXCEPT ![p] = "loop"]
  /\ holders' = [holders EXCEPT ![Unused(p)] = @ \ {p}]
  /\ UNCHANGED <<pipe, wrote, taken, printed>>

\* The end of a process closes what it has open.
Ended(p, status) ==
  /\ kin' = [kin EXCEPT ![p] = status]
  /\ holders' = [e \in {"r", "w"} |-> holders[e] \ {p}]

\* A write without a reader kills the writer (SIGPIPE).
WriteMessage ==
  /\ kin["writer"] = "loop" /\ wrote < Messages
  /\ IF holders["r"] = {}
     THEN Ended("writer", "killed") /\ UNCHANGED <<pipe, wrote>>
     ELSE /\ pipe' = Append(pipe, wrote + 1)
          /\ wrote' = wrote + 1
          /\ UNCHANGED <<holders, kin>>
  /\ UNCHANGED <<taken, printed>>

WriterEnds ==
  /\ kin["writer"] = "loop" /\ wrote = Messages
  /\ Ended("writer", "ended")
  /\ UNCHANGED <<pipe, wrote, taken, printed>>

\* Mutant: `if' instead of `while'.
ReadMessagesOnce(p) ==
  /\ kin[p] = "loop" /\ pipe # <<>>
  /\ pipe' = <<>>
  /\ taken' = taken \cup ToSet(pipe)
  /\ printed' = [printed EXCEPT ![p] = Append(@, Head(pipe))]
  /\ Ended(p, "ended")
  /\ UNCHANGED wrote

\* The messages have no boundaries in the pipe, and together they fit into
\* the buffer: read takes all of them, printf prints up to the first NUL.
ReadMessages(p) ==
  /\ kin[p] = "loop" /\ pipe # <<>>
  /\ pipe' = <<>>
  /\ taken' = taken \cup ToSet(pipe)
  /\ printed' = [printed EXCEPT ![p] = Append(@, Head(pipe))]
  /\ UNCHANGED <<holders, kin, wrote>>

ReaderEnds(p) ==
  /\ kin[p] = "loop" /\ pipe = <<>> /\ holders["w"] = {}
  /\ Ended(p, "ended")
  /\ UNCHANGED <<pipe, wrote, taken, printed>>

CloseBoth ==
  /\ kin["parent"] = "close"
  /\ Ended("parent", "wait")
  /\ UNCHANGED <<pipe, wrote, taken, printed>>

\* waitpid(-1), after a failed fork, collects any child or fails: either way
\* three calls return only when no child is left.
WaitAll ==
  /\ kin["parent"] = "wait"
  /\ \A p \in Family \ {"parent"} : kin[p] \in {"ended", "killed", "failed"}
  /\ kin' = [kin EXCEPT !["parent"] = "ended"]
  /\ UNCHANGED <<pipe, holders, wrote, taken, printed>>

KinStep(p) ==
  \/ p = "parent" /\ ((\E q \in Family : ForkKin(q) \/ ForkFails(q)) \/ CloseBoth \/ WaitAll)
  \/ CloseUnused(p)
  \/ p = "writer" /\ (WriteMessage \/ WriterEnds)
  \/ p \in Readers /\ (ReadMessages(p) \/ ReaderEnds(p))

ReadersNext == \E p \in Family : KinStep(p)
----------------------------------------------------------------------------
ReadersTypeOK ==
  /\ pipe \in Seq(1..Messages)
  /\ holders \in [{"r", "w"} -> SUBSET Family]
  /\ kin \in [Family -> {"none", "writer", "r1", "r2", "close", "loop", "wait",
                         "ended", "killed", "failed"}]
  /\ wrote \in 0..Messages
  /\ taken \subseteq 1..Messages
  /\ printed \in [Readers -> Seq(1..Messages)]

\* SIGPIPE kills the writer only if neither reader could be forked.  With a
\* writer and one reader at least, every message has been read when the parent
\* ends, the first one has been printed, and none twice.  (One read together
\* with an earlier one is not printed.)
MessagesAreRead ==
  /\ kin["writer"] = "killed" => \A p \in Readers : kin[p] = "failed"
  /\ kin["parent"] = "ended" /\ kin["writer"] # "failed"
       /\ (\E p \in Readers : kin[p] # "failed") =>
       LET both == printed["r1"] \o printed["r2"]
       IN taken = 1..Messages /\ 1 \in ToSet(both) /\ IsInjective(both)

\* All processes end, whichever could be forked: neither reader waits for an end of the pipe that
\* the other one, or the parent, holds.
ReadersEnd == (kin["parent"] = "r1") ~> (kin["parent"] = "ended")
============================================================================
