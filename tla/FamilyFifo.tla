----------------------------- MODULE FamilyFifo -----------------------------
(***************************************************************************)
(* LAB6/EX2: a parent opens a FIFO for reading without blocking, forks two *)
(* children that write one message each, waits for them and reads.         *)
(***************************************************************************)
EXTENDS Integers, Sequences, SequencesExt

VARIABLES
  pai,      \* where the parent is
  filho,    \* filho[i]: where child i is
  queue,    \* the messages in the FIFO
  reader,   \* the parent has it open for reading, and so have its children
  lidas     \* the messages the parent has printed

familyVars == <<pai, filho, queue, reader, lidas>>

Filhos == {1, 2}

FamilyInit ==
  /\ pai = "open"
  /\ filho = [i \in Filhos |-> "none"]
  /\ queue = <<>>
  /\ reader = FALSE
  /\ lidas = <<>>

\* The FIFO is made if it is not there, and opened (nobody else uses it).
OpenNonblocking ==
  /\ pai = "open"
  /\ reader' = TRUE
  /\ pai' = "fork"
  /\ UNCHANGED <<filho, queue, lidas>>

\* A fork may fail, which nobody notices.
ForkFilho(i) ==
  /\ pai = "fork" /\ filho[i] = "none"
  /\ \A j \in Filhos : j < i => filho[j] # "none"
  /\ \E status \in {"open", "failed"} : filho' = [filho EXCEPT ![i] = status]
  /\ pai' = IF i = 2 THEN "wait" ELSE "fork"
  /\ UNCHANGED <<queue, reader, lidas>>

FilhoOpens(i) ==
  /\ filho[i] = "open" /\ reader
  /\ filho' = [filho EXCEPT ![i] = "write"]
  /\ UNCHANGED <<pai, queue, reader, lidas>>

FilhoWrites(i) ==
  /\ filho[i] = "write"
  /\ queue' = Append(queue, i)
  /\ filho' = [filho EXCEPT ![i] = "ended"]
  /\ UNCHANGED <<pai, reader, lidas>>

\* Mutant: one wait for two children.
WaitForOne ==
  /\ pai = "wait"
  /\ \E i \in Filhos : filho[i] \in {"ended", "failed"}
  /\ pai' = "read"
  /\ UNCHANGED <<filho, queue, reader, lidas>>

WaitForBoth ==
  /\ pai = "wait"
  /\ \A i \in Filhos : filho[i] \in {"ended", "failed"}
  /\ pai' = "read"
  /\ UNCHANGED <<filho, queue, reader, lidas>>

\* An empty FIFO ends the loop, whether a child has it open (EAGAIN) or not.
ReadAll ==
  /\ pai = "read"
  /\ IF queue = <<>>
     THEN pai' = "ended" /\ reader' = FALSE
     ELSE UNCHANGED <<pai, reader>>
  /\ lidas' = lidas \o queue
  /\ queue' = <<>>
  /\ UNCHANGED filho

PaiStep == OpenNonblocking \/ (\E i \in Filhos : ForkFilho(i)) \/ WaitForBoth \/ ReadAll
FilhoStep(i) == FilhoOpens(i) \/ FilhoWrites(i)

FamilyNext == PaiStep \/ \E i \in Filhos : FilhoStep(i)
----------------------------------------------------------------------------
FamilyTypeOK ==
  /\ pai \in {"open", "fork", "wait", "read", "ended"}
  /\ filho \in [Filhos -> {"none", "open", "write", "ended", "failed"}]
  /\ queue \in Seq(Filhos)
  /\ reader \in BOOLEAN
  /\ lidas \in Seq(Filhos)

\* No child waits in open, the parent ends, and it has printed the message of
\* every child it could fork, once.
FamilyReads ==
  (pai = "fork") ~>
    /\ pai = "ended"
    /\ IsInjective(lidas)
    /\ ToSet(lidas) = {i \in Filhos : filho[i] # "failed"}
============================================================================
