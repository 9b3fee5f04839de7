----------------------------- MODULE SemWriters -----------------------------
(***************************************************************************)
(* LAB7/EX3: writer1 adds 1 and writer2 adds 5 to an integer in shared     *)
(* memory, each in a loop, between P and V of a System V semaphore.  The   *)
(* semaphore and the memory outlive the programs, which may be killed and  *)
(* started again; only writer1 gives the semaphore its value.              *)
(***************************************************************************)
EXTENDS Integers, FiniteSets

CONSTANTS
  Rounds,      \* additions per run of a program (5 in the code)
  MaxStarts    \* bound on the number of times each program is started

ASSUME RoundsAssumption    == Rounds \in Nat \ {0}
ASSUME MaxStartsAssumption == MaxStarts \in Nat

VARIABLES
  semval,     \* value of the semaphore
  semadj,     \* semadj[w]: what SEM_UNDO adds to it when writer w ends
  valor,      \* the shared integer
  wpc,        \* wpc[w]: where writer w is
  copy,       \* copy[w]: the value writer w has read for its `+='
  round,      \* round[w]: additions writer w has made in this run
  starts,     \* starts[w]: number of its runs
  added,      \* sum of all additions made, a history
  isSet,      \* setSemValue has been called, a history
  clobbered   \* it has been called while a writer was inside, a history

writerVars == <<semval, semadj, valor, wpc, copy, round, starts, added, isSet, clobbered>>

Writers   == {1, 2}
Amount(w) == IF w = 1 THEN 1 ELSE 5

\* Between P and V.
Inside == {w \in Writers : wpc[w] \in {"read", "write", "V"}}

\* The semaphore is created with value 0 by whoever comes first.
WritersInit ==
  /\ semval = 0
  /\ semadj = [w \in Writers |-> 0]
  /\ valor = 0
  /\ wpc = [w \in Writers |-> "off"]
  /\ copy = [w \in Writers |-> 0]
  /\ round = [w \in Writers |-> 0]
  /\ starts = [w \in Writers |-> 0]
  /\ added = 0
  /\ isSet = FALSE
  /\ clobbered = FALSE

MoveTo(w, label) == wpc' = [wpc EXCEPT ![w] = label]

Start(w) ==
  /\ wpc[w] = "off" /\ starts[w] < MaxStarts
  /\ MoveTo(w, IF w = 1 THEN "set" ELSE "P")
  /\ starts' = [starts EXCEPT ![w] = @ + 1]
  /\ round' = [round EXCEPT ![w] = 0]
  /\ UNCHANGED <<semval, semadj, valor, copy, added, isSet, clobbered>>

\* SETVAL also cancels what every process has to undo.
setSemValue ==
  /\ wpc[1] = "set"
  /\ semval' = 1
  /\ semadj' = [w \in Writers |-> 0]
  /\ isSet' = TRUE
  /\ clobbered' = (clobbered \/ Inside # {})
  /\ MoveTo(1, "P")
  /\ UNCHANGED <<valor, copy, round, starts, added>>

\* Mutant: a semaphore that lets two in.
MayEnterNegative == semval >= 0

MayEnter == semval > 0

semaforoP(w) ==
  /\ wpc[w] = "P" /\ MayEnter
  /\ semval' = semval - 1
  /\ semadj' = [semadj EXCEPT ![w] = @ + 1]
  /\ MoveTo(w, "read")
  /\ UNCHANGED <<valor, copy, round, starts, added, isSet, clobbered>>

\* `*valor += n' reads, then writes.
Read(w) ==
  /\ wpc[w] = "read"
  /\ copy' = [copy EXCEPT ![w] = valor]
  /\ MoveTo(w, "write")
  /\ UNCHANGED <<semval, semadj, valor, round, starts, added, isSet, clobbered>>

Write(w) ==
  /\ wpc[w] = "write"
  /\ valor' = copy[w] + Amount(w)
  /\ added' = added + Amount(w)
  /\ MoveTo(w, "V")
  /\ UNCHANGED <<semval, semadj, copy, round, starts, isSet, clobbered>>

semaforoV(w) ==
  /\ wpc[w] = "V"
  /\ semval' = semval + 1
  /\ semadj' = [semadj EXCEPT ![w] = @ - 1]
  /\ round' = [round EXCEPT ![w] = @ + 1]
  /\ MoveTo(w, IF round[w] + 1 < Rounds THEN "P" ELSE "exit")
  /\ UNCHANGED <<valor, copy, starts, added, isSet, clobbered>>

\* Mutant: without SEM_UNDO.
NotUndone(w) == semval

\* The operating system undoes what the process has done to the semaphore,
\* which does not become negative.
Undone(w) == IF semval + semadj[w] < 0 THEN 0 ELSE semval + semadj[w]

Ends(w) ==
  /\ semval' = Undone(w)
  /\ semadj' = [semadj EXCEPT ![w] = 0]
  /\ MoveTo(w, "off")
  /\ UNCHANGED <<valor, copy, round, starts, added, isSet, clobbered>>

Exit(w) == wpc[w] = "exit" /\ Ends(w)

\* A writer is killed wherever it is.
Kill(w) == wpc[w] \notin {"off", "exit"} /\ Ends(w)

WriterStep(w) ==
  \/ w = 1 /\ setSemValue
  \/ semaforoP(w) \/ Read(w) \/ Write(w) \/ semaforoV(w) \/ Exit(w)

WritersNext == \E w \in Writers : Start(w) \/ WriterStep(w) \/ Kill(w)
----------------------------------------------------------------------------
WritersTypeOK ==
  /\ semval \in Nat
  /\ semadj \in [Writers -> Int]
  /\ valor \in Nat
  /\ wpc \in [Writers -> {"off", "set", "P", "read", "write", "V", "exit"}]
  /\ copy \in [Writers -> Nat]
  /\ round \in [Writers -> 0..Rounds]
  /\ starts \in [Writers -> 0..MaxStarts]
  /\ added \in Nat
  /\ isSet \in BOOLEAN
  /\ clobbered \in BOOLEAN

\* Unless writer1 was started while writer2 was inside, the semaphore counts:
\* at most one writer is inside, and after a writer has been killed between P
\* and V another one may enter (SEM_UNDO).
SemaphoreCounts ==
  ~clobbered => semval + Cardinality(Inside) = IF isSet THEN 1 ELSE 0

\* Under the same condition no addition is lost, over all runs and kills.
NoAdditionIsLost == ~clobbered => valor = added

\* Once writer1 has set the semaphore every writer ends, even if it was set
\* while somebody was inside, and whoever is killed.
WritersEnd ==
  \A w \in Writers : (isSet /\ wpc[w] # "off") ~> (wpc[w] = "off")
============================================================================
