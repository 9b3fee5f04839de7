-------------------------------- MODULE Labs --------------------------------
(***************************************************************************)
(* The exercises of the labs in which processes interact.  They are        *)
(* independent programs that share nothing, so that running two of them    *)
(* together would show nothing more: in a behaviour one exercise runs,     *)
(* which the initial state chooses.                                        *)
(***************************************************************************)
EXTENDS SemWriters, CallMonitor, UpperServer, TwoReaders, SharedProduct,
        LineFifo, FamilyFifo, MatrixSum, Alternation

VARIABLE exercise  \* the one that runs

labVars ==
  <<exercise, writerVars, monitorVars, upperVars, readersVars, productVars,
    lineVars, familyVars, matrixVars, tradeVars>>

Exercises ==
  {"LAB2/EX1", "LAB2/EX4", "LAB3", "LAB4/EX2", "LAB5/EX4", "LAB6/EX1", "LAB6/EX2",
   "LAB6/EX3", "LAB7/EX3"}

\* Only exercise e moves.
Runs(e) ==
  /\ exercise = e
  /\ UNCHANGED exercise
  /\ e = "LAB2/EX1" \/ UNCHANGED matrixVars
  /\ e = "LAB2/EX4" \/ UNCHANGED productVars
  /\ e = "LAB3"     \/ UNCHANGED tradeVars
  /\ e = "LAB4/EX2" \/ UNCHANGED monitorVars
  /\ e = "LAB5/EX4" \/ UNCHANGED readersVars
  /\ e = "LAB6/EX1" \/ UNCHANGED lineVars
  /\ e = "LAB6/EX2" \/ UNCHANGED familyVars
  /\ e = "LAB6/EX3" \/ UNCHANGED upperVars
  /\ e = "LAB7/EX3" \/ UNCHANGED writerVars

Init ==
  /\ exercise \in Exercises
  /\ WritersInit /\ MonitorInit /\ UpperInit /\ ReadersInit /\ ProductInit
  /\ LineInit /\ FamilyInit /\ MatrixInit /\ TradeInit
  /\ exists => exercise = "LAB6/EX3"
  /\ made => exercise = "LAB6/EX1"

Next ==
  \/ Runs("LAB2/EX1") /\ MatrixNext
  \/ Runs("LAB2/EX4") /\ ProductNext
  \/ Runs("LAB3")     /\ TradeNext
  \/ Runs("LAB4/EX2") /\ MonitorNext
  \/ Runs("LAB5/EX4") /\ ReadersNext
  \/ Runs("LAB6/EX1") /\ LineNext
  \/ Runs("LAB6/EX2") /\ FamilyNext
  \/ Runs("LAB6/EX3") /\ UpperNext
  \/ Runs("LAB7/EX3") /\ WritersNext

\* Each process is scheduled again and again.  Nobody must type, send a signal,
\* or start or kill a program.
Fairness ==
  /\ WF_labVars(Runs("LAB2/EX1") /\ SumStep)
  /\ \A i \in MatrixRows : WF_labVars(Runs("LAB2/EX1") /\ RowStep(i))
  /\ WF_labVars(Runs("LAB4/EX2") /\ MonitorStep)
  /\ \A p \in Family : WF_labVars(Runs("LAB5/EX4") /\ KinStep(p))
  /\ \A p \in Programs : WF_labVars(Runs("LAB6/EX1") /\ LineStep(p))
  /\ WF_labVars(Runs("LAB6/EX2") /\ PaiStep)
  /\ \A i \in Filhos : WF_labVars(Runs("LAB6/EX2") /\ FilhoStep(i))
  /\ WF_labVars(Runs("LAB6/EX3") /\ ServerStep)
  /\ WF_labVars(Runs("LAB6/EX3") /\ ClientStep)
  /\ \A w \in Writers : WF_labVars(Runs("LAB7/EX3") /\ WriterStep(w))

Spec == Init /\ [][Next]_labVars /\ Fairness
----------------------------------------------------------------------------
TypeOK ==
  /\ exercise \in Exercises
  /\ WritersTypeOK /\ MonitorTypeOK /\ UpperTypeOK /\ ReadersTypeOK /\ ProductTypeOK
  /\ LineTypeOK /\ FamilyTypeOK /\ MatrixTypeOK /\ TradeTypeOK
============================================================================
