------------------------------ MODULE MatrixSum ------------------------------
(***************************************************************************)
(* LAB2/EX1: the sum of two matrices in shared memory, one child per row.  *)
(* A fork that fails leaves -1 in pids, and waitpid(-1) waits for any      *)
(* child: it may collect one that the parent still means to wait for.      *)
(***************************************************************************)
EXTENDS Integers, FiniteSets

CONSTANTS Rows, Cols  \* 3 and 3 in the code

ASSUME MatrixAssumption == Rows \in Nat \ {0} /\ Cols \in Nat

VARIABLES
  step,     \* what the parent does: "fork", "wait", "print", "end"
  row,      \* i of its loops
  pids,     \* pids[i]: -1, or the child for row i
  zombie,   \* rows whose child has ended and was not waited for
  reaped,   \* rows whose child was
  filled    \* filled[i]: cells of row i that hold the sum

matrixVars == <<step, row, pids, zombie, reaped, filled>>

MatrixRows == 0..(Rows - 1)
Forked  == {i \in MatrixRows : pids[i] # -1}
Running == Forked \ (zombie \cup reaped)

MatrixInit ==
  /\ step = "fork"
  /\ row = 0
  /\ pids = [i \in MatrixRows |-> -1]
  /\ zombie = {}
  /\ reaped = {}
  /\ filled = [i \in MatrixRows |-> 0]

\* Mutant: `i <= rows'.
NextRowPastEnd(after) ==
  IF row < Rows THEN row' = row + 1 /\ UNCHANGED step ELSE row' = 0 /\ step' = after

NextRow(after) ==
  IF row < Rows - 1 THEN row' = row + 1 /\ UNCHANGED step ELSE row' = 0 /\ step' = after

ForkRow ==
  /\ step = "fork"
  /\ \E p \in {-1, row} : pids' = [pids EXCEPT ![row] = p]
  /\ NextRow("wait")
  /\ UNCHANGED <<zombie, reaped, filled>>

FillCell(i) ==
  /\ i \in Running /\ filled[i] < Cols
  /\ filled' = [filled EXCEPT ![i] = @ + 1]
  /\ UNCHANGED <<step, row, pids, zombie, reaped>>

RowEnds(i) ==
  /\ i \in Running /\ filled[i] = Cols
  /\ zombie' = zombie \cup {i}
  /\ UNCHANGED <<step, row, pids, reaped, filled>>

\* The children waitpid(p) may return.
Awaited(p) == IF p = -1 THEN Running \cup zombie ELSE {p} \ reaped

\* Mutant: waitpid(p, NULL, WNOHANG).
WaitRowNoHang ==
  /\ step = "wait"
  /\ reaped' = reaped \cup (Awaited(pids[row]) \cap zombie)
  /\ zombie' = zombie \ reaped'
  /\ NextRow("print")
  /\ UNCHANGED <<pids, filled>>

\* It returns a child that has ended, or fails when there is none to await.
WaitRow ==
  /\ step = "wait"
  /\ \/ \E i \in Awaited(pids[row]) \cap zombie :
          zombie' = zombie \ {i} /\ reaped' = reaped \cup {i}
     \/ Awaited(pids[row]) = {} /\ UNCHANGED <<zombie, reaped>>
  /\ NextRow("print")
  /\ UNCHANGED <<pids, filled>>

PrintSum ==
  /\ step = "print"
  /\ step' = "end"
  /\ UNCHANGED <<row, pids, zombie, reaped, filled>>

SumStep == ForkRow \/ WaitRow \/ PrintSum
RowStep(i) == FillCell(i) \/ RowEnds(i)

MatrixNext == SumStep \/ \E i \in MatrixRows : RowStep(i)
----------------------------------------------------------------------------
MatrixTypeOK ==
  /\ step \in {"fork", "wait", "print", "end"}
  /\ row \in MatrixRows
  /\ pids \in [MatrixRows -> {-1} \cup MatrixRows]
  /\ zombie \cup reaped \subseteq Forked /\ zombie \cap reaped = {}
  /\ filled \in [MatrixRows -> 0..Cols]

\* The sum is printed when every row that has a child is complete and no child
\* is left, whichever forks fail.
SumIsComplete ==
  (step = "wait") ~>
    /\ step = "print"
    /\ reaped = Forked
    /\ \A i \in Forked : filled[i] = Cols
============================================================================
