------------------------------ MODULE LineFifo ------------------------------
(***************************************************************************)
(* LAB6/EX1: writer sends the lines it is given through a FIFO, reader     *)
(* prints them.  Either may be started first, and makes the FIFO unless it *)
(* is there.                                                               *)
(***************************************************************************)
EXTENDS Integers, Sequences

CONSTANT MaxInput  \* bound on the number of lines

ASSUME MaxInputAssumption == MaxInput \in Nat

VARIABLES
  made,      \* the FIFO exists
  old,       \* it was there before, a history
  at,        \* at[p]: where program p is
  input,     \* number of lines typed so far
  flow,      \* the lines in the FIFO
  output     \* the lines printed by the reader

lineVars == <<made, old, at, input, flow, output>>

Programs == {"reader", "writer"}

LineInit ==
  /\ made \in BOOLEAN
  /\ old = made
  /\ at = [p \in Programs |-> "access"]
  /\ input = 0
  /\ flow = <<>>
  /\ output = <<>>

\* Mutant: the FIFO is not looked for.
AccessSkipped(p) ==
  /\ at[p] = "access"
  /\ at' = [at EXCEPT ![p] = "mkfifo"]
  /\ UNCHANGED <<made, old, input, flow, output>>

Access(p) ==
  /\ at[p] = "access"
  /\ at' = [at EXCEPT ![p] = IF made THEN "open" ELSE "mkfifo"]
  /\ UNCHANGED <<made, old, input, flow, output>>

\* mkfifo fails if the FIFO has appeared meanwhile, and the program returns.
MakeFifo(p) ==
  /\ at[p] = "mkfifo"
  /\ at' = [at EXCEPT ![p] = IF made THEN "failed" ELSE "open"]
  /\ made' = TRUE
  /\ UNCHANGED <<old, input, flow, output>>

\* open returns when the other program opens the FIFO too.
OpenBoth ==
  /\ \A p \in Programs : at[p] = "open"
  /\ at' = [p \in Programs |-> "loop"]
  /\ UNCHANGED <<made, old, input, flow, output>>

\* fgets and write; a reader is there as long as the writer is.
WriteLine ==
  /\ at["writer"] = "loop" /\ input < MaxInput
  /\ input' = input + 1
  /\ IF at["reader"] = "loop"
     THEN flow' = Append(flow, input + 1) /\ UNCHANGED at
     ELSE at' = [at EXCEPT !["writer"] = "killed"] /\ UNCHANGED flow
  /\ UNCHANGED <<made, old, output>>

\* A line with `;', or the end of the input.
EndInput ==
  /\ at["writer"] = "loop"
  /\ at' = [at EXCEPT !["writer"] = "done"]
  /\ UNCHANGED <<made, old, input, flow, output>>

\* Mutant: `if' instead of `while'.
ReadOnce ==
  /\ at["reader"] = "loop"
  /\ flow # <<>> \/ at["writer"] = "done"
  /\ \E n \in 0..Len(flow) :
       /\ n > 0 \/ flow = <<>>
       /\ output' = output \o SubSeq(flow, 1, n)
       /\ flow' = SubSeq(flow, n + 1, Len(flow))
       /\ at' = [at EXCEPT !["reader"] = "done"]
  /\ UNCHANGED <<made, old, input>>

\* A read returns what is there, or what fits into the buffer of it; nothing
\* at all when the writer has closed the FIFO.
ReadLines ==
  /\ at["reader"] = "loop"
  /\ flow # <<>> \/ at["writer"] = "done"
  /\ \E n \in 0..Len(flow) :
       /\ n > 0 \/ flow = <<>>
       /\ output' = output \o SubSeq(flow, 1, n)
       /\ flow' = SubSeq(flow, n + 1, Len(flow))
       /\ at' = IF n = 0 THEN [at EXCEPT !["reader"] = "done"] ELSE at
  /\ UNCHANGED <<made, old, input>>

LineStep(p) == Access(p) \/ MakeFifo(p) \/ (p = "reader" /\ (OpenBoth \/ ReadLines))

LineNext == (\E p \in Programs : LineStep(p)) \/ WriteLine \/ EndInput
----------------------------------------------------------------------------
LineTypeOK ==
  /\ {made, old} \subseteq BOOLEAN
  /\ at \in [Programs -> {"access", "mkfifo", "open", "loop", "failed", "done", "killed"}]
  /\ input \in 0..MaxInput
  /\ {flow, output} \subseteq Seq(1..MaxInput)

\* access and mkfifo are two calls, so that of two programs started together
\* one may find that it must make the FIFO and then fail to.  It is only one,
\* and none when the FIFO was there before.
OneMayFail ==
  \A p, q \in Programs : at[p] = "failed" /\ at[q] = "failed" => p = q /\ ~old

\* Unless one of them fails (the other then waits in open for ever), every
\* line that is typed is printed, in order.
LinesArrive ==
  \A k \in 1..MaxInput :
    (input >= k) ~> (Len(output) >= k /\ \A j \in 1..k : output[j] = j)
============================================================================
