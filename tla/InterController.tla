-------------------------- MODULE InterController --------------------------
(***************************************************************************)
(* The interrupt generator of src/intercontroller/intercontroller.c: every *)
(* 500 ms it writes IRQ0 (time slice), sometimes IRQ1 (a file reply may be *)
(* delivered) and sometimes IRQ2 (a directory reply may be delivered) to   *)
(* FIFO_IRQ, until SIGUSR1 clears running_flag.                            *)
(***************************************************************************)
EXTENDS Machine

VARIABLE icpc   \* where the intercontroller is in its loop

InterControllerInit   == icpc = "top"
InterControllerTypeOK == icpc \in {"top", "nap", "irq1", "irq2", "done"}

\* A running process executes the handler of a signal sent to it before its
\* next instruction, and a stopped one executes nothing.
running_flag == ~sigusr1

ICFrame == UNCHANGED <<segVars, reqs, reps, sigusr1>>

\* write(fd, b, 1): blocks while the pipe is full.
WriteIrq(b) == Len(fifo) < FifoCap /\ fifo' = Append(fifo, b)
----------------------------------------------------------------------------
\* `while (running_flag)': go to sleep, or leave the loop and exit.
LoopTest ==
  /\ icpc = "top"
  /\ \/ running_flag /\ icpc' = "nap" /\ UNCHANGED run
     \/ ~running_flag /\ icpc' = "done" /\ run' = [run EXCEPT ![IC] = "zombie"]
  /\ UNCHANGED fifo

\* After usleep(500000), IRQ0 always.
TimerIrq ==
  /\ icpc = "nap"
  /\ WriteIrq("0")
  /\ icpc' = "irq1"
  /\ UNCHANGED run

\* IRQ1 with probability 10%.
FileIrq ==
  /\ icpc = "irq1"
  /\ WriteIrq("1")
  /\ icpc' = "irq2"
  /\ UNCHANGED run

NoFileIrq == icpc = "irq1" /\ icpc' = "irq2" /\ UNCHANGED <<run, fifo>>

\* IRQ2 with probability 2%.
DirIrq ==
  /\ icpc = "irq2"
  /\ WriteIrq("2")
  /\ icpc' = "top"
  /\ UNCHANGED run

NoDirIrq == icpc = "irq2" /\ icpc' = "top" /\ UNCHANGED <<run, fifo>>

InterControllerStep ==
  /\ run[IC] = "running"
  /\ LoopTest \/ TimerIrq \/ FileIrq \/ NoFileIrq \/ DirIrq \/ NoDirIrq
  /\ ICFrame
============================================================================
