-------------------------------- MODULE App --------------------------------
(***************************************************************************)
(* One simulated application A(i+1): the loop of src/app/app.c with        *)
(* handle_reply, clear_shm_fields and prepare_syscall of app_functions.c.  *)
(* The app runs concurrently with the kernel and may be stopped between    *)
(* any two stores, so each store to a flag the kernel reads or writes is a *)
(* step of its own; the stores to the other fields that precede it are     *)
(* taken together.                                                         *)
(***************************************************************************)
EXTENDS Machine

VARIABLES
  apc,   \* apc[i]: where app i is in its loop
  PC     \* PC[i]: the program counter the app simulates

appVars == <<apc, PC>>

AppLabels == {"start", "nap1", "reply", "clear", "wipe", "decide",
              "ack", "post", "nap2", "done"}

\* Mutant: the loop ends without its second usleep.
AsleepOnce(i) == apc[i] = "nap1"

\* The app is inside usleep(500000).
Asleep(i) == apc[i] \in {"nap1", "nap2"}

AppInit ==
  /\ apc = [i \in Procs |-> "start"]
  /\ PC  = [i \in Procs |-> 0]

AppTypeOK ==
  /\ apc \in [Procs -> AppLabels]
  /\ PC  \in [Procs -> 0..MAX]

Goto(i, label) == apc' = [apc EXCEPT ![i] = label]

\* Everything an app never touches.
AppFrame == UNCHANGED <<fifo, reqs, reps, sigusr1>>
----------------------------------------------------------------------------
\* Process start: map the segment, PC = 0.
open_shared_memory(i) ==
  /\ apc[i] = "start"
  /\ Goto(i, "nap1")
  /\ UNCHANGED <<PC, segVars, run>>

\* End of the first usleep: PC++ and shm->pc = PC.
Tick(i) ==
  /\ apc[i] = "nap1"
  /\ PC' = [PC EXCEPT ![i] = @ + 1]
  /\ Goto(i, "reply")
  /\ UNCHANGED <<segVars, run>>

\* handle_reply: nothing to do without has_reply; otherwise print and clear.
handle_reply(i) ==
  /\ apc[i] = "reply"
  /\ Goto(i, IF has_reply[i] THEN "clear" ELSE "decide")
  /\ UNCHANGED <<PC, segVars, run>>

\* clear_shm_fields, first store: has_reply = 0.
clear_has_reply(i) ==
  /\ apc[i] = "clear"
  /\ has_reply' = [has_reply EXCEPT ![i] = FALSE]
  /\ Goto(i, "wipe")
  /\ UNCHANGED <<PC, has_request, op, body, run>>

\* clear_shm_fields, the rest: has_request = 0 and every data field.
clear_fields(i) ==
  /\ apc[i] = "wipe"
  /\ has_request' = [has_request EXCEPT ![i] = FALSE]
  /\ op'   = [op EXCEPT ![i] = ""]
  /\ body' = [body EXCEPT ![i] = NoBody]
  /\ Goto(i, "decide")
  /\ UNCHANGED <<PC, has_reply, run>>

\* r >= 10: this iteration makes no system call.
NoSyscall(i) ==
  /\ apc[i] = "decide"
  /\ Goto(i, "nap2")
  /\ UNCHANGED <<PC, segVars, run>>

\* prepare_syscall up to print_syscall_info: a random operation and its
\* arguments are written to the segment.
prepare_syscall(i) ==
  /\ apc[i] = "decide"
  /\ \E o \in Ops : op' = [op EXCEPT ![i] = o]
  /\ body' = [body EXCEPT ![i] = Args(PC[i])]
  /\ Goto(i, "ack")
  /\ UNCHANGED <<PC, has_request, has_reply, run>>

\* prepare_syscall: has_reply = 0.
AckReply(i) ==
  /\ apc[i] = "ack"
  /\ has_reply' = [has_reply EXCEPT ![i] = FALSE]
  /\ Goto(i, "post")
  /\ UNCHANGED <<PC, has_request, op, body, run>>

\* prepare_syscall: has_request = 1.
PostRequest(i) ==
  /\ apc[i] = "post"
  /\ has_request' = [has_request EXCEPT ![i] = TRUE]
  /\ Goto(i, "nap2")
  /\ UNCHANGED <<PC, has_reply, op, body, run>>

\* Mutant: while PC <= MAX.
NextIterationAtMAX(i) ==
  /\ apc[i] = "nap2"
  /\ PC[i] <= MAX
  /\ Goto(i, "nap1")
  /\ UNCHANGED <<PC, segVars, run>>

\* End of the second usleep: the next iteration while PC < MAX.
NextIteration(i) ==
  /\ apc[i] = "nap2"
  /\ PC[i] < MAX
  /\ Goto(i, "nap1")
  /\ UNCHANGED <<PC, segVars, run>>

\* End of the second usleep with PC = MAX: main returns.
Exit(i) ==
  /\ apc[i] = "nap2"
  /\ PC[i] >= MAX
  /\ Goto(i, "done")
  /\ run' = [run EXCEPT ![i] = "zombie"]
  /\ UNCHANGED <<PC, segVars>>

AppStep(i) ==
  /\ run[i] = "running"
  /\ \/ open_shared_memory(i)
     \/ Tick(i)
     \/ handle_reply(i)
     \/ clear_has_reply(i)
     \/ clear_fields(i)
     \/ NoSyscall(i)
     \/ prepare_syscall(i)
     \/ AckReply(i)
     \/ PostRequest(i)
     \/ NextIteration(i)
     \/ Exit(i)
  /\ AppFrame
============================================================================
