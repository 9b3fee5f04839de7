------------------------------- MODULE Kernel -------------------------------
(***************************************************************************)
(* The simulated kernel: main of src/kernel/kernel.c and the functions it  *)
(* calls in kernel_functions.c, kernel_reply.c and udp_client_functions.c. *)
(* It is one sequential process; kpc says where it is, and a step is what  *)
(* it does between two points at which the apps, the intercontroller, the  *)
(* server or a signal can make a difference.                               *)
(*                                                                         *)
(* Left out, because nothing the protocol does depends on it: the copies   *)
(* processes[].PC and processes[].op and everything that is printed, and   *)
(* the registry of written files.                                          *)
(***************************************************************************)
EXTENDS Machine

VARIABLES
  kpc,        \* where the kernel is in main
  kidx,       \* the loop index i of the phase kpc names
  state,      \* processes[i].state
  current,    \* index of the process dispatched last, -1 before the first
  fileQueue,  \* replies to RD and WR waiting for IRQ1
  dirQueue,   \* replies to DC, DR and DL waiting for IRQ2
  pause_flag

kernelVars == <<kpc, kidx, state, current, fileQueue, dirQueue, pause_flag>>

BootLabels == {"boot", "fork", "halt", "launch"}
KernelLabels == BootLabels \cup
  {"irq", "recv", "scan", "send", "pause", "presleep", "sleeping",
   "check", "loop", "finish", "wait", "done"}

States == {"RUNNING", "READY", "BLOCKED", "TERMINATED"}

KernelInit ==
  /\ kpc = "boot"
  /\ kidx = 0
  /\ state = [i \in Procs |-> "READY"]     \* startProcesses, before any use
  /\ current = -1
  /\ fileQueue = <<>>
  /\ dirQueue = <<>>
  /\ pause_flag = FALSE

KernelTypeOK ==
  /\ kpc       \in KernelLabels
  /\ kidx      \in Procs
  /\ state     \in [Procs -> States]
  /\ current   \in -1..(N - 1)
  /\ fileQueue \in Seq(Datagram)
  /\ dirQueue  \in Seq(Datagram)
  /\ pause_flag \in BOOLEAN

At(label) == kpc = label

\* Leave the current phase for the next one and start its loop at index 0.
Enter(label) == kpc' = label /\ kidx' = 0

\* Stay in a `for (i = 0; i < num_proc; i++)' loop, or leave it after the
\* last index.
NextIndex(here, after) ==
  IF kidx + 1 < N THEN kpc' = here /\ kidx' = kidx + 1
                  ELSE Enter(after)

QueueVars == <<fileQueue, dirQueue>>
----------------------------------------------------------------------------
(* Boot. *)

\* SIGSTOP the intercontroller just forked, then cleanOldShms,
\* startProcesses, and a zeroed segment per app.
StopInterController ==
  /\ At("boot")
  /\ run' = [run EXCEPT ![IC] = Stopped(@)]
  /\ Enter("fork")
  /\ UNCHANGED <<segVars, fifo, reqs, reps, sigusr1, state, current, QueueVars, pause_flag>>

ForkApp ==
  /\ At("fork")
  /\ run' = [run EXCEPT ![kidx] = "running"]
  /\ kpc' = "halt"
  /\ UNCHANGED <<segVars, fifo, reqs, reps, sigusr1, kidx, state, current, QueueVars, pause_flag>>

\* SIGSTOP the app right after its fork; nothing waits for it to initialise.
HaltApp ==
  /\ At("halt")
  /\ run' = [run EXCEPT ![kidx] = Stopped(@)]
  /\ NextIndex("fork", "launch")
  /\ UNCHANGED <<segVars, fifo, reqs, reps, sigusr1, state, current, QueueVars, pause_flag>>

LaunchInterController ==
  /\ At("launch")
  /\ run' = [run EXCEPT ![IC] = Resumed(@)]
  /\ Enter("irq")
  /\ UNCHANGED <<segVars, fifo, reqs, reps, sigusr1, state, current, QueueVars, pause_flag>>
----------------------------------------------------------------------------
(* One turn of the main loop: the interrupts. *)

\* Mutant: the search always starts at process 0.
CyclicFromZero(k) == k - 1

\* The k-th process after `current' in the circular queue.
Cyclic(k) == (current + k) % N

Preempts == current \in Procs /\ state[current] = "RUNNING"

\* Mutant: the preempted process is not sent SIGSTOP.
PreemptedGoesOn == run

\* The process table and the statuses after the first half of timeSlice.
PreemptedState == IF Preempts THEN [state EXCEPT ![current] = "READY"] ELSE state
PreemptedRun   == IF Preempts THEN [run EXCEPT ![current] = Stopped(@)] ELSE run

\* Mutant: the search stops one process short, before `current' itself.
IsNextReadyOther(next) ==
  \E k \in 1..(N - 1) :
    /\ next = Cyclic(k)
    /\ PreemptedState[next] = "READY"
    /\ \A j \in 1..(k - 1) : PreemptedState[Cyclic(j)] # "READY"

\* `next' is the first READY process after `current', which itself comes last.
IsNextReady(next) ==
  \E k \in 1..N :
    /\ next = Cyclic(k)
    /\ PreemptedState[next] = "READY"
    /\ \A j \in 1..(k - 1) : PreemptedState[Cyclic(j)] # "READY"

timeSlice ==
  \/ /\ \A i \in Procs : PreemptedState[i] # "READY"
     /\ state' = PreemptedState
     /\ run' = PreemptedRun
     /\ UNCHANGED current
  \/ \E next \in Procs :
       /\ IsNextReady(next)
       /\ state' = [PreemptedState EXCEPT ![next] = "RUNNING"]
       /\ run' = [PreemptedRun EXCEPT ![next] = Resumed(@)]
       /\ current' = next

\* Effect of deliverFileReply and deliverDirReply on the owner of reply m.
Deliver(m) ==
  /\ has_reply' = [has_reply EXCEPT ![OwnerIdx(m)] = TRUE]
  /\ body' = [body EXCEPT ![OwnerIdx(m)] = m.body]
  /\ state' = [state EXCEPT ![OwnerIdx(m)] = "READY"]

\* Mutant: a queue with a single reply counts as empty.
deliverFileReplyLate ==
  IF Len(fileQueue) <= 1
  THEN UNCHANGED <<has_reply, body, state, fileQueue>>
  ELSE Deliver(Head(fileQueue)) /\ fileQueue' = Tail(fileQueue)

deliverFileReply ==
  IF fileQueue = <<>>
  THEN UNCHANGED <<has_reply, body, state, fileQueue>>
  ELSE Deliver(Head(fileQueue)) /\ fileQueue' = Tail(fileQueue)

deliverDirReply ==
  IF dirQueue = <<>>
  THEN UNCHANGED <<has_reply, body, state, dirQueue>>
  ELSE Deliver(Head(dirQueue)) /\ dirQueue' = Tail(dirQueue)

NoIrq ==
  /\ fifo = <<>>
  /\ UNCHANGED <<segVars, run, fifo, state, current, QueueVars>>

\* Read one byte of the FIFO and switch on it.
handleIrqFifo ==
  /\ fifo # <<>>
  /\ fifo' = Tail(fifo)
  /\ \/ /\ Head(fifo) = "0"
        /\ timeSlice
        /\ UNCHANGED <<segVars, QueueVars>>
     \/ /\ Head(fifo) = "1"
        /\ deliverFileReply
        /\ UNCHANGED <<has_request, op, run, current, dirQueue>>
     \/ /\ Head(fifo) = "2"
        /\ deliverDirReply
        /\ UNCHANGED <<has_request, op, run, current, fileQueue>>

PollIrq ==
  /\ At("irq")
  /\ NoIrq \/ handleIrqFifo
  /\ Enter("recv")
  /\ UNCHANGED <<reqs, reps, sigusr1, pause_flag>>
----------------------------------------------------------------------------
(* The replies of the server. *)

\* recvUdpReply sets has_reply, error and payload of the segment before the
\* reply is even queued; the other fields follow at the interrupt.
\* enqueueReply writes queue[*n] without comparing n with NUM_PROC.
recvUdpReply ==
  /\ reps # <<>>
  /\ reps' = Tail(reps)
  /\ LET m == Head(reps) IN
       /\ has_reply' = [has_reply EXCEPT ![OwnerIdx(m)] = TRUE]
       /\ body' = [body EXCEPT ![OwnerIdx(m)] = PartOf(m.body)]
       /\ \/ /\ m.op \in FileOps
             /\ fileQueue' = Append(fileQueue, m)
             /\ UNCHANGED dirQueue
          \/ /\ m.op \notin FileOps
             /\ dirQueue' = Append(dirQueue, m)
             /\ UNCHANGED fileQueue

\* Mutant: recvfrom without MSG_DONTWAIT.
NoReplyBlocks == FALSE

NoReply == reps = <<>> /\ UNCHANGED <<has_reply, body, reps, QueueVars>>

PollReplies ==
  /\ At("recv")
  /\ recvUdpReply \/ NoReply
  /\ Enter("scan")
  /\ UNCHANGED <<has_request, op, run, fifo, reqs, sigusr1, state, current, pause_flag>>
----------------------------------------------------------------------------
(* handleProcessRequests, for process kidx. *)

NothingToTake ==
  /\ At("scan")
  /\ ~has_request[kidx] \/ state[kidx] = "BLOCKED"
  /\ NextIndex("scan", "pause")
  /\ UNCHANGED <<machineVars, state, current, QueueVars, pause_flag>>

\* has_request = 0: the app is still executing.
TakeRequest ==
  /\ At("scan")
  /\ has_request[kidx]
  /\ state[kidx] # "BLOCKED"
  /\ has_request' = [has_request EXCEPT ![kidx] = FALSE]
  /\ kpc' = "send"
  /\ UNCHANGED <<has_reply, op, body, run, fifo, reqs, reps, sigusr1,
                 kidx, state, current, QueueVars, pause_flag>>

\* buildReqFromShm
buildReqFromShm(i) == [owner |-> i + 1, op |-> op[i], body |-> body[i]]

\* Mutants: the process is not marked BLOCKED; it is not sent SIGSTOP.
SendRequestUnmarked ==
  /\ At("send")
  /\ run' = [run EXCEPT ![kidx] = Stopped(@)]
  /\ reqs' = Append(reqs, buildReqFromShm(kidx))
  /\ NextIndex("scan", "pause")
  /\ UNCHANGED <<segVars, fifo, reps, sigusr1, state, current, QueueVars, pause_flag>>

SendRequestUnstopped ==
  /\ At("send")
  /\ state' = [state EXCEPT ![kidx] = "BLOCKED"]
  /\ reqs' = Append(reqs, buildReqFromShm(kidx))
  /\ NextIndex("scan", "pause")
  /\ UNCHANGED <<segVars, run, fifo, reps, sigusr1, current, QueueVars, pause_flag>>

\* SIGSTOP, BLOCKED, build and send the datagram.
SendRequest ==
  /\ At("send")
  /\ run' = [run EXCEPT ![kidx] = Stopped(@)]
  /\ state' = [state EXCEPT ![kidx] = "BLOCKED"]
  /\ reqs' = Append(reqs, buildReqFromShm(kidx))
  /\ NextIndex("scan", "pause")
  /\ UNCHANGED <<segVars, fifo, reps, sigusr1, current, QueueVars, pause_flag>>
----------------------------------------------------------------------------
(* handlePauseAndResume.  The flag is passed by value: it is read once, at *)
(* the call, and not again before pause().                                 *)

Pause ==
  /\ At("pause")
  /\ pause_flag
  /\ run' = [p \in Children |-> Stopped(run[p])]
  /\ Enter("presleep")
  /\ UNCHANGED <<segVars, fifo, reqs, reps, sigusr1, state, current, QueueVars, pause_flag>>

\* pause(): sleep until a signal handler has run.
Sleep ==
  /\ At("presleep")
  /\ Enter("sleeping")
  /\ UNCHANGED <<machineVars, state, current, QueueVars, pause_flag>>

\* Mutant: every child is sent SIGCONT, RUNNING or not.
ResumeEverybody ==
  /\ At("pause")
  /\ ~pause_flag
  /\ run' = [p \in Children |-> Resumed(run[p])]
  /\ Enter("check")
  /\ UNCHANGED <<segVars, fifo, reqs, reps, sigusr1, state, current, QueueVars, pause_flag>>

Resume ==
  /\ At("pause")
  /\ ~pause_flag
  /\ run' = [p \in Children |->
               IF p = IC \/ state[p] = "RUNNING" THEN Resumed(run[p]) ELSE run[p]]
  /\ Enter("check")
  /\ UNCHANGED <<segVars, fifo, reqs, reps, sigusr1, state, current, QueueVars, pause_flag>>

\* SIGINT (Ctrl-C), delivered to the kernel at any point; the children
\* ignore it.  It also ends pause().
sigintHandler ==
  /\ pause_flag' = ~pause_flag
  /\ IF At("sleeping") THEN Enter("check") ELSE UNCHANGED <<kpc, kidx>>
  /\ UNCHANGED <<machineVars, state, current, QueueVars>>
----------------------------------------------------------------------------
(* checkTerminatedProcesses, for process kidx, and the end of the loop. *)

Reap ==
  /\ At("check")
  /\ state[kidx] # "TERMINATED"
  /\ run[kidx] = "zombie"
  /\ run' = [run EXCEPT ![kidx] = "reaped"]
  /\ state' = [state EXCEPT ![kidx] = "TERMINATED"]
  /\ NextIndex("check", "loop")
  /\ UNCHANGED <<segVars, fifo, reqs, reps, sigusr1, current, QueueVars, pause_flag>>

NotTerminated ==
  /\ At("check")
  /\ state[kidx] = "TERMINATED" \/ run[kidx] # "zombie"
  /\ NextIndex("check", "loop")
  /\ UNCHANGED <<machineVars, state, current, QueueVars, pause_flag>>

allProcessesTerminated == \A i \in Procs : state[i] = "TERMINATED"

LoopOrBreak ==
  /\ At("loop")
  /\ Enter(IF allProcessesTerminated THEN "finish" ELSE "irq")
  /\ UNCHANGED <<machineVars, state, current, QueueVars, pause_flag>>

\* Mutant: no SIGUSR1.
FinishSilently ==
  /\ At("finish")
  /\ Enter("wait")
  /\ UNCHANGED <<machineVars, state, current, QueueVars, pause_flag>>

\* kill(intercontroller, SIGUSR1).
FinishInterController ==
  /\ At("finish")
  /\ sigusr1' = TRUE
  /\ Enter("wait")
  /\ UNCHANGED <<segVars, run, fifo, reqs, reps, state, current, QueueVars, pause_flag>>

\* The apps have been reaped, so only waitpid(intercontroller) can block;
\* then the FIFO, the socket and the segments are removed.
WaitInterController ==
  /\ At("wait")
  /\ run[IC] = "zombie"
  /\ run' = [run EXCEPT ![IC] = "reaped"]
  /\ Enter("done")
  /\ UNCHANGED <<segVars, fifo, reqs, reps, sigusr1, state, current, QueueVars, pause_flag>>
----------------------------------------------------------------------------
KernelStep ==
  \/ StopInterController \/ ForkApp \/ HaltApp \/ LaunchInterController
  \/ PollIrq
  \/ PollReplies
  \/ NothingToTake \/ TakeRequest \/ SendRequest
  \/ Pause \/ Sleep \/ Resume
  \/ Reap \/ NotTerminated \/ LoopOrBreak
  \/ FinishInterController \/ WaitInterController
============================================================================
