------------------------------ MODULE Machine ------------------------------
(***************************************************************************)
(* What the processes of T1 share: the shared-memory segments of the apps  *)
(* (include/shm_msg.h), the IRQ FIFO, the two directions of the UDP        *)
(* exchange with the file server, and the run status the operating system  *)
(* keeps for every child of the kernel.  The operations that change this   *)
(* state are in App, InterController, Kernel and T1System.                 *)
(*                                                                         *)
(* Data is abstracted to what the protocol tells apart.  Of a segment we   *)
(* keep the two flags, the operation and a `body' that stands for path,    *)
(* dirname, payload, offset, error and the lengths: either the arguments   *)
(* of a request or the fields of a reply, tagged with the value the app's  *)
(* PC had when it issued the request (an app issues at most one request    *)
(* per value of its PC).                                                   *)
(***************************************************************************)
EXTENDS Integers, Sequences

CONSTANTS
  N,        \* NUM_PROC, the number of apps (5 in the code)
  MAX,      \* iterations of an app's loop (20 in the code)
  Ops,      \* the system calls the apps draw from
  FifoCap   \* bytes the IRQ FIFO holds (a pipe buffer, 65536 bytes on Linux)

ASSUME NAssumption       == N \in Nat \ {0}
ASSUME MAXAssumption     == MAX \in Nat \ {0}
ASSUME OpsAssumption     == Ops \subseteq {"RD", "WR", "DC", "DR", "DL"} /\ Ops # {}
ASSUME FifoCapAssumption == FifoCap \in Nat \ {0}

VARIABLES
  has_request,  \* has_request[i]: app i has posted a request
  has_reply,    \* has_reply[i]: the kernel has left a reply for app i
  op,           \* op[i]: the operation named in segment i
  body,         \* body[i]: the argument or reply fields of segment i
  run,          \* run[p]: the status of child p as the operating system sees it
  fifo,         \* bytes in FIFO_IRQ, oldest first
  reqs,         \* datagrams the server has not received yet
  reps,         \* datagrams the kernel has not received yet
  sigusr1       \* SIGUSR1 has been sent to the intercontroller

segVars  == <<has_request, has_reply, op, body>>
machineVars == <<has_request, has_reply, op, body, run, fifo, reqs, reps, sigusr1>>
----------------------------------------------------------------------------
Procs    == 0..(N - 1)      \* index of processes[] and shm[]; app i is A(i+1)
IC       == N               \* the intercontroller
Children == Procs \cup {IC}

FileOps  == {"RD", "WR"}

\* "part": of a reply, only error and payload have been copied.
Bodies    == [kind : {"none", "req", "part", "rep"}, tag : 0..MAX]
NoBody    == [kind |-> "none", tag |-> 0]
Args(t)   == [kind |-> "req", tag |-> t]
Answer(t) == [kind |-> "rep", tag |-> t]
PartOf(b) == [b EXCEPT !.kind = "part"]

\* struct udp_msg, in both directions; owner counts from 1.
Datagram  == [owner : 1..N, op : Ops \cup {""}, body : Bodies]
OwnerIdx(m) == m.owner - 1

\* The life of a child: "none" before fork, "running" may execute, "stopped"
\* by SIGSTOP, "zombie" after exit, "reaped" after waitpid.
Status == {"none", "running", "stopped", "zombie", "reaped"}

Live(i) == run[i] \in {"running", "stopped"}

\* Effect of kill(p, SIGSTOP) and of kill(p, SIGCONT) on a status; a signal
\* to a process that has exited changes nothing.
Stopped(s) == IF s = "running" THEN "stopped" ELSE s
Resumed(s) == IF s = "stopped" THEN "running" ELSE s

\* The state before the kernel's first step: it has made the FIFO and opened
\* it for reading, and has just forked the intercontroller.
MachineInit ==
  /\ has_request = [i \in Procs |-> FALSE]
  /\ has_reply   = [i \in Procs |-> FALSE]
  /\ op          = [i \in Procs |-> ""]
  /\ body        = [i \in Procs |-> NoBody]
  /\ run         = [p \in Children |-> IF p = IC THEN "running" ELSE "none"]
  /\ fifo = <<>>
  /\ reqs = <<>>
  /\ reps = <<>>
  /\ sigusr1 = FALSE

MachineTypeOK ==
  /\ has_request \in [Procs -> BOOLEAN]
  /\ has_reply   \in [Procs -> BOOLEAN]
  /\ op          \in [Procs -> Ops \cup {""}]
  /\ body        \in [Procs -> Bodies]
  /\ run         \in [Children -> Status]
  /\ fifo        \in Seq({"0", "1", "2"})
  /\ reqs        \in Seq(Datagram)
  /\ reps        \in Seq(Datagram)
  /\ sigusr1     \in BOOLEAN
============================================================================
