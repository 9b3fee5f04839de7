------------------------------ MODULE Lifecycle ------------------------------
(***************************************************************************)
(* The life of a T1 kernel and of what it creates, over several runs of    *)
(* the program: boot with all its failure exits, the normal end, SIGTSTP,  *)
(* a crash, and the next boot, which meets what its predecessor has left.  *)
(* The FIFO and the segments are objects with names: an object is known by *)
(* the number of the boot that made it, 0 is no object, and a name refers  *)
(* to one object at a time while processes keep open what they have        *)
(* opened.  What the main loop does is in Kernel; here it only stops and   *)
(* continues children.                                                     *)
(***************************************************************************)
EXTENDS Integers, FiniteSets

CONSTANTS
  N,          \* NUM_PROC, the number of apps
  MaxBoots    \* bound on the number of times the kernel is started

ASSUME NAssumption        == N \in Nat \ {0}
ASSUME MaxBootsAssumption == MaxBoots \in Nat \ {0}

VARIABLES
  boots,     \* number of the boot that is, or was last, under way
  kpc,       \* where that kernel is: a label of main, or how it ended
  kidx,      \* index of the boot loops over the apps
  job,       \* job[b]: how boot b was started, and whether that job goes on
  fifoName,  \* the FIFO that FIFO_IRQ names
  shmName,   \* shmName[i]: the segment that /shm_A<i+1> names
  fd_irq,    \* the FIFO the kernel reads
  shm,       \* shm[i]: the segment the kernel has mapped for app i
  child,     \* child[b][c]: the status of child c of boot b
  holds      \* holds[b][c]: the FIFO or segment child c of boot b has open

names == <<fifoName, shmName>>
opened == <<fd_irq, shm>>
vars == <<boots, kpc, kidx, job, names, opened, child, holds>>
----------------------------------------------------------------------------
Apps     == 0..(N - 1)
IC       == N
Children == Apps \cup {IC}
Boots    == 1..MaxBoots

Ended    == {"off", "returned", "dead"}
Alive(b) == b = boots /\ kpc \notin Ended

\* "blocked": in open(), until somebody opens the FIFO for reading.
Live(b, c) == child[b][c] \in {"running", "stopped", "blocked"}

\* Does the FIFO f have a reader?
HasReader(f) == kpc \notin Ended /\ fd_irq = f

Init ==
  /\ boots = 0
  /\ kpc = "off"
  /\ kidx = 0
  /\ job = [b \in Boots |-> "none"]
  /\ fifoName = 0
  /\ shmName = [i \in Apps |-> 0]
  /\ fd_irq = 0
  /\ shm = [i \in Apps |-> 0]
  /\ child = [b \in Boots |-> [c \in Children |-> "none"]]
  /\ holds = [b \in Boots |-> [c \in Children |-> 0]]

\* The user starts the kernel: from a shell, through build_and_exec.sh, or
\* without job control.  By then the last one has ended and every process
\* that executes has long opened what it uses (a restart takes seconds).
Boot ==
  /\ kpc \in Ended
  /\ boots < MaxBoots
  /\ \A b \in Boots, c \in Children : child[b][c] = "running" => holds[b][c] # 0
  /\ \A b \in Boots : job[b] # "script"
  /\ boots' = boots + 1
  /\ kpc' = "makeFIFO"
  /\ \E how \in {"shell", "script", "no job"} : job' = [job EXCEPT ![boots + 1] = how]
  /\ UNCHANGED <<kidx, names, opened, child, holds>>
----------------------------------------------------------------------------
(* The kernel. *)

\* When no shell watches a process group any longer and some member is
\* stopped, the operating system sends SIGHUP and SIGCONT to the group.
Hangup(status) ==
  IF \E c \in Children : status[c] = "stopped"
  THEN [c \in Children |-> IF status[c] = "none" THEN "none" ELSE "dead"]
  ELSE status

\* The kernel is gone, its children being as in `status'.
Ends(how, status) ==
  /\ kpc' = how
  /\ kidx' = 0
  /\ fd_irq' = 0
  /\ shm' = [i \in Apps |-> 0]
  /\ child' = [child EXCEPT ![boots] = IF job[boots] = "shell" THEN Hangup(status) ELSE status]
  /\ UNCHANGED <<boots, shmName, holds>>

Go(label) == kpc' = label /\ kidx' = 0

\* Mutant: `i <= NUM_PROC'.
TurnPastEnd(again, after) ==
  IF kidx < N THEN kpc' = again /\ kidx' = kidx + 1 ELSE Go(after)

\* The next turn of a loop over the apps, or what follows the loop.
Turn(again, after) ==
  IF kidx < N - 1 THEN kpc' = again /\ kidx' = kidx + 1 ELSE Go(after)

SetChild(c, status) == child' = [child EXCEPT ![boots][c] = status]

\* Mutant: without unlink, mkfifo fails with EEXIST, which makeFIFO accepts.
makeFIFOKeeping ==
  /\ kpc = "makeFIFO"
  /\ fifoName' = IF fifoName = 0 THEN boots ELSE fifoName
  /\ Go("openFIFO")
  /\ UNCHANGED <<boots, job, shmName, opened, child, holds>>

makeFIFO ==
  /\ kpc = "makeFIFO"
  /\ fifoName' = boots
  /\ Go("openFIFO")
  /\ UNCHANGED <<boots, job, shmName, opened, child, holds>>

openFIFO ==
  /\ kpc = "openFIFO"
  /\ fd_irq' = fifoName
  /\ Go("forkIC")
  /\ UNCHANGED <<boots, job, names, shm, child, holds>>

ForkIC ==
  /\ kpc = "forkIC"
  /\ SetChild(IC, "running")
  /\ Go("clean")
  /\ UNCHANGED <<boots, job, names, opened, holds>>

Stopped(status) == IF status = "running" THEN "stopped" ELSE status

\* SIGSTOP to the intercontroller, and cleanOldShms.
StopAndClean ==
  /\ kpc = "clean"
  /\ SetChild(IC, Stopped(child[boots][IC]))
  /\ shmName' = [i \in Apps |-> 0]
  /\ Go("shm_open")
  /\ UNCHANGED <<boots, job, fifoName, opened, holds>>

\* shm_open with O_CREAT but not O_EXCL: an object with that name is reused.
OpenSegment ==
  /\ kpc = "shm_open"
  /\ shmName' = [shmName EXCEPT ![kidx] = IF @ = 0 THEN boots ELSE @]
  /\ shm' = [shm EXCEPT ![kidx] = shmName'[kidx]]
  /\ Turn("shm_open", "fork")
  /\ UNCHANGED <<boots, job, fifoName, fd_irq, child, holds>>

ForkApp ==
  /\ kpc = "fork"
  /\ SetChild(kidx, "running")
  /\ kpc' = "halt"
  /\ UNCHANGED <<boots, kidx, job, names, opened, holds>>

HaltApp ==
  /\ kpc = "halt"
  /\ SetChild(kidx, Stopped(child[boots][kidx]))
  /\ Turn("fork", "launch")
  /\ UNCHANGED <<boots, job, names, opened, holds>>

\* Mutant: the old segments are cleaned only now.
LaunchICAndClean ==
  /\ kpc = "launch"
  /\ SetChild(IC, IF child[boots][IC] = "stopped" THEN "running" ELSE child[boots][IC])
  /\ shmName' = [i \in Apps |-> 0]
  /\ Go("loop")
  /\ UNCHANGED <<boots, job, fifoName, opened, holds>>

LaunchIC ==
  /\ kpc = "launch"
  /\ SetChild(IC, IF child[boots][IC] = "stopped" THEN "running" ELSE child[boots][IC])
  /\ Go("loop")
  /\ UNCHANGED <<boots, job, names, opened, holds>>

\* The exits of the boot: mkfifo, open, fork or shm_open fails.
ExitOnFailure ==
  /\ kpc \in {"makeFIFO", "openFIFO", "forkIC", "shm_open", "fork"}
  /\ fifoName' = IF kpc = "makeFIFO" THEN 0 ELSE fifoName
  /\ Ends("dead", child[boots])
  /\ UNCHANGED job

\* The main loop stops and continues its children: at most one app executes,
\* and none before the first interrupt.  A pause may stop the intercontroller
\* before it has opened the FIFO.
Schedule ==
  /\ kpc = "loop"
  /\ \E chosen \in SUBSET Children :
       /\ Cardinality(chosen \cap Apps) <= 1
       /\ chosen \cap Apps # {} => holds[boots][IC] # 0
       /\ child' = [child EXCEPT ![boots] = [c \in Children |->
            IF ~Live(boots, c) THEN child[boots][c]
            ELSE IF c \in chosen THEN "running" ELSE "stopped"]]
  /\ UNCHANGED <<boots, kpc, kidx, job, names, opened, holds>>

\* All apps have terminated: SIGUSR1 to the intercontroller.
LeaveLoop ==
  /\ kpc = "loop"
  /\ \A i \in Apps : ~Live(boots, i)
  /\ kpc' = "wait"
  /\ UNCHANGED <<boots, kidx, job, names, opened, child, holds>>

\* Mutant: without the waitpid.
HasEndedAlways(c) == TRUE

\* waitpid: the child has terminated.
HasEnded(c) == ~Live(boots, c)

\* All children have been waited for, and the FIFO is closed.
WaitForChildren ==
  /\ kpc = "wait"
  /\ HasEnded(IC)
  /\ fd_irq' = 0
  /\ Go("unlink")
  /\ UNCHANGED <<boots, job, names, shm, child, holds>>

UnlinkFIFO ==
  /\ kpc = "unlink"
  /\ fifoName' = 0
  /\ Go("closeShms")
  /\ UNCHANGED <<boots, job, shmName, opened, child, holds>>

\* One turn of its loop; main returns after the last one.
closeShms ==
  /\ kpc = "closeShms"
  /\ shm' = [shm EXCEPT ![kidx] = 0]
  /\ shmName' = [shmName EXCEPT ![kidx] = 0]
  /\ Turn("closeShms", "returned")
  /\ UNCHANGED <<boots, job, fifoName, fd_irq, child, holds>>

KernelStep ==
  \/ makeFIFO \/ openFIFO \/ ForkIC \/ StopAndClean \/ OpenSegment \/ ForkApp
  \/ HaltApp \/ LaunchIC \/ LeaveLoop \/ WaitForChildren \/ UnlinkFIFO \/ closeShms

\* sigtstpHandler: kill(0, SIGTERM) ends every process of the group that
\* executes, the kernel included, before exit is reached.  In a stopped child
\* the signal stays pending.  Ctrl-Z sends SIGTSTP to the whole group: a
\* child, or the script, that does not get SIGTERM first is stopped as well.
sigtstpHandler ==
  /\ kpc \notin Ended
  /\ \E spared \in SUBSET {c \in Children : child[boots][c] = "running"} :
       /\ job[boots] = "no job" => spared = {}
       /\ Ends("dead", [c \in Children |->
            CASE ~Live(boots, c) -> child[boots][c]
              [] child[boots][c] = "stopped" \/ c \in spared -> "stopped"
              [] OTHER -> "dead"])
  /\ \E next \in IF job[boots] = "script" THEN {"script", "stopped"} ELSE {job[boots]} :
       job' = [job EXCEPT ![boots] = next]
  /\ UNCHANGED fifoName

\* The kernel is killed, or crashes.
Crash ==
  /\ kpc \notin Ended
  /\ Ends("dead", child[boots])
  /\ UNCHANGED <<fifoName, job>>
----------------------------------------------------------------------------
(* The children, and the job. *)

EnvFrame == UNCHANGED <<boots, kpc, kidx, names, opened>>

Dies(b, c) ==
  /\ child' = [child EXCEPT ![b][c] = "dead"]
  /\ UNCHANGED <<job, holds>>
  /\ EnvFrame

\* execl fails, and the child exits.
ExecFails(b, c) ==
  /\ child[b][c] = "running" /\ holds[b][c] = 0
  /\ Dies(b, c)

\* open_shared_memory of an app; without a segment the app exits.
OpenFails(b, i) == child[b][i] = "running" /\ holds[b][i] = 0 /\ shmName[i] = 0

open_shared_memory(b, i) ==
  /\ child[b][i] = "running" /\ holds[b][i] = 0
  /\ shmName[i] # 0
  /\ holds' = [holds EXCEPT ![b][i] = shmName[i]]
  /\ UNCHANGED <<child, job>>
  /\ EnvFrame

\* The intercontroller opens the FIFO for writing, which waits for a reader.
OpenForWriting(b) ==
  /\ child[b][IC] = "running" /\ holds[b][IC] = 0
  /\ fifoName # 0
  /\ holds' = [holds EXCEPT ![b][IC] = fifoName]
  /\ child' = [child EXCEPT ![b][IC] = IF HasReader(fifoName) THEN @ ELSE "blocked"]
  /\ UNCHANGED job
  /\ EnvFrame

GetsReader(b) ==
  /\ child[b][IC] = "blocked" /\ HasReader(holds[b][IC])
  /\ child' = [child EXCEPT ![b][IC] = "running"]
  /\ UNCHANGED <<job, holds>>
  /\ EnvFrame

\* An app reaches MAX.
AppEnds(b, i) == child[b][i] = "running" /\ holds[b][i] # 0 /\ Dies(b, i)

\* Mutant: SIGPIPE ignored, and the failed write not noticed.
WriteNeverFails(b) == FALSE

\* A write to a FIFO nobody reads raises SIGPIPE.
WriteFails(b) == child[b][IC] = "running" /\ holds[b][IC] # 0 /\ ~HasReader(holds[b][IC])

SignalledToEnd(b) == child[b][IC] = "running" /\ b = boots /\ kpc = "wait"

ICEnds(b) ==
  /\ WriteFails(b) \/ SignalledToEnd(b)
  /\ Dies(b, IC)

\* build_and_exec.sh ends after the kernel, and nobody watches the group.
ScriptEnds(b) ==
  /\ job[b] = "script" /\ ~Alive(b)
  /\ job' = [job EXCEPT ![b] = "shell"]
  /\ child' = [child EXCEPT ![b] = Hangup(@)]
  /\ UNCHANGED holds
  /\ EnvFrame

\* The user continues a stopped job: SIGTERM is pending in all of its members.
Foreground(b) ==
  /\ job[b] = "stopped"
  /\ job' = [job EXCEPT ![b] = "shell"]
  /\ child' = [child EXCEPT ![b] = Hangup(@)]
  /\ UNCHANGED holds
  /\ EnvFrame

ChildStep(b, c) ==
  \/ c \in Apps /\ (open_shared_memory(b, c) \/ AppEnds(b, c) \/ (OpenFails(b, c) /\ Dies(b, c)))
  \/ c = IC /\ (OpenForWriting(b) \/ GetsReader(b) \/ ICEnds(b))

Next ==
  \/ Boot \/ KernelStep \/ ExitOnFailure \/ Schedule \/ sigtstpHandler \/ Crash
  \/ \E b \in Boots : ScriptEnds(b) \/ Foreground(b)
  \/ \E b \in Boots, c \in Children : ChildStep(b, c) \/ ExecFails(b, c)

Spec == Init /\ [][Next]_vars

\* Processes that can execute do so, and the script goes on to its end.
Fairness ==
  /\ WF_vars(KernelStep)
  /\ \A b \in Boots :
       /\ WF_vars(ScriptEnds(b))
       /\ \A c \in Children : WF_vars(ChildStep(b, c))

FairSpec == Spec /\ Fairness
----------------------------------------------------------------------------
TypeOK ==
  /\ boots \in 0..MaxBoots
  /\ kpc \in Ended \cup {"makeFIFO", "openFIFO", "forkIC", "clean", "shm_open", "fork",
                         "halt", "launch", "loop", "wait", "unlink", "closeShms"}
  /\ kpc # "off" => boots > 0
  /\ kidx \in Apps
  /\ job \in [Boots -> {"none", "shell", "script", "stopped", "no job"}]
  /\ fifoName \in 0..MaxBoots
  /\ shmName \in [Apps -> 0..MaxBoots]
  /\ fd_irq \in 0..MaxBoots
  /\ shm \in [Apps -> 0..MaxBoots]
  /\ child \in [Boots -> [Children -> {"none", "running", "stopped", "blocked", "dead"}]]
  /\ holds \in [Boots -> [Children -> 0..MaxBoots]]

\* Whatever earlier kernels have left behind, names or processes, no process
\* of one boot shares the FIFO or a segment with a process of another one
\* (unlink in makeFIFO, cleanOldShms before shm_open).
BootsAreApart ==
  \A b \in Boots, c \in Children :
    Live(b, c) /\ holds[b][c] # 0 =>
      /\ \A d \in Boots \ {b} : Live(d, c) => holds[d][c] # holds[b][c]
      /\ ~Alive(b) => holds[b][c] # IF c = IC THEN fd_irq ELSE shm[c]

\* An app that is about to map its segment finds the one its kernel has
\* mapped, even if it executes before the kernel has stopped it.
SegmentsAwaitApps ==
  \A i \in Apps :
    boots > 0 /\ Alive(boots) /\ Live(boots, i) /\ holds[boots][i] = 0
      => shmName[i] # 0 /\ shmName[i] = shm[i]

ReturnIsClean ==
  kpc = "returned" =>
    /\ fifoName = 0 /\ \A i \in Apps : shmName[i] = 0
    /\ \A c \in Children : ~Live(boots, c)

NoOrphanIsStopped ==
  \A b \in Boots :
    job[b] = "shell" /\ ~Alive(b) => \A c \in Children : child[b][c] # "stopped"

\* A kernel that returns from main leaves no name, neither its own nor one of
\* a predecessor that ended otherwise, and no child of its own.  One that ends
\* in another way, by a failure exit of the boot, a crash or Ctrl-Z, leaves
\* names and children, but under job control no child that stays stopped, which
\* nobody would continue.  (Without job control stopped children stay, also
\* after a successor has returned.)
NothingIsLeft == ReturnIsClean /\ NoOrphanIsStopped

\* Under job control nobody survives a kernel that ended in whatever way,
\* unless it waits in open() for a reader that will never come: stopped
\* children are hung up, the app that executes ends by itself and the
\* intercontroller fails to write.  (After a Ctrl-Z that stops the script
\* too, the children stay until the job is continued.)
NobodySurvives ==
  \A b \in Boots :
    (job[b] = "shell" /\ ~Alive(b))
      ~> (\A c \in Children : child[b][c] \in {"none", "dead", "blocked"})
============================================================================
