# T1 and its exercises: a TLA+ model

This directory specifies and verifies the programs of the repository
*INF1316 - Sistemas Operacionais*. Its main program, `T1`, is a simulated
operating system: a **kernel** process that multiplexes five **application**
processes on one imaginary processor with SIGSTOP and SIGCONT, an
**intercontroller** process that generates interrupts, and a **file server**
(SFSS) reached over UDP. `LAB2` to `LAB8` are small exercises on processes,
signals, pipes, FIFOs, semaphores and directories.

## 1. The system

### 1.1 Parts, state, operations

| Part | Source (below `src/T1`) | State | Operations |
|---|---|---|---|
| kernel | `src/kernel/*.c`, `src/process.c` | `processes[]` (state, PC, op), `current`, `fileQueue`/`nFile`, `dirQueue`/`nDir`, `pause_flag`, registry of written files | boot; one turn of the main loop: an interrupt (`handleIrqFifo`: `timeSlice`, `deliverFileReply`, `deliverDirReply`), a reply (`recvUdpReply`, `enqueueReply`), the requests (`handleProcessRequests`), pause and resume, `checkTerminatedProcesses`; end of `main`; the handlers of SIGINT and SIGTSTP |
| app A(i) | `src/app/*.c` | `PC`, position in its loop | sleep, `PC++`, `handle_reply`, `prepare_syscall`, exit at `MAX` |
| intercontroller | `src/intercontroller` | `running_flag` | every 500 ms IRQ0, at 10 % IRQ1, at 2 % IRQ2; exit after SIGUSR1 |
| shared segments | `include/shm_msg.h` | per app: `has_request`, `has_reply`, operation, arguments or reply | stores of the app and of the kernel, without locks |
| IRQ FIFO | `src/fifo.c` | bytes | blocking write, non-blocking read |
| UDP | `udp_client_functions.c`, `server.c` | datagrams on their way | `sendto`, `recvfrom`, loss |
| file server | `src/sfss-server` | directories, files, contents | RD, WR, DC, DR, DL |
| registry | `udp_client_functions.c:108-141` | `written_files`, `written_files_count` | append, remove |
| operating system | (outside the repository) | for every child: running, stopped, zombie, reaped; names of FIFOs and segments | SIGSTOP, SIGCONT, exit, `waitpid`; `unlink`, `shm_unlink`; signals to a process group |

The exercises (below `src`) are programs of their own:

| Exercise | Processes | Shared state |
|---|---|---|
| LAB2/EX1 | parent, one child per row | three matrices, `waitpid` |
| LAB2/EX4 | parent, two children | two cells of a value and a sequence number, unlocked |
| LAB3 | parent, two children | SIGSTOP and SIGCONT |
| LAB4/EX2 | one program | two signals, `loop`, `inicio` |
| LAB5/EX4 | parent, writer, two readers | a pipe |
| LAB6/EX1 | writer, reader | a FIFO made by either |
| LAB6/EX2 | parent, two children | a FIFO read without blocking |
| LAB6/EX3 | client, server | two FIFOs, opened by the client for every line |
| LAB7/EX3 | two writers | an integer, a semaphore with SEM_UNDO |
| LAB4/EX1, LAB5/EX1, LAB5/EX2, LAB8 | see section 6 | |

### 1.2 How they interact

An app posts a system call by filling its segment and setting `has_request`.
The kernel polls the segments; it clears the flag, stops the app, marks it
BLOCKED and sends a datagram. The server's reply is received by polling; the
kernel already sets `has_reply` and copies part of the reply, and puts it into
one of two queues. Only an IRQ1 (files) or IRQ2 (directories) delivers the
oldest reply of the queue: the rest of the segment is written and the process
becomes READY. IRQ0 preempts the process that runs and dispatches the next
READY one. Ctrl-C stops and resumes everything. When all apps have been reaped
the kernel sends SIGUSR1 to the intercontroller, waits for it and ends. Ctrl-Z
ends everything at once. The FIFO and the segments have fixed names, so what a
kernel leaves behind is met by the next one.

### 1.3 What is hard, and what makes each part correct

Nothing is locked: the order of stores, signals and polls is all there is.
`PROJECT.json` lists the hazards at their lines. In short:

* kernel and apps: at most one app may execute; a segment must be written only
  while its app is stopped; a process must be BLOCKED exactly while an answer
  is on its way (the queues have no bound check of their own); TERMINATED must
  be final; nobody may starve; the kernel must end;
* pause: a signal may arrive between a test and `pause()`; the clocks of the
  apps run on while they are stopped;
* UDP: no timeout, no retry;
* file server: two apps share `/A0`; removing directories and creating files in
  them interleave; replies wait in the kernel while the tree changes;
* registry: limits, and an initial value that nobody set;
* boot and end: any step may fail, the kernel may be killed or get Ctrl-Z
  anywhere, and stopped children cannot act on SIGTERM; two kernels in a row must
  not share a FIFO or a segment, and a clean end must leave nothing;
* exercises: reads of a value and its number in two steps, signals between a
  test and `pause()`, ends of pipes kept open, FIFOs that wait for each other,
  a semaphore that is set while it is in use, forks that fail.

## 2. Modules

| Module | Models | State |
|---|---|---|
| `Machine` | what the processes share: segments, FIFO, datagrams, run statuses | `has_request`, `has_reply`, `op`, `body`, `run`, `fifo`, `reqs`, `reps`, `sigusr1` |
| `App` | `app.c`, `app_functions.c` | `apc`, `PC` |
| `InterController` | `intercontroller.c` | `icpc` |
| `Kernel` | `kernel.c`, `kernel_functions.c`, `kernel_reply.c`, `udp_client_functions.c` | `kpc`, `kidx`, `state`, `current`, `fileQueue`, `dirQueue`, `pause_flag` |
| `T1System` | all of them together with the network, the server as a function and the user; the properties | `sigints`, `lost`, `overslept` |
| `MCT1System` | values of constants for TLC | |
| `SyscallService` | the abstract specification: what a system call is to an app | `call` |
| `T1SystemProofs` | proof: type correctness | |
| `T1ExclusionProofs` | proofs: one app runs; replies land on stopped apps; the scheduler is a round robin | |
| `T1PromptProofs` | proofs of what holds when the kernel keeps up: answers owed, losses, queues, TERMINATED, whole replies | |
| `T1ServiceProofs` | proof that `T1System` implements `SyscallService` | |
| `Sfss` | the handlers of the file server | `dirs`, `files`, `content`, `call` |
| `SfssSystem` | the server used by several apps, and the registry of the kernel | `written`, `registered`, `dropped`, `calls` |
| `SfssProofs` | proofs: the tree, the replies, the registry, the contents, types | |
| `Lifecycle` | boot with its failure exits, end, SIGTSTP and crash of the kernel, and what the next boot meets | `boots`, `kpc`, `kidx`, `job`, `fifoName`, `shmName`, `fd_irq`, `shm`, `child`, `holds` |
| `LifecycleProofs` | proofs: boots stay apart, segments await their apps, an orderly end leaves nothing, types | |
| `MatrixSum` | LAB2/EX1 | `step`, `row`, `pids`, `zombie`, `reaped`, `filled` |
| `SharedProduct` | LAB2/EX4 | `cell`, `turn`, `store`, `doing`, `operand`, `last`, `shown` |
| `Alternation` | LAB3 | `main`, `forked`, `status`, `trade` |
| `CallMonitor` | LAB4/EX2 | `mpc`, `loop`, `inicio`, `fpc`, `fim`, `now`, `pending`, `preco` |
| `TwoReaders` | LAB5/EX4 | `pipe`, `holders`, `kin`, `wrote`, `taken`, `printed` |
| `LineFifo` | LAB6/EX1 | `made`, `at`, `input`, `flow`, `output` |
| `FamilyFifo` | LAB6/EX2 | `pai`, `filho`, `queue`, `reader`, `lidas` |
| `UpperServer` | LAB6/EX3 | `spc`, `cpc`, `toServer`, `toClient`, `received`, `lidos` |
| `SemWriters` | LAB7/EX3 | `semval`, `semadj`, `valor`, `wpc`, `copy`, `round` |
| `Labs` | the exercises side by side, one of which runs in a behaviour; their fairness | `exercise` |
| `LabsProofs` | proofs about LAB2/EX4, LAB5/EX4, LAB6/EX1 (the FIFO) and LAB7/EX3 | |
| `LabsFurtherProofs` | proofs about LAB2/EX1, LAB3, LAB4/EX2, LAB6/EX1 (the lines), LAB6/EX2 and LAB6/EX3, and types | |

**Grain of atomicity.** The kernel is sequential; `kpc` names where it is in
`main` and a step runs to the next point at which another process or a signal
can make a difference. Clearing `has_request` and stopping the app
(`kernel_functions.c:67-69`) are two steps, and so are reading `pause_flag` and
calling `pause()`. In an app every store to `has_request` or `has_reply` is a
step of its own; the other fields are written together. SIGSTOP acts at once.

**Data.** A request is represented by its operation and the value the app's PC
had when it was posted (`Args(t)`), a reply by the tag of the request it
answers (`Answer(t)`): that is what tells the right answer from a stale one, and
a complete reply from one of which only the first fields were copied
(`PartOf`). `processes[].PC`, `processes[].op` and all output are left out.

**Timing.** An app and the intercontroller sleep 500 ms between two actions,
and the kernel polls without sleeping. `KernelKeepsUp = TRUE` states what that
means: a sleep does not run out before the kernel has taken the request, or the
interrupts, posted before it began (`MayWake`, `ICMayWake`). There is one
exception, which the code really has: while the kernel is in `pause()` the
clocks run on, so the sleeps that began before the pause are over at its end
(`overslept`). With `KernelKeepsUp = FALSE` nothing is assumed about time.

**The file server.** In `T1System` it is one action that answers the oldest
request. Its content is modelled in `Sfss`, at the grain of one turn of its
loop, which is exact since it is sequential. Files are sequences of 16-byte
blocks, because every payload and every offset of an app is a multiple of 16;
a block holds the owner's letter or blanks. `SfssSystem` lets the kernel hold a
reply for any time before it is consumed. `written_files` and its counter are on
the stack of `main` and never initialised: `InitialCounts` says how many entries
nobody wrote the registry may begin with, each of which is empty or something no
path is equal to. (A counter outside of the array is undefined behaviour and not
in the model.)

**The life of a kernel.** `Lifecycle` leaves out what the main loop does, but for
the stopping and continuing of children, and keeps every step before and after
it. An object, FIFO or segment, is known by the number of the boot that made it,
so that "the name refers to another object" and "a process still has the old one
open" can be told apart. The kernel may exit, be killed or get Ctrl-Z at any
step. What the operating system does is modelled as POSIX says: SIGTERM stays
pending in a stopped process; a process group that no shell watches any more and
has a stopped member is sent SIGHUP and SIGCONT; a write to a FIFO without a
reader raises SIGPIPE; `open` for writing waits for a reader. Kernels run one
after the other, and a new one is started only when whoever executes has opened
what it uses. How it is started (`job`) matters: by hand, through
`build_and_exec.sh`, which is a member of the group that Ctrl-Z may stop, or
without job control, where nobody hangs anything up.

**The exercises.** A step is one system call, or one access to shared memory.
Values that nobody distinguishes are left out: a random value is its round, a
line is its number (in `UpperServer`, its length), a matrix row is the number
of its finished cells. `sleep` is not modelled, so that every order of the
processes is. In LAB2/EX4 each mention of a shared variable is one load or
store, as in a build without optimisation; an optimiser could move the loads out
of the loop. SETVAL in LAB7 also clears what the processes have to undo, and the
undo of a process that ends does not make the semaphore negative, as in Linux.
The exercises share nothing, so `Labs` lets the initial state choose one of them
instead of interleaving them.

## 3. What TLC checks

| Run | Constants | Shows |
|---|---|---|
| `T1Prompt` | 2 apps, 2 iterations, RD and DC, no Ctrl-C, no loss | `TypeOK`, `QueuesFit`, `BlockedIsOwed`, `TerminatedIsFinal`, `AppsReadWholeReplies`, and `ImplementsService`: the refinement of `SyscallService` |
| `T1ThreeApps` | 3 apps, 1 iteration, RD | `RoundRobin` |
| `T1Async` | 2 apps, 1 iteration, RD, no timing assumption, 2 Ctrl-C, a FIFO of 2 bytes | `OneAppRuns`, `RepliesLandOnStoppedApps` |
| `T1Live` | 2 apps, 1 iteration, RD, fairness | `ServesEveryCall`, `NoStarvation`, `Finishes` |
| `T1Loss` | 2 apps, 1 iteration, RD and DC, 2 losses, fairness | `LossIsContained` |
| `SfssTree` | 2 apps, 1 directory and 1 file name per tree, offsets of 0 and 2 blocks, 4 calls, a registry of 2 that begins with 1 entry | `TypeOK`, `NoOrphans`, `BlocksAreKept`, `PrivateRepliesAreFresh`, `RegistryCoversFiles` |
| `T1Boot` | 2 apps, 2 boots, fairness | `TypeOK`, `BootsAreApart`, `SegmentsAwaitApps`, `NothingIsLeft`, `NobodySurvives` |
| `Labs` | see below, fairness | `TypeOK` and the properties of the exercises |
| `T1LostWakeup`, `T1StoppedIC`, `T1Revived`, `SfssWriteOk` | | the findings of section 5 |

What `Labs` shows:

| Exercise | Properties |
|---|---|
| LAB2/EX1 | `SumIsComplete`: printed when every row is complete and no child is left, whichever forks fail |
| LAB2/EX4 | `ProductsAreFresh`: the k-th product is made of values of the k-th round or later; `NoValueThrice`: one value enters at most two products, in order |
| LAB3 | `ChildrenTakeTurns`, if both forks succeed |
| LAB4/EX2 | `PriceIsRight`, and what is printed if SIGUSR1 comes between the clock and the price; `EndIsNoticed`: a SIGUSR2 before `pause()` costs at most one more signal |
| LAB5/EX4 | `MessagesAreRead`: all of them, the first one printed, none twice, if the writer and one reader could be forked, and SIGPIPE only if no reader could; `ReadersEnd` |
| LAB6/EX1 | `OneMayFail`: of two programs started together at most one fails, none if the FIFO was there; `LinesArrive` |
| LAB6/EX2 | `FamilyReads`: the message of every child that could be forked |
| LAB6/EX3 | `AnswersTheLine`: the last line, as long as none has 255 letters, and never a mixture of two lines; `LinesAreAnswered`: the first always, a later one unless the server dies of SIGPIPE |
| LAB7/EX3 | `SemaphoreCounts`, `NoAdditionIsLost`, over kills and restarts, unless writer1 sets the semaphore while somebody is inside; `WritersEnd` in any case |

**Bounds.** `N`: two apps are the fewest that can both be executing, be
overtaken or collide in a queue; the circular search needs a third process to
overtake one, hence `T1ThreeApps`. `MAX`: with two iterations an app posts a
call, consumes its reply and posts another, or exits with the reply of the
first still unread. `Ops`: one operation for each of the two reply queues;
within a queue operations differ only in the server's answer. `FifoCap`: with
the timing assumption the intercontroller finds at most the three bytes of its
previous turn in the FIFO and adds three when SIGUSR1 cuts its sleep short, so
six bytes never block it, as the real 64 KiB do not; the two of `T1Async` fill up
again and again. `MaxSigint = 2`: the first Ctrl-C pauses, the second resumes or
comes at the wrong moment. `MaxLost = 2`: every app can be hit. Four calls in
`SfssTree` create a directory, a file in it, and try to remove both in any
order, or write a file twice and read or delete it; offsets of 0 and 2 blocks
overwrite a block, leave it alone, and make a write to an existing file of one
block leave a gap; `MaxWritten = 2` makes the registry reach its limit. Two boots: the second meets whatever the first may
leave, and the properties compare two boots at a time. In `Labs`: `TAM = 4` and
lines of 0 to 3 letters give an empty line, some that fit and one whose NUL does not,
three of them a leftover that meets the next line; `MaxRounds = 4` lets a child
be ahead of, or behind, three products; two runs of two rounds let a writer be
killed and started again while the other one is anywhere; `MaxTime = 5` with
`FlatSeconds = 2` gives calls at both rates, and four signals a call, its end, a
restart in between and one more; `NumTrades = 4` repeats both turns; messages and
lines three or four, of which reads take any number; matrices of three rows let
two forks fail.

**Deadlock** is checked where the system should end only by the kernel
returning from `main` (`T1Prompt`, `T1ThreeApps`, `T1Live`, and
`T1Loss`, whose kernel polls for ever). It is off in `T1Async` and the runs of
the findings, where an app that exits at the wrong time or an intercontroller
left stopped really stops the system, in `SfssTree`, which ends after
`MaxCalls` calls, in `T1Boot`, which ends after `MaxBoots`, and in `Labs`, whose
programs end, or wait for somebody who has.

**Which properties need which assumptions.** `OneAppRuns` and
`RepliesLandOnStoppedApps` need none. `QueuesFit`, `BlockedIsOwed`,
`TerminatedIsFinal`, `AppsReadWholeReplies` and the refinement hold because the
kernel keeps up and at most one Ctrl-C is pressed: an app that outruns the kernel
can overwrite its own request, and one whose sleep was used up by a pause can exit
with a request pending, which is finding 3. A pause ends with the second Ctrl-C,
so one alone uses nobody's sleep up. `BlockedIsOwed` and the refinement also need
that no datagram is lost. Section 4 states these as the hypotheses of theorems. `NobodySurvives` is about kernels under job
control: after a Ctrl-Z that stops `build_and_exec.sh` too, the children stay,
with SIGTERM pending, until the user continues the job, and without job control
stopped children stay for ever. An intercontroller that waits in `open` for a
kernel that failed in its boot waits until the next kernel opens a FIFO of that
object, which `makeFIFO` excludes.

**Fairness.** Weak fairness of the kernel, the server and the intercontroller:
they are ordinary processes that the operating system schedules. Strong fairness
of every app: it is enabled only while dispatched, but then for a slice of
500 ms, in which it takes many steps; a weakly fair app could be preempted
before every single step. Strong fairness of IRQ1 and IRQ2: they are drawn
independently with fixed probabilities in every turn, so never drawing one again
has probability zero. Without it a blocked process may wait for ever for its
interrupt. No fairness for Ctrl-C or for losses. In `Lifecycle` and `Labs`:
weak fairness of every process, and of the script's going on to its end; none for
users, who start, continue and kill programs, type and send signals, nor for
failures.

## 4. What TLAPS proves

Every invariant and action property that a passing run checks, and the refinement
of `SyscallService`, is a theorem about every value of the constants: numbers of
apps, iterations, boots, files, rounds, messages and lines, sizes of FIFOs and
buffers, sets of operations. Nothing is assumed but the named assumptions on the
constants, and what the table says.

| Theorem | Property | Holds |
|---|---|---|
| `T1SystemProofs!TypeCorrect` | `TypeOK` | always |
| `T1ExclusionProofs!OneAppRunsAlways` | `OneAppRuns` | always: any timing, Ctrl-C and loss |
| `T1ExclusionProofs!RepliesLandSafely` | `RepliesLandOnStoppedApps` | always |
| `T1ExclusionProofs!SchedulingIsRoundRobin` | `RoundRobin` | always |
| `T1PromptProofs!QueuesNeverOverflow` | `QueuesFit` | `Prompt` |
| `T1PromptProofs!TerminationIsFinal` | `TerminatedIsFinal` | `Prompt` |
| `T1PromptProofs!DeliveryAlwaysUnblocks` | `DeliveryUnblocks` | `Prompt` |
| `T1PromptProofs!RepliesAreReadWhole` | `AppsReadWholeReplies` | `Prompt` |
| `T1PromptProofs!LossesStrandTheirOwners` | safe half of `LossIsContained`: as many processes are BLOCKED without an answer on its way as datagrams have been lost | `Prompt` |
| `T1PromptProofs!LossKeepsKernelPolling` | the kernel leaves its loop only if nothing has been lost | `Prompt` |
| `T1PromptProofs!BlockedIsAlwaysOwed` | `BlockedIsOwed` | `Prompt`, no loss |
| `T1ServiceProofs!T1ImplementsService` | `ImplementsService` | `Prompt`, no loss |
| `SfssProofs!TreeStaysWellFormed` | `NoOrphans` | always |
| `SfssProofs!WritesKeepBlocks` | `BlocksAreKept` | always |
| `SfssProofs!PrivateRepliesStayFresh` | `PrivateRepliesAreFresh` | always |
| `SfssProofs!RegistryAlwaysCovers` | `RegistryCoversFiles` | always |
| `SfssProofs!SfssTypeCorrect` | `TypeOK` | always |
| `LifecycleProofs!BootsStayApart` | `BootsAreApart` | always |
| `LifecycleProofs!SegmentsAreThere` | `SegmentsAwaitApps` | always |
| `LifecycleProofs!ReturnLeavesNothing` | `NothingIsLeft` | always |
| `LifecycleProofs!LifeTypeCorrect` | `TypeOK` | always |
| `LabsProofs!ProductsStayFresh`, `ValuesEnterTwiceAtMost` | `ProductsAreFresh`, `NoValueThrice` | always |
| `LabsProofs!EveryMessageIsRead` | `MessagesAreRead` | always |
| `LabsProofs!OnlyOneFails` | `OneMayFail` | always |
| `LabsProofs!SemaphoreAlwaysCounts`, `AdditionsAreKept` | `SemaphoreCounts`, `NoAdditionIsLost` | always |
| `LabsFurtherProofs!TurnsAlternate` | `ChildrenTakeTurns` | always |
| `LabsFurtherProofs!PriceIsAlwaysRight` | `PriceIsRight` | always |
| `LabsFurtherProofs!AnswerIsTheLine` | `AnswersTheLine` | always |
| `LabsFurtherProofs!LabsTypeCorrect` | `TypeOK` | always |
| `LabsFurtherProofs!PrintedSumIsComplete`, `FamilyIsRead`, `LinesArriveInOrder` | the safe halves of `SumIsComplete`, `FamilyReads`, `LinesArrive` | always |

`Prompt` is `KernelKeepsUp` and at most one Ctrl-C, any number of losses allowed.
`DeliveryUnblocks` is the property that finding 3 refutes: the theorem says that
it takes a second Ctrl-C.

### 4.1 T1

**Types.** `TypeOK` is not inductive: the `PC <= MAX` in it needs that an app at the
top of its loop has `PC < MAX`, which is `PCBelowMAX`.

**One app runs.** The property itself does not say which app runs; the inductive
invariant `ExclusionInv` does: an app executes only while it is RUNNING in the
table, or between its fork and the SIGSTOP that follows (`RunsWhenDispatched`),
and only `current` can be RUNNING (`DispatchedIsCurrent`). A delivery, however,
makes its process READY without looking at its state: if that process were
executing, the table would be wrong. So the invariant also says that at most one
message is about a live process, which is BLOCKED meanwhile (`OwedIsBlocked`, with
`SendsUnblocked` for the step that sends and `BootIsQuiet` for the boot). For a
process that has exited nothing of the kind holds, which is finding 3. The
argument counts messages, so it rests on lemmas about the number of messages about
an app in a queue after `Append` and `Tail` (`OwnedByAppend`, `OwnedByTail`).

**Round robin** needs only types: `timeSlice` dispatches the first READY process
after `current`, so every other one is farther away than it, and its distance from
the new `current` is the old one minus that of the dispatched process, modulo `N`.

**With a kernel that keeps up** `ExclusionInv` extends to processes that have
exited. `PromptInv` adds, for every app, what its call is doing (`CallInv`: a
posted request has its app asleep and not BLOCKED; a BLOCKED app is still where it
posted; `done` is the same as having exited, and TERMINATED implies reaped; a reply
that an app may look at is whole, and is looked at in a later iteration); that every
message is about the call its owner is in (`MessagesAreCurrent`); that nobody who is
not BLOCKED is owed a message and nobody more than one (`OwedAtMost`); and that the
processes that are BLOCKED and owed nothing are as many as the datagrams lost
(`LossStrandsOne`), so that without a loss there are none and `BlockedIsOwed` holds.
The invariant is inductive as long as no sleep ran out during a `pause()`, which is `Calm`, an
invariant of its own when at most one Ctrl-C is pressed: the kernel sleeps in
`pause()` only after a Ctrl-C, so one that finds it asleep is at least the second,
which is where `overslept` is assigned. `QueuesFit` follows by counting: a queue
with at most one message per process is not longer than the table. An action
property follows from `PromptInv` at both ends of a step.

**The refinement** maps the messages in four queues to one abstract call per app.
`View` describes the same mapping without looking at messages one by one, from the
flags, the table and whether a request about the app is on its way, and
`CallIsView` proves that the two agree under `PromptInv`. Each action then either
leaves every `View` alone or changes that of one app the way one action of
`SyscallService` does (`SystemStep`). Taking the request, sending the datagram,
receiving and queueing the reply are stutters; the server's step is the execution,
and the delivery the answer.

### 4.2 The file server

`NoOrphans` is inductive with the types of the tree (`TreeInv`). What a reply says
(`PrivateRepliesAreFresh`) is inductive with `CallInv`, which says that a
call under way holds a request of its owner and a reply that fits it: only the
owner may change its own directory (`Targets`), and it makes no other call before it
has consumed the reply. `RegistryInv` adds the entries of the registry; the property needs no
assumption on its initial contents, because entries are only ever appended, the
branch that removes being dead for every entry that is a path. `BlocksAreKept` is
about a single step, and its proof about what `handleWrite` makes of a sequence:
the old blocks, blanks up to the offset, the new block.

### 4.3 The life of a kernel

`LifeInv` says what separates two boots: a process has nothing open but what its
own kernel made, and one that has nothing open yet belongs to the last boot
(`OwnObjects`); the kernel has open what the boot under way has made, as far as it
has got (`KernelObjects`); and a live child of the last boot that still has to open
something finds the names of that boot (`NamesAwait`). `Unborn` says, for each label
of `main`, who has not been forked, so that the invariant speaks of a boot that
failed half-way too. The steps of children, however they are stopped, hung up or
killed, are one lemma (`ChildrenMove`): whatever happens to them, they fade.
The end of `main` is three actions, between which the kernel may be killed: the
last `waitpid`, the `unlink`, and one turn of `closeShms` per app. From the first on
it has no child (`NoChildWhileClosing`), and the names that are gone are those
`kidx` has passed. The other half of `NothingIsLeft` is about kernels that ended in
any other way, failure exits included, and is inductive with what is hung up at the
end of a kernel and of its script (`OrphansInductive`).

### 4.4 The exercises

`Frame` carries an invariant of one exercise to all of them, since a step of `Labs`
is a step of each or leaves its variables alone. The invariants:

* LAB2/EX4: a child's number is never ahead of its value and at most one round
  behind (`CellsInv`); while the parent is testing, what it knows is behind what it
  has read (`ParentInv`). `Level` is the number with which a child's part of the
  products is compared, and between the product and the reading of the new number
  that is what is in the cell, not what the parent has noted; with it `ShownInv`
  bounds every product by the rounds and implies both properties inductively.
* LAB5/EX4: `KinInv` says who has which end of the pipe open, so that a reader finds
  the end only when the writer is through, and a writer finds no reader only if
  none could be forked; `PipeInv`, that the pipe holds the last
  messages written and `taken` the others; `PrintedOnce`, that what was printed was
  taken, differs, and includes the first message.
* LAB6/EX1: `LineInv` for the FIFO made by either program, `FlowInv` for the lines:
  what was printed followed by what is in the FIFO is what was typed. A reader
  takes any prefix, and the associativity of concatenation does the rest.
* LAB6/EX2: `FamilyInv`, the messages read followed by those in the FIFO are those
  of the children that have ended, each once.
* LAB6/EX3: while all lines fit, one line or one answer is under way, in exactly one
  place, and the other FIFO is empty (`OneUnderWay`). `StringIn` looks for the
  first NUL with `Min`; that a nonempty set of indices has a least element is
  proved from the well-foundedness of strict inclusion on finite sets
  (`LeastIndex`), because the induction theorems themselves cannot be used. After a
  line that does not fit, `Apart` is what is left: everything written ends in NUL, and
  between different letters in a buffer there is a NUL (`Unmixed`), which reads
  (`UnmixedTaken`), writes (`UnmixedConcat`) and the server's answer (`EchoUnmixed`)
  preserve, so that a string is made of one letter (`StringUnmixed`).
* LAB7/EX3: unless the semaphore was set while somebody was inside, what SEM_UNDO
  would give back is what the writers inside hold, semaphore and holders add up to
  1, and a value that has been read is still in the shared integer (`WritersCount`).
* LAB3: `TurnsInv` follows the two signals of a turn. LAB4/EX2: the call began in
  the past, and not after its end unless it was restarted (`MonitorInv`); the price is the count of two intervals of seconds
  (`PriceCounts`). LAB2/EX1: the rows already waited for are reaped (`MatrixInv`),
  by whichever `waitpid`.

### 4.5 What stays with TLC

Liveness and anything about ENABLED are out of these provers' reach:
`ServesEveryCall`, `NoStarvation`, `Finishes`, `LossIsContained`, `NobodySurvives`,
`SumIsComplete`, `EndIsNoticed`, `ReadersEnd`, `LinesArrive`, `FamilyReads`,
`LinesAreAnswered` and `WritersEnd` are only model-checked, on the instances of
section 3. So is what a recursive definition computes for every input, and there
is none here: induction over data would need theorems that take an operator as a
parameter. The properties that the findings refute are not theorems, but for
`DeliveryUnblocks` under the assumption that makes it true.

Proving found two things in the model. `SfssSystem!StillTrue` and
`SharedProduct!NoteSeq` were CASE expressions whose guards overlapped, of which TLC
evaluates the first and TLA+ means any; they are conditionals now. And the type
invariant of `SharedProduct` is false for `Products = 0`, since the parent prints a
product before it counts; the code has the literal 5, and the assumption now
excludes 0. It also showed which assumption each property rests on: one Ctrl-C
and any number of losses are harmless to properties that were only checked
without.

## 5. Findings

1. `T1LostWakeup`: `handlePauseAndResume` receives `pause_flag` by value. A
   Ctrl-C between the call and `pause()` clears the flag, and the kernel sleeps
   all the same; it takes two more signals to get the flags back in step.
2. `T1StoppedIC`: if the last app is reaped in the turn that paused the
   children, `main` leaves its loop with the intercontroller stopped. SIGUSR1
   stays pending and `waitpid` does not return.
3. `T1Revived`: `deliverFileReply` makes the owner READY whatever its state. An
   app whose last sleep was used up by a pause can exit before its request is
   scanned; it is then reaped as TERMINATED and revived by the reply, and the
   kernel never ends.
4. `SfssWriteOk`: `handle_reply` prints that 16 bytes were written after writes
   that removed the file or only lengthened it.

Not a contradiction of anything written in the repository, but worth knowing:
the branch that takes removed files out of the registry never finds one,
because `handleWrite` returns from a removal before it copies the path, and a
listing (DL) never reaches the app, whose segment has no field for it.
`written_files_count` is never initialised, so the lists printed during a pause
may begin with anything, and a count outside of 0..127 makes `recvUdpReply` write
outside of the array or nothing at all. After Ctrl-Z the FIFO and the segments
stay until the next kernel. If the intercontroller cannot be executed the kernel
polls for ever. `LAB3` signals every process of the user after a failed fork. In
LAB2/EX4 the parent polls for ever if a child could not be forked. In
LAB6/EX3 a line of 255 characters shifts all answers by one, and the server dies
when it answers before the client has come back. `LAB7/EX3/limpa.c` does not
compile.

## 6. Not modelled

* A full disk, unknown operations, listings over 512 characters: they cannot
  occur with these apps.
* Two kernels at the same time: they would use each other's names.
* A signal before LAB4/EX2 has installed its handlers; a program of LAB6 or LAB7
  running twice; readers and clients of LAB6 that are killed.
* The exits of the exercises when `shmget`, `shmat`, `mkfifo` or `open` fails for
  a reason of the operating system: nobody else runs yet.
* `releaseDevice` and `utils/queue.c`: dead code.
* Output.
* LAB4/EX1 (a division under a SIGFPE handler), LAB5/EX1 (sends a buffer that is
  never initialised), LAB5/EX2 (one line through a pipe, read after the child has
  ended) and LAB8 (sequential walks of a directory tree that print what they
  find): one straight line each, without state that two steps could disagree on.
* `LAB7/EX3/limpa.c`: not a program that can be built.

## 7. Plan

In order of importance; the first ten points are done.

1. Kernel, apps and intercontroller: `Machine`, `App`, `InterController`,
   `Kernel`, `T1System`.
2. The abstract `SyscallService` and the refinement; liveness; loss; Ctrl-C.
3. Proofs of type correctness and of mutual exclusion.
4. The file server and the registry: `Sfss`, `SfssSystem`, and the proof of
   `NoOrphans`.
5. The SIGTSTP shutdown, the failure exits of the boot and restarts:
   `Lifecycle`.
6. The exercises with real concurrency, a module each, and `Labs`.
7. Proofs under `KernelKeepsUp` with at most one Ctrl-C: `BlockedIsOwed`,
   `QueuesFit`, `TerminatedIsFinal`, `AppsReadWholeReplies`; `RoundRobin`.
8. Proofs about the file server: types, `BlocksAreKept`,
   `PrivateRepliesAreFresh`, `RegistryCoversFiles`.
9. The step simulation of the refinement.
10. Proofs about `Lifecycle` and about the exercises.
11. The refinement, with losses, of a service that may lose a call.
12. What holds of several Ctrl-C: which parts of `PromptInv` survive a pause, and
    an exact condition on the apps that overslept under which the rest does.
13. The safe halves of `EndIsNoticed`, `LinesAreAnswered` and `NobodySurvives`.
