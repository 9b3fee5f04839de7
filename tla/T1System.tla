------------------------------ MODULE T1System ------------------------------
(***************************************************************************)
(* The whole of T1: the kernel, the apps, the intercontroller, the file    *)
(* server seen as a function from requests to replies, the network between *)
(* kernel and server, and the user pressing Ctrl-C.                        *)
(***************************************************************************)
EXTENDS App, InterController, Kernel, FiniteSets, Functions

CONSTANTS
  KernelKeepsUp,  \* the timing assumption, see MayWake
  MaxSigint,      \* bound on the number of Ctrl-C
  MaxLost         \* bound on the number of datagrams lost

ASSUME KernelKeepsUpAssumption == KernelKeepsUp \in BOOLEAN
ASSUME MaxSigintAssumption     == MaxSigint \in Nat
ASSUME MaxLostAssumption       == MaxLost \in Nat

VARIABLES
  sigints,    \* number of Ctrl-C so far
  lost,       \* number of datagrams lost so far
  overslept   \* children whose usleep ran out while the kernel was in pause()

envVars == <<sigints, lost, overslept>>
vars == <<machineVars, appVars, icpc, kernelVars, envVars>>

Init ==
  /\ MachineInit
  /\ AppInit
  /\ InterControllerInit
  /\ KernelInit
  /\ sigints = 0
  /\ lost = 0
  /\ overslept = {}

\* The state of every part has its type: in particular a process table entry
\* names a child, and PC never passes MAX (the loop of app.c).
TypeOK ==
  /\ MachineTypeOK
  /\ AppTypeOK
  /\ InterControllerTypeOK
  /\ KernelTypeOK
  /\ sigints \in 0..MaxSigint
  /\ lost \in 0..MaxLost
  /\ overslept \subseteq Children
----------------------------------------------------------------------------
\* The timing assumption.  Each usleep of an app or of the intercontroller
\* lasts 500 ms; the kernel polls without sleeping.  With KernelKeepsUp, a
\* usleep does not run out before the kernel has finished its boot and dealt
\* with the request, or the interrupts, posted before it began: unless the
\* kernel itself was in pause() meanwhile, because the clock runs on while a
\* process is stopped.
\* SIGUSR1 interrupts the usleep of the intercontroller.
Polled(i) == ~has_request[i] /\ ~(kpc = "send" /\ kidx = i)

MayWake(i) ==
  KernelKeepsUp => kpc \notin BootLabels /\ (Polled(i) \/ i \in overslept)

ICMayWake  ==
  KernelKeepsUp => (fifo = <<>> \/ IC \in overslept \/ sigusr1)

AppAction(i) ==
  /\ Asleep(i) => MayWake(i)
  /\ AppStep(i)
  /\ overslept' = IF Asleep(i) THEN overslept \ {i} ELSE overslept
  /\ UNCHANGED <<icpc, kernelVars, sigints, lost>>

ICAction ==
  /\ icpc = "nap" => ICMayWake
  /\ InterControllerStep
  /\ overslept' = IF icpc = "nap" THEN overslept \ {IC} ELSE overslept
  /\ UNCHANGED <<appVars, kernelVars, sigints, lost>>

KernelAction ==
  /\ KernelStep
  /\ UNCHANGED <<appVars, icpc, envVars>>

\* A sleep that began before the pause is over when the pause ends.
Sleepers == {i \in Procs : Live(i) /\ Asleep(i)} \cup (IF icpc = "nap" THEN {IC} ELSE {})

\* The user presses Ctrl-C while the kernel exists.
Sigint ==
  /\ kpc # "done"
  /\ sigints < MaxSigint
  /\ sigints' = sigints + 1
  /\ sigintHandler
  /\ overslept' = IF kpc = "sleeping" THEN overslept \cup Sleepers ELSE overslept
  /\ UNCHANGED <<appVars, icpc, lost>>

NetworkFrame == UNCHANGED <<segVars, run, fifo, sigusr1, appVars, icpc, kernelVars,
                            sigints, overslept>>

\* One turn of the server's loop: the reply names the owner and the operation
\* of the request, and its fields are the outcome of that request.
ServerAction ==
  /\ reqs # <<>>
  /\ reqs' = Tail(reqs)
  /\ reps' = Append(reps, [Head(reqs) EXCEPT !.body = Answer(Head(reqs).body.tag)])
  /\ NetworkFrame
  /\ UNCHANGED lost

\* UDP promises nothing, and a failed sendto is ignored by both programs: a
\* datagram disappears on its way, as do all of them while no server runs.
LoseRequest ==
  /\ lost < MaxLost
  /\ reqs # <<>>
  /\ reqs' = Tail(reqs)
  /\ lost' = lost + 1
  /\ NetworkFrame
  /\ UNCHANGED reps

LoseReply ==
  /\ lost < MaxLost
  /\ reps # <<>>
  /\ reps' = Tail(reps)
  /\ lost' = lost + 1
  /\ NetworkFrame
  /\ UNCHANGED reqs

\* The kernel has returned from main.
Terminated == kpc = "done" /\ UNCHANGED vars

Next ==
  \/ \E i \in Procs : AppAction(i)
  \/ ICAction
  \/ KernelAction
  \/ ServerAction
  \/ Sigint
  \/ LoseRequest
  \/ LoseReply
  \/ Terminated

Spec == Init /\ [][Next]_vars

\* The operating system schedules the kernel, the intercontroller and the
\* server.  An app executes for a whole time slice of 500 ms whenever it is
\* dispatched, and its usleeps run out while it is stopped: if it can execute
\* again and again, it does.  The intercontroller draws IRQ1 and IRQ2 with
\* fixed probabilities in every turn of its loop.
Fairness ==
  /\ WF_vars(KernelAction)
  /\ WF_vars(ServerAction)
  /\ WF_vars(ICAction)
  /\ SF_vars(ICAction /\ FileIrq)
  /\ SF_vars(ICAction /\ DirIrq)
  /\ \A i \in Procs : SF_vars(AppAction(i))

FairSpec == Spec /\ Fairness
----------------------------------------------------------------------------
(* Safety. *)

\* At most one app executes at any moment: the kernel's SIGSTOPs and SIGCONTs
\* really multiplex one processor (timeSlice, handleProcessRequests,
\* handlePauseAndResume, and the forks of main).
OneAppRuns ==
  \A i, j \in Procs : run[i] = "running" /\ run[j] = "running" => i = j

\* enqueueReply never writes past fileQueue[NUM_PROC] or dirQueue[NUM_PROC].
QueuesFit == Len(fileQueue) <= N /\ Len(dirQueue) <= N

\* Number of messages about app i anywhere between kernel and server.
OwnedBy(s, i) == Cardinality({k \in 1..Len(s) : OwnerIdx(s[k]) = i})
Owed(i) == OwnedBy(reqs, i) + OwnedBy(reps, i) + OwnedBy(fileQueue, i) + OwnedBy(dirQueue, i)

\* A process is BLOCKED exactly while one message about it is on its way to
\* or from the server or waits in a reply queue: nobody is blocked for ever
\* on an answer that is not coming, nobody is released early.
BlockedIsOwed ==
  \A i \in Procs : Owed(i) = IF state[i] = "BLOCKED" THEN 1 ELSE 0

\* The kernel writes the reply fields of a segment only while the app that
\* shares it does not execute (recvUdpReply before the interrupt,
\* deliverFileReply and deliverDirReply at the interrupt): the app never
\* reads a half-written reply.
RepliesLandOnStoppedApps ==
  [][KernelAction =>
       \A i \in Procs : has_reply'[i] # has_reply[i] \/ body'[i] # body[i]
                          => run[i] # "running"]_vars

\* An app that finds has_reply set finds the whole of a reply to a call of an
\* earlier iteration: recvUdpReply raises the flag long before the reply is
\* complete, but the app does not get to look at it in between.
AppsReadWholeReplies ==
  [][\A i \in Procs :
       apc[i] = "reply" /\ apc'[i] = "clear"
         => body[i].kind = "rep" /\ body[i].tag \in 1..(PC[i] - 1)]_vars

\* Number of dispatches after which the circular queue reaches i when c was
\* dispatched last.
Distance(c, i) == CHOOSE k \in 1..N : (c + k) % N = i

\* No overtaking: whenever timeSlice dispatches somebody else, every process
\* that was READY and still waits comes closer to its turn, so it waits for
\* at most NUM_PROC - 1 other dispatches.
RoundRobin ==
  [][\A i \in Procs :
       (state[i] = "READY" /\ state'[i] = "READY" /\ current' # current)
         => Distance(current', i) < Distance(current, i)]_vars

\* A process the kernel has marked TERMINATED stays so: no reply is delivered
\* to it any more, which would make it READY and keep the main loop of the
\* kernel from ever ending (allProcessesTerminated).
TerminatedIsFinal ==
  [][\A i \in Procs : state[i] = "TERMINATED" => state'[i] = "TERMINATED"]_vars
----------------------------------------------------------------------------
(* The system implements SyscallService. *)

\* The messages about app i in a queue.
About(s, i) == {m \in Range(s) : OwnerIdx(m) = i}

\* How far the call of app i is, read off from where its message is: posted
\* until the server has taken the request, executed until the kernel has
\* delivered the reply, answered until the app has consumed it; and the
\* operation and tag it is about: those of the message, or those in the
\* segment while there is no message.
CallOf(i) ==
  LET requests == About(reqs, i)
      answers  == About(reps \o fileQueue \o dirQueue, i)
      Call(phase, o, b)  == [phase |-> phase, op |-> o, tag |-> b.tag]
      CallIn(phase, msgs) ==
        LET m == CHOOSE m \in msgs : TRUE IN Call(phase, m.op, m.body)
  IN IF run[i] \in {"zombie", "reaped"} THEN Call("gone", "", NoBody)
     ELSE IF ~Polled(i) THEN Call("posted", op[i], body[i])
     ELSE IF requests # {} THEN CallIn("posted", requests)
     ELSE IF answers # {} THEN CallIn("executed", answers)
     ELSE IF has_reply[i] THEN Call("answered", op[i], body[i])
     ELSE Call("idle", "", NoBody)

Service == INSTANCE SyscallService WITH
             Clients <- Procs, Last <- MAX, call <- [i \in Procs |-> CallOf(i)]

\* Every call is executed once, answered with its own outcome, and consumed
\* before the app posts another; no app leaves with a call in progress.
ImplementsService == Service!Spec

\* Moreover every posted call is executed, and every executed one answered.
ServesEveryCall == Service!Fairness
----------------------------------------------------------------------------
(* Liveness. *)

\* Every READY process is dispatched, or terminates: timeSlice starves nobody.
NoStarvation ==
  \A i \in Procs : (state[i] = "READY") ~> (state[i] \in {"RUNNING", "TERMINATED"})

\* The kernel ends: all apps terminate and are reaped, then the
\* intercontroller, and main returns.
Finishes == <>(kpc = "done")

\* The processes whose request, or the reply to it, has been lost.
Stranded == {i \in Procs : state[i] = "BLOCKED" /\ Owed(i) = 0}

\* There is no timeout and no retry: each lost datagram costs the process it
\* belongs to its life, but no more than that process: all others terminate.
LossIsContained ==
  <>[](/\ Cardinality(Stranded) = lost
       /\ \A i \in Procs \ Stranded : state[i] = "TERMINATED")
----------------------------------------------------------------------------
(* What comments of the source say, and the code does not do. *)

\* "Aguarda o proximo sinal" (kernel_functions.c:284): once the kernel has
\* paused its children, the next Ctrl-C resumes them, so it never sleeps when
\* that signal has already cleared the flag.
NextSignalResumes == kpc = "sleeping" => pause_flag

\* "Envia sinal para finalizar o InterController" (kernel.c:194): the signal
\* the kernel sends at the end finishes the intercontroller, stopped or not.
SignalFinishesIC == (kpc = "wait") ~> (run[IC] \in {"zombie", "reaped"})

\* "desbloquear processo correspondente" (kernel_functions.c:204): delivering
\* a reply unblocks a blocked process, and does nothing to any other.
DeliveryUnblocks ==
  [][\A i \in Procs :
       /\ Len(fileQueue') < Len(fileQueue) \/ Len(dirQueue') < Len(dirQueue)
       /\ state'[i] # state[i]
       => state[i] = "BLOCKED"]_vars
============================================================================
