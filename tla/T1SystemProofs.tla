--------------------------- MODULE T1SystemProofs ---------------------------
(***************************************************************************)
(* Theorems about T1System, for every number of apps, every number of      *)
(* iterations, every set of operations and every capacity of the FIFO, and *)
(* with or without the timing assumption.                                  *)
(***************************************************************************)
EXTENDS T1System, SequenceTheorems, TLAPS

\* An app that is about to increment its PC has not reached MAX.
PCBelowMAX == \A i \in Procs : apc[i] \in {"start", "nap1"} => PC[i] < MAX

TypeInv == TypeOK /\ PCBelowMAX

----------------------------------------------------------------------------
\* The constants of the model, in the form the proofs use.
LEMMA ConstantFacts ==
  /\ N \in Nat /\ N >= 1
  /\ MAX \in Nat /\ MAX >= 1
  /\ 0 \in Procs
  /\ IC \notin Procs
BY NAssumption, MAXAssumption DEF Procs, IC

LEMMA BodyFacts ==
  /\ NoBody \in Bodies
  /\ \A t \in 0..MAX : Args(t) \in Bodies /\ Answer(t) \in Bodies
  /\ \A b \in Bodies : b.tag \in 0..MAX /\ PartOf(b) \in Bodies
BY ConstantFacts DEF Bodies, NoBody, Args, Answer, PartOf

LEMMA NextInRange ==
  ASSUME NEW n \in Nat, NEW k \in 0..n, k < n
  PROVE  k + 1 \in 0..n
OBVIOUS

LEMMA InitTypeInv == Init => TypeInv
<1> SUFFICES ASSUME Init PROVE TypeInv
  OBVIOUS
<1> USE ConstantFacts DEF Init
<1>1. MachineTypeOK
  <2>1. <<>> \in Seq({"0", "1", "2"}) /\ <<>> \in Seq(Datagram)
    BY EmptySeq
  <2> QED
    BY <2>1, BodyFacts DEF MachineInit, MachineTypeOK, Status
<1>2. AppTypeOK /\ PCBelowMAX
  BY DEF AppInit, AppTypeOK, AppLabels, PCBelowMAX
<1>3. InterControllerTypeOK
  BY DEF InterControllerInit, InterControllerTypeOK
<1>4. KernelTypeOK
  BY EmptySeq DEF KernelInit, KernelTypeOK, KernelLabels, BootLabels, States
<1>5. sigints \in 0..MaxSigint /\ lost \in 0..MaxLost /\ overslept \subseteq Children
  BY MaxSigintAssumption, MaxLostAssumption
<1> QED
  BY <1>1, <1>2, <1>3, <1>4, <1>5 DEF TypeInv, TypeOK
----------------------------------------------------------------------------
\* What an app does to its own variables and to the segment it shares.
LEMMA AppTypeInv ==
  ASSUME TypeInv, NEW i \in Procs, AppAction(i)
  PROVE  TypeInv'
<1> USE ConstantFacts DEF TypeInv, TypeOK
<1>1. /\ UNCHANGED <<fifo, reqs, reps, sigusr1, icpc, kernelVars, sigints, lost>>
      /\ overslept' \subseteq Children
  BY DEF AppAction, AppStep, AppFrame
<1>2. /\ has_request' \in [Procs -> BOOLEAN]
      /\ has_reply' \in [Procs -> BOOLEAN]
      /\ op' \in [Procs -> Ops \cup {""}]
      /\ body' \in [Procs -> Bodies]
      /\ run' \in [Children -> Status]
      /\ AppTypeOK'
      /\ PCBelowMAX'
  <2> USE DEF MachineTypeOK, AppTypeOK, PCBelowMAX, AppLabels, Goto, segVars
  <2>1. CASE open_shared_memory(i)
    BY <2>1 DEF open_shared_memory
  <2>9. CASE handle_reply(i)
    BY <2>9 DEF handle_reply
  <2>10. CASE NoSyscall(i)
    BY <2>10 DEF NoSyscall
  <2>2. CASE Tick(i)
    <3>1. PC[i] + 1 \in 0..MAX
      <4>1. PC[i] \in 0..MAX /\ PC[i] < MAX
        BY <2>2 DEF Tick
      <4> QED
        BY <4>1, NextInRange
    <3> QED
      BY <2>2, <3>1 DEF Tick
  <2>3. CASE clear_has_reply(i) \/ AckReply(i)
    BY <2>3 DEF clear_has_reply, AckReply
  <2>4. CASE clear_fields(i)
    BY <2>4, BodyFacts DEF clear_fields
  <2>5. CASE prepare_syscall(i)
    BY <2>5, BodyFacts DEF prepare_syscall
  <2>6. CASE PostRequest(i)
    BY <2>6 DEF PostRequest
  <2>7. CASE NextIteration(i)
    BY <2>7 DEF NextIteration
  <2>8. CASE Exit(i)
    BY <2>8 DEF Exit, Status, Children
  <2> QED
    BY <2>1, <2>2, <2>3, <2>4, <2>5, <2>6, <2>7, <2>8, <2>9, <2>10 DEF AppAction, AppStep
<1> QED
  BY <1>1, <1>2 DEF MachineTypeOK, KernelTypeOK, kernelVars, InterControllerTypeOK

LEMMA ICTypeInv ==
  ASSUME TypeInv, ICAction
  PROVE  TypeInv'
<1> USE ConstantFacts DEF TypeInv, TypeOK
<1>1. /\ UNCHANGED <<segVars, reqs, reps, sigusr1, appVars, kernelVars, sigints, lost>>
      /\ overslept' \subseteq Children
  BY DEF ICAction, InterControllerStep, ICFrame
<1>2. /\ run' \in [Children -> Status]
      /\ fifo' \in Seq({"0", "1", "2"})
      /\ InterControllerTypeOK'
  <2> USE DEF MachineTypeOK, InterControllerTypeOK
  <2>1. CASE LoopTest
    BY <2>1 DEF LoopTest, Status, Children, IC
  <2>2. CASE TimerIrq \/ FileIrq \/ DirIrq
    <3>1. \A b \in {"0", "1", "2"} : Append(fifo, b) \in Seq({"0", "1", "2"})
      BY AppendProperties
    <3> QED
      BY <2>2, <3>1 DEF TimerIrq, FileIrq, DirIrq, WriteIrq
  <2>3. CASE NoFileIrq \/ NoDirIrq
    BY <2>3 DEF NoFileIrq, NoDirIrq
  <2> QED
    BY <2>1, <2>2, <2>3 DEF ICAction, InterControllerStep
<1> QED
  BY <1>1, <1>2 DEF MachineTypeOK, AppTypeOK, KernelTypeOK, PCBelowMAX,
                    segVars, appVars, kernelVars

LEMMA CountersTypeInv ==
  ASSUME sigints \in 0..MaxSigint, lost \in 0..MaxLost
  PROVE  /\ Sigint => sigints' \in 0..MaxSigint
         /\ LoseRequest \/ LoseReply => lost' \in 0..MaxLost
BY MaxSigintAssumption, MaxLostAssumption DEF Sigint, LoseRequest, LoseReply

LEMMA EnvironmentTypeInv ==
  ASSUME TypeInv, ServerAction \/ Sigint \/ LoseRequest \/ LoseReply \/ UNCHANGED vars
  PROVE  TypeInv'
<1> USE ConstantFacts DEF TypeInv, TypeOK, MachineTypeOK, AppTypeOK, InterControllerTypeOK, KernelTypeOK,
        PCBelowMAX, segVars, appVars, NetworkFrame
<1>1. CASE ServerAction
  <2>1. Head(reqs) \in Datagram /\ Tail(reqs) \in Seq(Datagram)
    BY <1>1, HeadTailProperties DEF ServerAction
  <2>2. [Head(reqs) EXCEPT !.body = Answer(Head(reqs).body.tag)] \in Datagram
    BY <2>1, BodyFacts DEF Datagram
  <2>3. reps' \in Seq(Datagram)
    BY <1>1, <2>2, AppendProperties DEF ServerAction
  <2> QED
    BY <1>1, <2>1, <2>3 DEF ServerAction, kernelVars
<1>2. CASE Sigint
  <2>1. kpc' \in KernelLabels /\ kidx' \in Procs /\ pause_flag' \in BOOLEAN
    BY <1>2 DEF Sigint, sigintHandler, Enter, KernelLabels
  <2>2. sigints' \in 0..MaxSigint
    BY <1>2, CountersTypeInv
  <2>3. Sleepers \subseteq Children
    BY DEF Sleepers, Children
  <2>4. overslept' \subseteq Children
    BY <1>2, <2>3 DEF Sigint
  <2> QED
    BY <1>2, <2>1, <2>2, <2>4 DEF Sigint, sigintHandler, machineVars, QueueVars
<1>3. CASE LoseRequest
  <2>1. Tail(reqs) \in Seq(Datagram)
    BY <1>3, HeadTailProperties DEF LoseRequest
  <2>2. lost' \in 0..MaxLost
    BY <1>3, CountersTypeInv
  <2> QED
    BY <1>3, <2>1, <2>2 DEF LoseRequest, kernelVars
<1>4. CASE LoseReply
  <2>1. Tail(reps) \in Seq(Datagram)
    BY <1>4, HeadTailProperties DEF LoseReply
  <2>2. lost' \in 0..MaxLost
    BY <1>4, CountersTypeInv
  <2> QED
    BY <1>4, <2>1, <2>2 DEF LoseReply, kernelVars
<1>5. CASE UNCHANGED vars
  BY <1>5 DEF vars, machineVars, kernelVars, envVars
<1> QED
  BY <1>1, <1>2, <1>3, <1>4, <1>5
----------------------------------------------------------------------------
LEMMA NextIndexFacts ==
  ASSUME kidx \in Procs, NEW here, NEW after, NextIndex(here, after)
  PROVE  kidx' \in Procs /\ kpc' \in {here, after}
BY ConstantFacts DEF NextIndex, Enter, Procs

LEMMA SignalFacts ==
  \A s \in Status : Stopped(s) \in Status /\ Resumed(s) \in Status
BY DEF Status, Stopped, Resumed

\* Indices 0..N-1 of the process table against owners 1..N of the messages.
LEMMA IndexOwner ==
  /\ \A o \in 1..N : o - 1 \in Procs
  /\ \A i \in Procs : i + 1 \in 1..N /\ (i + 1) - 1 = i
BY ConstantFacts DEF Procs

LEMMA OwnerFacts ==
  \A m \in Datagram : OwnerIdx(m) \in Procs /\ m.body \in Bodies
<1>1. \A m \in Datagram : m.owner \in 1..N /\ m.body \in Bodies
  BY DEF Datagram
<1> QED
  BY <1>1, IndexOwner DEF OwnerIdx

LEMMA RequestFacts ==
  ASSUME op \in [Procs -> Ops \cup {""}], body \in [Procs -> Bodies], NEW i \in Procs
  PROVE  buildReqFromShm(i) \in Datagram
<1>1. i + 1 \in 1..N /\ op[i] \in Ops \cup {""} /\ body[i] \in Bodies
  BY IndexOwner
<1> QED
  BY <1>1 DEF buildReqFromShm, Datagram

\* After a time slice the process table and the statuses are well formed, and
\* `current' is an index of the table or still -1.
LEMMA timeSliceTypes ==
  ASSUME state \in [Procs -> States], run \in [Children -> Status],
         current \in -1..(N - 1), timeSlice
  PROVE  /\ state' \in [Procs -> States]
         /\ run' \in [Children -> Status]
         /\ current' \in -1..(N - 1)
<1>1. PreemptedState \in [Procs -> States]
  BY DEF PreemptedState, States
<1>2. PreemptedRun \in [Children -> Status]
  BY SignalFacts DEF PreemptedRun, Preempts, Children
<1>3. \A n \in Procs : n \in -1..(N - 1)
  BY ConstantFacts DEF Procs
<1>4. CASE \E next \in Procs :
             /\ state' = [PreemptedState EXCEPT ![next] = "RUNNING"]
             /\ run' = [PreemptedRun EXCEPT ![next] = Resumed(@)]
             /\ current' = next
  <2>1. PICK next \in Procs :
             /\ state' = [PreemptedState EXCEPT ![next] = "RUNNING"]
             /\ run' = [PreemptedRun EXCEPT ![next] = Resumed(@)]
             /\ current' = next
    BY <1>4
  <2>2. state' \in [Procs -> States]
    BY <1>1, <2>1 DEF States
  <2>3. run' \in [Children -> Status]
    BY <1>2, <2>1, SignalFacts DEF Children
  <2> QED
    BY <1>3, <2>1, <2>2, <2>3
<1> QED
  BY <1>1, <1>2, <1>4 DEF timeSlice

LEMMA DeliverTypes ==
  ASSUME MachineTypeOK, KernelTypeOK, NEW m \in Datagram, Deliver(m)
  PROVE  /\ has_reply' \in [Procs -> BOOLEAN]
         /\ body' \in [Procs -> Bodies]
         /\ state' \in [Procs -> States]
BY OwnerFacts DEF MachineTypeOK, KernelTypeOK, Deliver, States

LEMMA PollIrqTypes ==
  ASSUME MachineTypeOK, KernelTypeOK, PollIrq
  PROVE  MachineTypeOK' /\ KernelTypeOK'
<1> USE DEF PollIrq
<1>1. kpc' = "recv" /\ kidx' = 0 /\ UNCHANGED <<reqs, reps, sigusr1, pause_flag>>
  BY DEF Enter
<1>2. CASE NoIrq
  BY <1>1, <1>2, ConstantFacts
     DEF NoIrq, MachineTypeOK, KernelTypeOK, KernelLabels, segVars, QueueVars
<1>3. CASE handleIrqFifo
  <2>1. fifo' \in Seq({"0", "1", "2"})
    BY <1>3, HeadTailProperties DEF handleIrqFifo, MachineTypeOK
  <2>2. CASE timeSlice /\ UNCHANGED <<segVars, QueueVars>>
    BY <1>1, <2>1, <2>2, timeSliceTypes, ConstantFacts
       DEF MachineTypeOK, KernelTypeOK, KernelLabels, segVars, QueueVars
  <2>3. CASE deliverFileReply /\ UNCHANGED <<has_request, op, run, current, dirQueue>>
    <3>1. CASE fileQueue = <<>>
      BY <1>1, <2>1, <2>3, <3>1, ConstantFacts
         DEF deliverFileReply, MachineTypeOK, KernelTypeOK, KernelLabels
    <3>2. CASE fileQueue # <<>>
      <4>1. Head(fileQueue) \in Datagram /\ Tail(fileQueue) \in Seq(Datagram)
        BY <3>2, HeadTailProperties DEF KernelTypeOK
      <4>2. Deliver(Head(fileQueue)) /\ fileQueue' = Tail(fileQueue)
        BY <2>3, <3>2 DEF deliverFileReply
      <4> QED
        BY <1>1, <2>1, <2>3, <4>1, <4>2, DeliverTypes, ConstantFacts
           DEF MachineTypeOK, KernelTypeOK, KernelLabels
    <3> QED
      BY <3>1, <3>2
  <2>4. CASE deliverDirReply /\ UNCHANGED <<has_request, op, run, current, fileQueue>>
    <3>1. CASE dirQueue = <<>>
      BY <1>1, <2>1, <2>4, <3>1, ConstantFacts
         DEF deliverDirReply, MachineTypeOK, KernelTypeOK, KernelLabels
    <3>2. CASE dirQueue # <<>>
      <4>1. Head(dirQueue) \in Datagram /\ Tail(dirQueue) \in Seq(Datagram)
        BY <3>2, HeadTailProperties DEF KernelTypeOK
      <4>2. Deliver(Head(dirQueue)) /\ dirQueue' = Tail(dirQueue)
        BY <2>4, <3>2 DEF deliverDirReply
      <4> QED
        BY <1>1, <2>1, <2>4, <4>1, <4>2, DeliverTypes, ConstantFacts
           DEF MachineTypeOK, KernelTypeOK, KernelLabels
    <3> QED
      BY <3>1, <3>2
  <2> QED
    BY <1>3, <2>2, <2>3, <2>4 DEF handleIrqFifo
<1> QED
  BY <1>2, <1>3

LEMMA PollRepliesTypes ==
  ASSUME MachineTypeOK, KernelTypeOK, PollReplies
  PROVE  MachineTypeOK' /\ KernelTypeOK'
<1> USE DEF PollReplies
<1>1. kpc' = "scan" /\ kidx' = 0
  BY DEF Enter
<1>2. CASE NoReply
  BY <1>1, <1>2, ConstantFacts
     DEF NoReply, MachineTypeOK, KernelTypeOK, KernelLabels, QueueVars
<1>3. CASE recvUdpReply
  <2>1. Head(reps) \in Datagram /\ Tail(reps) \in Seq(Datagram)
    BY <1>3, HeadTailProperties DEF recvUdpReply, MachineTypeOK
  <2>2. \A q \in Seq(Datagram) : Append(q, Head(reps)) \in Seq(Datagram)
    BY <2>1, AppendProperties
  <2>3. fileQueue' \in Seq(Datagram) /\ dirQueue' \in Seq(Datagram)
    BY <1>3, <2>2 DEF recvUdpReply, KernelTypeOK
  <2>4. OwnerIdx(Head(reps)) \in Procs /\ PartOf(Head(reps).body) \in Bodies
    BY <2>1, OwnerFacts, BodyFacts
  <2>5. /\ has_reply' \in [Procs -> BOOLEAN]
        /\ body' \in [Procs -> Bodies]
        /\ reps' \in Seq(Datagram)
    BY <1>3, <2>1, <2>4 DEF recvUdpReply, MachineTypeOK
  <2> QED
    BY <1>1, <2>3, <2>5, ConstantFacts DEF MachineTypeOK, KernelTypeOK, KernelLabels
<1> QED
  BY <1>2, <1>3

LEMMA KernelTypeInv ==
  ASSUME TypeInv, KernelAction
  PROVE  TypeInv'
<1>1. UNCHANGED <<appVars, icpc, envVars>> /\ KernelStep
  BY DEF KernelAction
<1>2. MachineTypeOK /\ KernelTypeOK
  BY DEF TypeInv, TypeOK
<1>3. MachineTypeOK' /\ KernelTypeOK'
  <2> USE <1>2, ConstantFacts, SignalFacts
      DEF MachineTypeOK, KernelTypeOK, KernelLabels, BootLabels, Enter, segVars, QueueVars
  <2>1. CASE StopInterController
    BY <2>1 DEF StopInterController, Children
  <2>2. CASE ForkApp
    BY <2>2 DEF ForkApp, Children, Status
  <2>3. CASE HaltApp
    <3>1. kidx' \in Procs /\ kpc' \in {"fork", "launch"}
      BY <2>3, NextIndexFacts DEF HaltApp
    <3> QED
      BY <2>3, <3>1 DEF HaltApp, Children
  <2>4. CASE LaunchInterController
    BY <2>4 DEF LaunchInterController, Children
  <2>5. CASE PollIrq
    BY <2>5, PollIrqTypes
  <2>6. CASE PollReplies
    BY <2>6, PollRepliesTypes
  <2>7. CASE NothingToTake
    <3>1. kidx' \in Procs /\ kpc' \in {"scan", "pause"}
      BY <2>7, NextIndexFacts DEF NothingToTake
    <3> QED
      BY <2>7, <3>1 DEF NothingToTake, machineVars
  <2>8. CASE TakeRequest
    BY <2>8 DEF TakeRequest
  <2>9. CASE SendRequest
    <3>1. kidx' \in Procs /\ kpc' \in {"scan", "pause"}
      BY <2>9, NextIndexFacts DEF SendRequest
    <3>2. Append(reqs, buildReqFromShm(kidx)) \in Seq(Datagram)
      BY RequestFacts, AppendProperties
    <3> QED
      BY <2>9, <3>1, <3>2 DEF SendRequest, Children, States
  <2>10. CASE Pause
    BY <2>10 DEF Pause
  <2>11. CASE Sleep
    BY <2>11 DEF Sleep, machineVars
  <2>12. CASE Resume
    BY <2>12 DEF Resume
  <2>13. CASE Reap
    <3>1. kidx' \in Procs /\ kpc' \in {"check", "loop"}
      BY <2>13, NextIndexFacts DEF Reap
    <3> QED
      BY <2>13, <3>1 DEF Reap, Children, Status, States
  <2>14. CASE NotTerminated
    <3>1. kidx' \in Procs /\ kpc' \in {"check", "loop"}
      BY <2>14, NextIndexFacts DEF NotTerminated
    <3> QED
      BY <2>14, <3>1 DEF NotTerminated, machineVars
  <2>15. CASE LoopOrBreak
    BY <2>15 DEF LoopOrBreak, machineVars
  <2>16. CASE FinishInterController
    BY <2>16 DEF FinishInterController
  <2>17. CASE WaitInterController
    BY <2>17 DEF WaitInterController, Children, Status
  <2> QED
    BY <1>1, <2>1, <2>2, <2>3, <2>4, <2>5, <2>6, <2>7, <2>8, <2>9, <2>10, <2>11,
       <2>12, <2>13, <2>14, <2>15, <2>16, <2>17 DEF KernelStep
<1> QED
  BY <1>1, <1>3 DEF TypeInv, TypeOK, AppTypeOK, InterControllerTypeOK, PCBelowMAX,
                    appVars, envVars

LEMMA TypeInvStep ==
  ASSUME TypeInv, [Next]_vars
  PROVE  TypeInv'
<1>1. CASE \E i \in Procs : AppAction(i)
  BY <1>1, AppTypeInv
<1>2. CASE ICAction
  BY <1>2, ICTypeInv
<1>3. CASE KernelAction
  BY <1>3, KernelTypeInv
<1>4. CASE Terminated
  BY <1>4, EnvironmentTypeInv DEF Terminated
<1> QED
  BY <1>1, <1>2, <1>3, <1>4, EnvironmentTypeInv DEF Next

\* Every variable of the system keeps its type: in particular no index leaves
\* the process table, and no app counts past MAX.
THEOREM TypeCorrect == Spec => []TypeOK
<1>1. TypeInv => TypeOK
  BY DEF TypeInv
<1> QED
  BY InitTypeInv, TypeInvStep, <1>1, PTL DEF Spec
=============================================================================
