------------------------- MODULE T1ExclusionProofs -------------------------
(***************************************************************************)
(* The kernel really gives the processor to one app at a time, and writes  *)
(* replies only into segments whose app does not execute: for every number *)
(* of apps, with Ctrl-C and lost datagrams, and without any assumption     *)
(* about timing.                                                           *)
(***************************************************************************)
EXTENDS T1SystemProofs, FiniteSetTheorems

----------------------------------------------------------------------------
(* Counting the messages about an app. *)

Positions(s, i) == {k \in 1..Len(s) : OwnerIdx(s[k]) = i}

Bit(b) == IF b THEN 1 ELSE 0

LEMMA PositionsFinite ==
  ASSUME NEW s \in Seq(Datagram), NEW i
  PROVE  /\ IsFiniteSet(Positions(s, i))
         /\ OwnedBy(s, i) = Cardinality(Positions(s, i))
         /\ OwnedBy(s, i) \in Nat
<1>1. Len(s) \in Nat
  BY LenProperties
<1>2. IsFiniteSet(1..Len(s))
  BY <1>1, FS_Interval
<1>3. IsFiniteSet(Positions(s, i))
  BY <1>2, FS_Subset DEF Positions
<1>4. OwnedBy(s, i) = Cardinality(Positions(s, i))
  BY DEF OwnedBy, Positions
<1> QED
  BY <1>3, <1>4, FS_CardinalityType

LEMMA OwnedByEmpty ==
  ASSUME NEW i
  PROVE  OwnedBy(<<>>, i) = 0
<1>1. {k \in 1..Len(<<>>) : OwnerIdx(<<>>[k]) = i} = {}
  OBVIOUS
<1> QED
  BY <1>1, FS_EmptySet DEF OwnedBy

LEMMA OwnedByAppend ==
  ASSUME NEW s \in Seq(Datagram), NEW m \in Datagram, NEW i
  PROVE  OwnedBy(Append(s, m), i) = OwnedBy(s, i) + Bit(OwnerIdx(m) = i)
<1> DEFINE t == Append(s, m)
<1>1. /\ t \in Seq(Datagram)
      /\ Len(s) \in Nat
      /\ Len(t) = Len(s) + 1
      /\ \A k \in 1..Len(s) : t[k] = s[k]
      /\ t[Len(s) + 1] = m
  BY AppendProperties, LenProperties
<1> HIDE DEF t
<1>2. /\ OwnedBy(t, i) = Cardinality(Positions(t, i))
      /\ OwnedBy(s, i) = Cardinality(Positions(s, i))
      /\ IsFiniteSet(Positions(s, i))
      /\ OwnedBy(s, i) \in Nat
  BY <1>1, PositionsFinite
<1>3. CASE OwnerIdx(m) = i
  <2>1. Positions(t, i) = Positions(s, i) \cup {Len(s) + 1}
    BY <1>1, <1>3 DEF Positions
  <2>2. Len(s) + 1 \notin Positions(s, i)
    BY <1>1 DEF Positions
  <2>3. Cardinality(Positions(t, i)) = Cardinality(Positions(s, i)) + 1
    BY <1>2, <2>1, <2>2, FS_AddElement
  <2> QED
    BY <1>2, <1>3, <2>3 DEF Bit, t
<1>4. CASE OwnerIdx(m) # i
  <2>1. Positions(t, i) = Positions(s, i)
    BY <1>1, <1>4 DEF Positions
  <2> QED
    BY <1>2, <1>4, <2>1 DEF Bit, t
<1> QED
  BY <1>3, <1>4

LEMMA OwnedByTail ==
  ASSUME NEW s \in Seq(Datagram), s # <<>>, NEW i
  PROVE  OwnedBy(Tail(s), i) = OwnedBy(s, i) - Bit(OwnerIdx(Head(s)) = i)
<1> DEFINE t == Tail(s)
           rest == Positions(s, i) \ {1}
           shift == [k \in Positions(t, i) |-> k + 1]
<1>1. /\ t \in Seq(Datagram)
      /\ Len(s) \in Nat /\ Len(s) >= 1
      /\ Len(t) = Len(s) - 1
      /\ \A k \in 1..Len(t) : t[k] = s[k + 1]
      /\ Head(s) = s[1]
  BY HeadTailProperties, LenProperties, EmptySeq
<1>2. shift \in Bijection(Positions(t, i), rest)
  <2>1. \A k \in Positions(t, i) : k + 1 \in rest
    BY <1>1 DEF Positions
  <2>2. \A k \in rest : k - 1 \in Positions(t, i) /\ (k - 1) + 1 = k
    BY <1>1 DEF Positions
  <2>3. \A j, k \in Positions(t, i) : j + 1 = k + 1 => j = k
    BY <1>1 DEF Positions
  <2> QED
    BY <2>1, <2>2, <2>3 DEF Bijection, Injection, Surjection, IsInjective
<1> HIDE DEF t
<1>3. /\ OwnedBy(t, i) = Cardinality(Positions(t, i))
      /\ OwnedBy(s, i) = Cardinality(Positions(s, i))
      /\ IsFiniteSet(Positions(t, i)) /\ IsFiniteSet(Positions(s, i))
      /\ OwnedBy(s, i) \in Nat
  BY <1>1, PositionsFinite
<1>4. Cardinality(rest) = Cardinality(Positions(t, i))
  <2> HIDE DEF rest, shift
  <2> QED
    BY <1>2, <1>3, FS_Bijection DEF ExistsBijection
<1>5. 1 \in Positions(s, i) <=> OwnerIdx(Head(s)) = i
  BY <1>1 DEF Positions
<1>6. Cardinality(rest) = IF 1 \in Positions(s, i) THEN Cardinality(Positions(s, i)) - 1
                                                ELSE Cardinality(Positions(s, i))
  BY <1>3, FS_RemoveElement
<1>7. OwnedBy(t, i) = IF 1 \in Positions(s, i) THEN OwnedBy(s, i) - 1 ELSE OwnedBy(s, i)
  <2> HIDE DEF rest, shift
  <2> QED
    BY <1>3, <1>4, <1>6
<1> QED
  BY <1>3, <1>5, <1>7 DEF Bit, t
----------------------------------------------------------------------------
(* The inductive invariant. *)

\* An app executes only while it is dispatched, or between its fork and the
\* SIGSTOP that follows.
RunsWhenDispatched ==
  \A i \in Procs : run[i] = "running" => state[i] = "RUNNING" \/ (kpc = "halt" /\ kidx = i)

\* Only the process dispatched last can be RUNNING.
DispatchedIsCurrent == \A i \in Procs : state[i] = "RUNNING" => i = current

\* During the boot nothing has been dispatched or sent.
BootIsQuiet ==
  kpc \in BootLabels =>
    /\ \A i \in Procs : state[i] = "READY"
    /\ reqs = <<>> /\ reps = <<>> /\ fileQueue = <<>> /\ dirQueue = <<>>

\* At most one message is about a process that is alive, and that process is
\* BLOCKED meanwhile.
OwedIsBlocked ==
  \A i \in Procs : Live(i) => Owed(i) <= 1 /\ (Owed(i) = 1 => state[i] = "BLOCKED")

\* The kernel does not send for a process that is BLOCKED already.
SendsUnblocked == kpc = "send" => state[kidx] # "BLOCKED"

ExclusionInv ==
  /\ TypeInv
  /\ RunsWhenDispatched
  /\ DispatchedIsCurrent
  /\ BootIsQuiet
  /\ OwedIsBlocked
  /\ SendsUnblocked

LEMMA TypeInvUnfolded ==
  ASSUME TypeInv
  PROVE  /\ reqs \in Seq(Datagram) /\ reps \in Seq(Datagram)
         /\ fileQueue \in Seq(Datagram) /\ dirQueue \in Seq(Datagram)
         /\ run \in [Children -> Status]
         /\ state \in [Procs -> States]
         /\ kidx \in Procs
BY DEF TypeInv, TypeOK, MachineTypeOK, KernelTypeOK

LEMMA OwedFacts ==
  ASSUME TypeInv, NEW i
  PROVE  /\ OwnedBy(reqs, i) \in Nat /\ OwnedBy(reps, i) \in Nat
         /\ OwnedBy(fileQueue, i) \in Nat /\ OwnedBy(dirQueue, i) \in Nat
         /\ Owed(i) \in Nat
BY TypeInvUnfolded, PositionsFinite DEF Owed

LEMMA OwedFactsPrimed ==
  ASSUME TypeInv', NEW i
  PROVE  Owed(i)' \in Nat
<1>1. /\ reqs' \in Seq(Datagram) /\ reps' \in Seq(Datagram)
      /\ fileQueue' \in Seq(Datagram) /\ dirQueue' \in Seq(Datagram)
  BY DEF TypeInv, TypeOK, MachineTypeOK, KernelTypeOK
<1>2. /\ OwnedBy(reqs', i) \in Nat /\ OwnedBy(reps', i) \in Nat
      /\ OwnedBy(fileQueue', i) \in Nat /\ OwnedBy(dirQueue', i) \in Nat
  BY <1>1, PositionsFinite
<1> QED
  BY <1>2 DEF Owed

\* What the elements of a queue are after its head has been taken, or a message
\* been put at its end.
LEMMA QueueElements ==
  ASSUME NEW s \in Seq(Datagram)
  PROVE  /\ Range(s) \subseteq Datagram
         /\ s # <<>> => /\ Head(s) \in Range(s) /\ Tail(s) \in Seq(Datagram)
                        /\ Range(Tail(s)) \subseteq Range(s)
         /\ \A m \in Datagram : Range(Append(s, m)) = Range(s) \cup {m}
<1>1. Range(s) = {s[k] : k \in 1..Len(s)} /\ Len(s) \in Nat
  BY LenProperties DEF Range
<1>2. Range(s) \subseteq Datagram
  BY <1>1
<1>3. ASSUME s # <<>>
      PROVE  /\ Head(s) \in Range(s) /\ Tail(s) \in Seq(Datagram)
             /\ Range(Tail(s)) \subseteq Range(s)
  <2> DEFINE t == Tail(s)
  <2>1. /\ t \in Seq(Datagram) /\ Len(s) >= 1 /\ Len(t) = Len(s) - 1
        /\ \A k \in 1..Len(t) : t[k] = s[k + 1]
        /\ Head(s) = s[1] /\ DOMAIN t = 1..Len(t)
    BY <1>1, <1>3, HeadTailProperties, LenProperties, EmptySeq
  <2> HIDE DEF t
  <2>2. Range(t) = {t[k] : k \in 1..Len(t)}
    BY <2>1 DEF Range
  <2> QED
    BY <1>1, <2>1, <2>2 DEF t
<1>4. ASSUME NEW m \in Datagram PROVE Range(Append(s, m)) = Range(s) \cup {m}
  <2> DEFINE t == Append(s, m)
  <2>1. /\ Len(t) = Len(s) + 1 /\ DOMAIN t = 1..Len(t)
        /\ \A k \in 1..Len(s) : t[k] = s[k]
        /\ t[Len(s) + 1] = m
    BY AppendProperties, LenProperties
  <2> HIDE DEF t
  <2>2. Range(t) = {t[k] : k \in 1..Len(t)}
    BY <2>1 DEF Range
  <2>3. 1..Len(t) = 1..Len(s) \cup {Len(s) + 1}
    BY <1>1, <2>1
  <2> QED
    BY <1>1, <2>1, <2>2, <2>3 DEF t
<1> QED
  BY <1>2, <1>3, <1>4

LEMMA OwedAfterServer ==
  ASSUME TypeInv, ServerAction, NEW i
  PROVE  Owed(i)' = Owed(i)
<1> DEFINE m == [Head(reqs) EXCEPT !.body = Answer(Head(reqs).body.tag)]
<1>1. /\ reqs # <<>> /\ reqs' = Tail(reqs) /\ reps' = Append(reps, m)
      /\ UNCHANGED <<fileQueue, dirQueue>>
  BY DEF ServerAction, NetworkFrame, kernelVars
<1>2. Head(reqs) \in Datagram
  BY <1>1, HeadTailProperties, TypeInvUnfolded
<1>3. m \in Datagram /\ OwnerIdx(m) = OwnerIdx(Head(reqs))
  BY <1>2, BodyFacts DEF Datagram, OwnerIdx
<1> HIDE DEF m
<1>4. OwnedBy(reqs', i) = OwnedBy(reqs, i) - Bit(OwnerIdx(Head(reqs)) = i)
  BY <1>1, OwnedByTail, TypeInvUnfolded
<1>5. OwnedBy(reps', i) = OwnedBy(reps, i) + Bit(OwnerIdx(m) = i)
  BY <1>1, <1>3, OwnedByAppend, TypeInvUnfolded
<1> QED
  BY <1>1, <1>3, <1>4, <1>5, OwedFacts DEF Owed, Bit

LEMMA OwedAfterLoss ==
  ASSUME TypeInv, LoseRequest \/ LoseReply, NEW i
  PROVE  Owed(i)' <= Owed(i)
<1>1. UNCHANGED <<fileQueue, dirQueue>>
  BY DEF LoseRequest, LoseReply, NetworkFrame, kernelVars
<1>2. CASE LoseRequest
  <2>1. reqs # <<>> /\ reqs' = Tail(reqs) /\ reps' = reps
    BY <1>2 DEF LoseRequest
  <2>2. OwnedBy(reqs', i) = OwnedBy(reqs, i) - Bit(OwnerIdx(Head(reqs)) = i)
    BY <2>1, OwnedByTail, TypeInvUnfolded
  <2> QED
    BY <1>1, <2>1, <2>2, OwedFacts DEF Owed, Bit
<1>3. CASE LoseReply
  <2>1. reps # <<>> /\ reps' = Tail(reps) /\ reqs' = reqs
    BY <1>3 DEF LoseReply
  <2>2. OwnedBy(reps', i) = OwnedBy(reps, i) - Bit(OwnerIdx(Head(reps)) = i)
    BY <2>1, OwnedByTail, TypeInvUnfolded
  <2> QED
    BY <1>1, <2>1, <2>2, OwedFacts DEF Owed, Bit
<1> QED
  BY <1>2, <1>3

LEMMA OwedAfterReceive ==
  ASSUME TypeInv, TypeInv', PollReplies, recvUdpReply, NEW i
  PROVE  Owed(i)' = Owed(i)
<1> DEFINE m == Head(reps)
<1>1. reps # <<>> /\ reps' = Tail(reps) /\ m \in Datagram /\ UNCHANGED reqs
  BY HeadTailProperties, TypeInvUnfolded DEF PollReplies, recvUdpReply
<1>2. OwnedBy(reps', i) = OwnedBy(reps, i) - Bit(OwnerIdx(m) = i)
  BY <1>1, OwnedByTail, TypeInvUnfolded
<1>3. \/ fileQueue' = Append(fileQueue, m) /\ UNCHANGED dirQueue
      \/ dirQueue' = Append(dirQueue, m) /\ UNCHANGED fileQueue
  BY DEF recvUdpReply
<1> HIDE DEF m
<1>4. OwnedBy(Append(fileQueue, m), i) = OwnedBy(fileQueue, i) + Bit(OwnerIdx(m) = i)
  BY <1>1, OwnedByAppend, TypeInvUnfolded
<1>5. OwnedBy(Append(dirQueue, m), i) = OwnedBy(dirQueue, i) + Bit(OwnerIdx(m) = i)
  BY <1>1, OwnedByAppend, TypeInvUnfolded
<1>6. \/ /\ OwnedBy(fileQueue', i) = OwnedBy(fileQueue, i) + Bit(OwnerIdx(m) = i)
         /\ OwnedBy(dirQueue', i) = OwnedBy(dirQueue, i)
      \/ /\ OwnedBy(dirQueue', i) = OwnedBy(dirQueue, i) + Bit(OwnerIdx(m) = i)
         /\ OwnedBy(fileQueue', i) = OwnedBy(fileQueue, i)
  BY <1>3, <1>4, <1>5
<1>7. OwnedBy(reqs', i) = OwnedBy(reqs, i)
  BY <1>1
<1> QED
  BY <1>2, <1>6, <1>7, OwedFacts DEF Owed, Bit

LEMMA OwedAfterSend ==
  ASSUME TypeInv, SendRequest, NEW i
  PROVE  Owed(i)' = Owed(i) + Bit(kidx = i)
<1> DEFINE m == buildReqFromShm(kidx)
<1>1. reqs' = Append(reqs, m) /\ UNCHANGED <<reps, fileQueue, dirQueue>>
  BY DEF SendRequest, QueueVars
<1>2. m \in Datagram /\ OwnerIdx(m) = kidx
  BY TypeInvUnfolded, RequestFacts, IndexOwner
     DEF TypeInv, TypeOK, MachineTypeOK, buildReqFromShm, OwnerIdx
<1> HIDE DEF m
<1>3. OwnedBy(reqs', i) = OwnedBy(reqs, i) + Bit(kidx = i)
  BY <1>1, <1>2, OwnedByAppend, TypeInvUnfolded
<1> QED
  BY <1>1, <1>3, OwedFacts DEF Owed, Bit

\* An interrupt is a time slice, finds nothing to deliver, or delivers the
\* head of a queue to its owner.
Delivers(m) ==
  /\ m \in Range(fileQueue) \cup Range(dirQueue)
  /\ Deliver(m)
  /\ UNCHANGED <<has_request, op, run, current>>
  /\ Range(fileQueue') \subseteq Range(fileQueue)
  /\ Range(dirQueue') \subseteq Range(dirQueue)
  /\ \A i : Owed(i)' = Owed(i) - Bit(OwnerIdx(m) = i) /\ Owed(i) >= Bit(OwnerIdx(m) = i)

LEMMA InterruptCases ==
  ASSUME TypeInv, TypeInv', PollIrq, handleIrqFifo
  PROVE  \/ timeSlice /\ UNCHANGED <<segVars, QueueVars>>
         \/ UNCHANGED <<segVars, run, state, current, QueueVars>>
         \/ \E m \in Datagram : Delivers(m)
<1>1. UNCHANGED <<reqs, reps>>
  BY DEF PollIrq
<1>2. CASE deliverFileReply /\ UNCHANGED <<has_request, op, run, current, dirQueue>>
  <2>1. CASE fileQueue # <<>>
    <3> DEFINE m == Head(fileQueue)
    <3>1. Deliver(m) /\ fileQueue' = Tail(fileQueue)
      BY <1>2, <2>1 DEF deliverFileReply
    <3>2. /\ m \in Datagram /\ m \in Range(fileQueue)
          /\ Range(fileQueue') \subseteq Range(fileQueue)
      BY <2>1, <3>1, QueueElements, TypeInvUnfolded
    <3>3. \A i : OwnedBy(fileQueue', i) = OwnedBy(fileQueue, i) - Bit(OwnerIdx(m) = i)
      BY <2>1, <3>1, OwnedByTail, TypeInvUnfolded
    <3> HIDE DEF m
    <3>4. \A i : OwnedBy(fileQueue', i) \in Nat
      BY PositionsFinite DEF TypeInv, TypeOK, KernelTypeOK
    <3>5. ASSUME NEW i
          PROVE  Owed(i)' = Owed(i) - Bit(OwnerIdx(m) = i) /\ Owed(i) >= Bit(OwnerIdx(m) = i)
      <4>1. OwnedBy(fileQueue', i) = OwnedBy(fileQueue, i) - Bit(OwnerIdx(m) = i)
        BY <3>3
      <4>2. OwnedBy(fileQueue', i) \in Nat
        BY <3>4
      <4>3. UNCHANGED <<reqs, reps, dirQueue>>
        BY <1>1, <1>2
      <4> QED
        BY <4>1, <4>2, <4>3, OwedFacts DEF Owed, Bit
    <3> QED
      BY <1>2, <3>1, <3>2, <3>5 DEF Delivers
  <2> QED
    BY <1>2, <2>1 DEF deliverFileReply, segVars, QueueVars
<1>3. CASE deliverDirReply /\ UNCHANGED <<has_request, op, run, current, fileQueue>>
  <2>1. CASE dirQueue # <<>>
    <3> DEFINE m == Head(dirQueue)
    <3>1. Deliver(m) /\ dirQueue' = Tail(dirQueue)
      BY <1>3, <2>1 DEF deliverDirReply
    <3>2. /\ m \in Datagram /\ m \in Range(dirQueue)
          /\ Range(dirQueue') \subseteq Range(dirQueue)
      BY <2>1, <3>1, QueueElements, TypeInvUnfolded
    <3>3. \A i : OwnedBy(dirQueue', i) = OwnedBy(dirQueue, i) - Bit(OwnerIdx(m) = i)
      BY <2>1, <3>1, OwnedByTail, TypeInvUnfolded
    <3> HIDE DEF m
    <3>4. \A i : OwnedBy(dirQueue', i) \in Nat
      BY PositionsFinite DEF TypeInv, TypeOK, KernelTypeOK
    <3>5. ASSUME NEW i
          PROVE  Owed(i)' = Owed(i) - Bit(OwnerIdx(m) = i) /\ Owed(i) >= Bit(OwnerIdx(m) = i)
      <4>1. OwnedBy(dirQueue', i) = OwnedBy(dirQueue, i) - Bit(OwnerIdx(m) = i)
        BY <3>3
      <4>2. OwnedBy(dirQueue', i) \in Nat
        BY <3>4
      <4>3. UNCHANGED <<reqs, reps, fileQueue>>
        BY <1>1, <1>3
      <4> QED
        BY <4>1, <4>2, <4>3, OwedFacts DEF Owed, Bit
    <3> QED
      BY <1>3, <3>1, <3>2, <3>5 DEF Delivers
  <2> QED
    BY <1>3, <2>1 DEF deliverDirReply, segVars, QueueVars
<1> QED
  BY <1>2, <1>3 DEF handleIrqFifo

LEMMA InitExclusionInv == Init => ExclusionInv
<1> SUFFICES ASSUME Init PROVE ExclusionInv
  OBVIOUS
<1>1. TypeInv
  BY InitTypeInv
<1>2. \A i \in Procs : state[i] = "READY" /\ run[i] = "none"
  BY ConstantFacts DEF Init, KernelInit, MachineInit, Children
<1>3. kpc = "boot" /\ reqs = <<>> /\ reps = <<>> /\ fileQueue = <<>> /\ dirQueue = <<>>
  BY DEF Init, KernelInit, MachineInit
<1> QED
  BY <1>1, <1>2, <1>3
     DEF ExclusionInv, RunsWhenDispatched, DispatchedIsCurrent, BootIsQuiet, OwedIsBlocked,
         SendsUnblocked, Live

\* Steps that leave the process table and the messages alone, start nobody who
\* is not RUNNING, and revive nobody.
LEMMA TableUnchanged ==
  ASSUME ExclusionInv, TypeInv',
         UNCHANGED <<state, current, reqs, reps, fileQueue, dirQueue>>,
         \A j \in Procs : run'[j] = "running" => run[j] = "running" \/ state[j] = "RUNNING",
         \A j \in Procs : Live(j)' => Live(j),
         kpc' \in BootLabels => kpc \in BootLabels,
         kpc' = "send" => UNCHANGED <<kpc, kidx>>,
         kpc = "halt" => UNCHANGED <<kpc, kidx>>
  PROVE  ExclusionInv'
<1>1. RunsWhenDispatched'
  BY DEF ExclusionInv, RunsWhenDispatched
<1>2. DispatchedIsCurrent'
  BY DEF ExclusionInv, DispatchedIsCurrent
<1>3. BootIsQuiet'
  BY DEF ExclusionInv, BootIsQuiet
<1>4. OwedIsBlocked'
  BY DEF ExclusionInv, OwedIsBlocked, Owed, OwnedBy
<1>5. SendsUnblocked'
  BY DEF ExclusionInv, SendsUnblocked
<1> QED
  BY <1>1, <1>2, <1>3, <1>4, <1>5 DEF ExclusionInv

LEMMA AppExclusion ==
  ASSUME ExclusionInv, TypeInv', NEW i \in Procs, AppAction(i)
  PROVE  ExclusionInv'
<1>1. UNCHANGED <<kernelVars, reqs, reps>>
  BY DEF AppAction, AppStep, AppFrame
<1>2. run \in [Children -> Status]
  BY TypeInvUnfolded DEF ExclusionInv
<1>3. \A j \in Procs : run'[j] = run[j] \/ run'[j] = "zombie"
  BY <1>2 DEF AppAction, AppStep, open_shared_memory, Tick, handle_reply, clear_has_reply,
              clear_fields, NoSyscall, prepare_syscall, AckReply, PostRequest,
              NextIteration, Exit, Children
<1> QED
  BY <1>1, <1>3, TableUnchanged DEF kernelVars, Live

LEMMA ICExclusion ==
  ASSUME ExclusionInv, TypeInv', ICAction
  PROVE  ExclusionInv'
<1>1. UNCHANGED <<kernelVars, reqs, reps>>
  BY DEF ICAction, InterControllerStep, ICFrame
<1>2. run \in [Children -> Status]
  BY TypeInvUnfolded DEF ExclusionInv
<1>3. \A j \in Procs : run'[j] = run[j]
  BY <1>2, ConstantFacts
     DEF ICAction, InterControllerStep, LoopTest, TimerIrq, FileIrq, NoFileIrq, DirIrq,
         NoDirIrq, Children
<1> QED
  BY <1>1, <1>3, TableUnchanged DEF kernelVars, Live

LEMMA SigintExclusion ==
  ASSUME ExclusionInv, TypeInv', Sigint
  PROVE  ExclusionInv'
<1>1. UNCHANGED <<state, current, reqs, reps, fileQueue, dirQueue, run>>
  BY DEF Sigint, sigintHandler, machineVars, QueueVars
<1>2. UNCHANGED <<kpc, kidx>> \/ (kpc = "sleeping" /\ kpc' = "check")
  BY DEF Sigint, sigintHandler, Enter, At
<1> QED
  BY <1>1, <1>2, TableUnchanged DEF Live, BootLabels

\* Steps of the network and of the server: the table and the statuses stay,
\* and no app comes to own more messages.
LEMMA MessagesMoved ==
  ASSUME ExclusionInv, TypeInv', UNCHANGED <<state, current, run, kpc, kidx>>,
         kpc \notin BootLabels, \A i \in Procs : Owed(i)' <= Owed(i)
  PROVE  ExclusionInv'
<1>1. \A i \in Procs : Owed(i) \in Nat
  BY OwedFacts DEF ExclusionInv
<1>2. \A i \in Procs : Owed(i)' \in Nat
  BY OwedFactsPrimed
<1>3. RunsWhenDispatched' /\ DispatchedIsCurrent'
  BY DEF ExclusionInv, RunsWhenDispatched, DispatchedIsCurrent
<1>4. BootIsQuiet' /\ SendsUnblocked'
  BY DEF ExclusionInv, BootIsQuiet, SendsUnblocked
<1>5. OwedIsBlocked'
  BY <1>1, <1>2 DEF ExclusionInv, OwedIsBlocked, Live
<1> QED
  BY <1>3, <1>4, <1>5 DEF ExclusionInv

LEMMA ServerExclusion ==
  ASSUME ExclusionInv, TypeInv', ServerAction \/ LoseRequest \/ LoseReply
  PROVE  ExclusionInv'
<1>1. UNCHANGED <<state, current, run, kpc, kidx, fileQueue, dirQueue>>
  BY DEF ServerAction, LoseRequest, LoseReply, NetworkFrame, kernelVars
<1>2. TypeInv
  BY DEF ExclusionInv
<1>3. reqs # <<>> \/ reps # <<>>
  BY DEF ServerAction, LoseRequest, LoseReply
<1>4. kpc \notin BootLabels
  BY <1>3 DEF ExclusionInv, BootIsQuiet
<1>5. \A i \in Procs : Owed(i)' <= Owed(i)
  BY <1>2, OwedAfterServer, OwedAfterLoss, OwedFacts
<1> QED
  BY <1>1, <1>4, <1>5, MessagesMoved
----------------------------------------------------------------------------
(* The kernel. *)

LEMMA BootExclusion ==
  ASSUME ExclusionInv, TypeInv', StopInterController \/ ForkApp \/ HaltApp
  PROVE  ExclusionInv'
<1>1. /\ run \in [Children -> Status] /\ kidx \in Procs /\ state \in [Procs -> States]
      /\ TypeInv
  BY TypeInvUnfolded DEF ExclusionInv
<1>2. kpc \in BootLabels
  BY DEF StopInterController, ForkApp, HaltApp, At, BootLabels
<1>3. \A i \in Procs : state[i] = "READY"
  BY <1>2 DEF ExclusionInv, BootIsQuiet
<1>4. reqs = <<>> /\ reps = <<>> /\ fileQueue = <<>> /\ dirQueue = <<>>
  BY <1>2 DEF ExclusionInv, BootIsQuiet
<1>5. UNCHANGED <<state, current, reqs, reps, fileQueue, dirQueue>>
  BY DEF StopInterController, ForkApp, HaltApp, QueueVars
<1>6. \A i \in Procs : Owed(i)' = 0
  <2>1. /\ reqs' = <<>> /\ reps' = <<>> /\ fileQueue' = <<>> /\ dirQueue' = <<>>
    BY <1>4, <1>5
  <2> QED
    BY <2>1, OwnedByEmpty DEF Owed
<1>7. RunsWhenDispatched'
  <2>1. CASE StopInterController
    BY <1>1, <1>5, <2>1, ConstantFacts
       DEF StopInterController, ExclusionInv, RunsWhenDispatched, At, Children
  <2>2. CASE ForkApp
    BY <1>1, <1>5, <2>2 DEF ForkApp, ExclusionInv, RunsWhenDispatched, At, Children
  <2>3. CASE HaltApp
    BY <1>1, <1>3, <1>5, <2>3
       DEF HaltApp, ExclusionInv, RunsWhenDispatched, At, Children, Stopped
  <2> QED
    BY <2>1, <2>2, <2>3
<1>8. kpc' # "send"
  BY DEF StopInterController, ForkApp, HaltApp, Enter, NextIndex
<1> QED
  BY <1>3, <1>4, <1>5, <1>6, <1>7, <1>8
     DEF ExclusionInv, DispatchedIsCurrent, BootIsQuiet, OwedIsBlocked, SendsUnblocked

\* The kernel's steps that change neither the table nor the messages.
LEMMA PassiveKernelExclusion ==
  ASSUME ExclusionInv, TypeInv',
         \/ LaunchInterController \/ NothingToTake \/ Pause \/ Sleep \/ Resume
         \/ NotTerminated \/ LoopOrBreak \/ FinishInterController \/ WaitInterController
         \/ PollReplies /\ NoReply
  PROVE  ExclusionInv'
<1> USE DEF At, Enter, NextIndex
<1>1. run \in [Children -> Status]
  BY TypeInvUnfolded DEF ExclusionInv
<1>2. UNCHANGED <<state, current, reqs, reps, fileQueue, dirQueue>>
  BY DEF LaunchInterController, NothingToTake, Pause, Sleep, Resume, NotTerminated,
         LoopOrBreak, FinishInterController, WaitInterController,
         PollReplies, NoReply, machineVars, QueueVars
<1>3. kpc # "halt" /\ kpc' \notin BootLabels /\ kpc' # "send"
  BY DEF LaunchInterController, NothingToTake, Pause, Sleep, Resume, NotTerminated,
         LoopOrBreak, FinishInterController, WaitInterController, PollReplies, BootLabels
<1>4. \A j \in Procs : \/ run'[j] = run[j]
                       \/ run'[j] = Stopped(run[j])
                       \/ run'[j] = Resumed(run[j]) /\ state[j] = "RUNNING"
  <2>1. CASE LaunchInterController \/ WaitInterController
    BY <1>1, <2>1, ConstantFacts DEF LaunchInterController, WaitInterController, Children
  <2>2. CASE Pause
    BY <2>2 DEF Pause, Children
  <2>3. CASE Resume
    BY <2>3, ConstantFacts DEF Resume, Children
  <2> QED
    BY <2>1, <2>2, <2>3
       DEF NothingToTake, Sleep, NotTerminated, LoopOrBreak, FinishInterController,
           PollReplies, machineVars
<1> QED
  BY <1>2, <1>3, <1>4, TableUnchanged DEF Live, Stopped, Resumed

LEMMA TimeSliceExclusion ==
  ASSUME ExclusionInv, TypeInv', PollIrq, handleIrqFifo, timeSlice,
         UNCHANGED <<segVars, QueueVars>>
  PROVE  ExclusionInv'
<1>1. /\ run \in [Children -> Status] /\ state \in [Procs -> States]
      /\ TypeInv
  BY TypeInvUnfolded DEF ExclusionInv
<1>2. kpc = "irq" /\ kpc' = "recv" /\ UNCHANGED <<reqs, reps, fileQueue, dirQueue>>
  BY DEF PollIrq, At, Enter, QueueVars
<1>3. /\ \A i \in Procs : run[i] = "running" => state[i] = "RUNNING"
      /\ \A i \in Procs : state[i] = "RUNNING" => i = current
  BY <1>2 DEF ExclusionInv, RunsWhenDispatched, DispatchedIsCurrent
<1>4. \A i \in Procs : /\ PreemptedState[i] # "RUNNING" /\ PreemptedRun[i] # "running"
                       /\ PreemptedState[i] = "BLOCKED" <=> state[i] = "BLOCKED"
                       /\ PreemptedRun[i] \in {"running", "stopped"} <=> Live(i)
  BY <1>1, <1>3 DEF PreemptedState, PreemptedRun, Preempts, Live, Stopped, Children
<1>5. PreemptedState \in [Procs -> States] /\ PreemptedRun \in [Children -> Status]
  BY <1>1, SignalFacts DEF PreemptedState, PreemptedRun, Preempts, Children, States
<1>6. /\ \A i \in Procs : run'[i] = "running" => state'[i] = "RUNNING"
      /\ \A i \in Procs : state'[i] = "RUNNING" => i = current'
      /\ \A i \in Procs : state'[i] = "BLOCKED" <=> state[i] = "BLOCKED"
      /\ \A i \in Procs : Live(i)' <=> Live(i)
  <2>1. CASE state' = PreemptedState /\ run' = PreemptedRun /\ UNCHANGED current
    BY <1>4, <2>1 DEF Live
  <2>2. CASE \E next \in Procs :
               /\ IsNextReady(next)
               /\ state' = [PreemptedState EXCEPT ![next] = "RUNNING"]
               /\ run' = [PreemptedRun EXCEPT ![next] = Resumed(@)]
               /\ current' = next
    <3>1. PICK next \in Procs :
               /\ IsNextReady(next)
               /\ state' = [PreemptedState EXCEPT ![next] = "RUNNING"]
               /\ run' = [PreemptedRun EXCEPT ![next] = Resumed(@)]
               /\ current' = next
      BY <2>2
    <3>2. PreemptedState[next] = "READY"
      BY <3>1 DEF IsNextReady
    <3> QED
      BY <1>4, <1>5, <3>1, <3>2 DEF Live, Resumed, Children
  <2> QED
    BY <2>1, <2>2 DEF timeSlice
<1>7. \A i \in Procs : Owed(i)' = Owed(i)
  BY <1>2 DEF Owed
<1>8. RunsWhenDispatched' /\ DispatchedIsCurrent'
  BY <1>6 DEF RunsWhenDispatched, DispatchedIsCurrent
<1>9. BootIsQuiet' /\ SendsUnblocked'
  BY <1>2 DEF BootIsQuiet, SendsUnblocked, BootLabels
<1>10. OwedIsBlocked'
  BY <1>6, <1>7 DEF ExclusionInv, OwedIsBlocked
<1> QED
  BY <1>8, <1>9, <1>10 DEF ExclusionInv

\* Whoever owns a message is either BLOCKED and not executing, or gone.
LEMMA OwnerIsStopped ==
  ASSUME ExclusionInv, kpc # "halt", NEW i \in Procs, Owed(i) >= 1
  PROVE  /\ run[i] # "running"
         /\ Live(i) => Owed(i) = 1
<1>1. Owed(i) \in Nat
  BY OwedFacts DEF ExclusionInv
<1> QED
  BY <1>1 DEF ExclusionInv, OwedIsBlocked, RunsWhenDispatched, Live

\* Delivering a reply: its owner was stopped, and owns no other message.
LEMMA DeliverExclusion ==
  ASSUME ExclusionInv, TypeInv', kpc = "irq", kpc' = "recv", UNCHANGED <<run, current>>,
         NEW m \in Datagram, Deliver(m),
         Owed(OwnerIdx(m)) >= 1,
         Owed(OwnerIdx(m))' = Owed(OwnerIdx(m)) - 1,
         \A i \in Procs : i # OwnerIdx(m) => Owed(i)' = Owed(i)
  PROVE  ExclusionInv'
<1> DEFINE j == OwnerIdx(m)
<1>1. j \in Procs /\ state \in [Procs -> States] /\ Owed(j) \in Nat
  BY OwnerFacts, TypeInvUnfolded, OwedFacts DEF ExclusionInv
<1>2. state' = [state EXCEPT ![j] = "READY"]
  BY DEF Deliver
<1>3. run[j] # "running" /\ (Live(j) => Owed(j) = 1)
  BY <1>1, OwnerIsStopped
<1> HIDE DEF j
<1>4. RunsWhenDispatched'
  BY <1>1, <1>2, <1>3 DEF ExclusionInv, RunsWhenDispatched
<1>5. DispatchedIsCurrent'
  BY <1>1, <1>2 DEF ExclusionInv, DispatchedIsCurrent
<1>6. BootIsQuiet' /\ SendsUnblocked'
  BY DEF BootIsQuiet, SendsUnblocked, BootLabels
<1>7. OwedIsBlocked'
  <2> SUFFICES ASSUME NEW i \in Procs, Live(i)'
               PROVE  Owed(i)' <= 1 /\ (Owed(i)' = 1 => state'[i] = "BLOCKED")
    BY DEF OwedIsBlocked
  <2>1. Live(i)
    BY DEF Live
  <2>2. CASE i = j
    BY <1>3, <2>1, <2>2 DEF j
  <2>3. CASE i # j
    BY <1>1, <1>2, <2>1, <2>3 DEF ExclusionInv, OwedIsBlocked, j
  <2> QED
    BY <2>2, <2>3
<1> QED
  BY <1>4, <1>5, <1>6, <1>7 DEF ExclusionInv

LEMMA InterruptExclusion ==
  ASSUME ExclusionInv, TypeInv', PollIrq
  PROVE  ExclusionInv'
<1>1. TypeInv
  BY DEF ExclusionInv
<1>2. kpc = "irq" /\ kpc' = "recv" /\ UNCHANGED <<reqs, reps>>
  BY DEF PollIrq, At, Enter
<1>3. CASE UNCHANGED <<segVars, run, state, current, QueueVars>>
  <2>1. UNCHANGED <<state, current, reqs, reps, fileQueue, dirQueue, run>>
    BY <1>2, <1>3 DEF QueueVars
  <2> QED
    BY <1>2, <2>1, TableUnchanged DEF Live, BootLabels
<1>4. CASE handleIrqFifo /\ timeSlice /\ UNCHANGED <<segVars, QueueVars>>
  BY <1>4, TimeSliceExclusion
<1>5. ASSUME NEW m \in Datagram, Delivers(m) PROVE ExclusionInv'
  <2>1. \A i : Owed(i)' = Owed(i) - Bit(OwnerIdx(m) = i) /\ Owed(i) >= Bit(OwnerIdx(m) = i)
    BY <1>5 DEF Delivers
  <2>2. /\ Owed(OwnerIdx(m)) >= 1 /\ Owed(OwnerIdx(m))' = Owed(OwnerIdx(m)) - 1
        /\ \A i \in Procs : i # OwnerIdx(m) => Owed(i)' = Owed(i)
    BY <1>1, <2>1, OwedFacts DEF Bit
  <2>3. Deliver(m) /\ UNCHANGED <<run, current>>
    BY <1>5 DEF Delivers
  <2> QED
    BY <1>2, <2>2, <2>3, DeliverExclusion
<1>6. NoIrq => UNCHANGED <<segVars, run, state, current, QueueVars>>
  BY DEF NoIrq
<1>7. NoIrq \/ handleIrqFifo
  BY DEF PollIrq
<1> QED
  BY <1>1, <1>3, <1>4, <1>5, <1>6, <1>7, InterruptCases

LEMMA RepliesExclusion ==
  ASSUME ExclusionInv, TypeInv', PollReplies
  PROVE  ExclusionInv'
<1>1. TypeInv
  BY DEF ExclusionInv
<1>2. kpc = "recv" /\ kpc' = "scan" /\ UNCHANGED <<run, reqs, state, current>>
  BY DEF PollReplies, At, Enter
<1>3. CASE NoReply
  BY <1>3, PassiveKernelExclusion
<1>4. CASE recvUdpReply
  <2>5. \A i : Owed(i)' = Owed(i)
    BY <1>1, <1>4, OwedAfterReceive
  <2>6. RunsWhenDispatched' /\ DispatchedIsCurrent'
    BY <1>2 DEF ExclusionInv, RunsWhenDispatched, DispatchedIsCurrent
  <2>7. BootIsQuiet' /\ SendsUnblocked'
    BY <1>2 DEF BootIsQuiet, SendsUnblocked, BootLabels
  <2>8. OwedIsBlocked'
    BY <1>2, <2>5 DEF ExclusionInv, OwedIsBlocked, Live
  <2> QED
    BY <2>6, <2>7, <2>8 DEF ExclusionInv
<1> QED
  BY <1>3, <1>4 DEF PollReplies

LEMMA RequestExclusion ==
  ASSUME ExclusionInv, TypeInv', TakeRequest \/ SendRequest \/ Reap
  PROVE  ExclusionInv'
<1>1. /\ run \in [Children -> Status] /\ state \in [Procs -> States] /\ kidx \in Procs
      /\ TypeInv
  BY TypeInvUnfolded DEF ExclusionInv
<1>2. CASE TakeRequest
  <2>1. /\ UNCHANGED <<state, current, reqs, reps, fileQueue, dirQueue, run, kidx>>
        /\ kpc = "scan" /\ kpc' = "send" /\ state[kidx] # "BLOCKED"
    BY <1>2 DEF TakeRequest, At, QueueVars
  <2>2. RunsWhenDispatched' /\ DispatchedIsCurrent'
    BY <2>1 DEF ExclusionInv, RunsWhenDispatched, DispatchedIsCurrent
  <2>3. BootIsQuiet' /\ SendsUnblocked'
    BY <2>1 DEF BootIsQuiet, SendsUnblocked, BootLabels
  <2>4. OwedIsBlocked'
    BY <2>1 DEF ExclusionInv, OwedIsBlocked, Live, Owed
  <2> QED
    BY <2>2, <2>3, <2>4 DEF ExclusionInv
<1>3. CASE SendRequest
  <2>1. /\ kpc = "send" /\ kpc' \in {"scan", "pause"} /\ state[kidx] # "BLOCKED"
        /\ UNCHANGED <<current, reps, fileQueue, dirQueue>>
    BY <1>3 DEF SendRequest, At, NextIndex, Enter, QueueVars, ExclusionInv, SendsUnblocked
  <2>2. /\ run' = [run EXCEPT ![kidx] = Stopped(@)]
        /\ state' = [state EXCEPT ![kidx] = "BLOCKED"]
    BY <1>3 DEF SendRequest
  <2>5. \A i : Owed(i)' = Owed(i) + Bit(kidx = i) /\ Owed(i) \in Nat
    BY <1>1, <1>3, OwedAfterSend, OwedFacts
  <2>6. RunsWhenDispatched' /\ DispatchedIsCurrent'
    BY <1>1, <2>1, <2>2
       DEF ExclusionInv, RunsWhenDispatched, DispatchedIsCurrent, Stopped, Children
  <2>7. BootIsQuiet' /\ SendsUnblocked'
    BY <2>1 DEF BootIsQuiet, SendsUnblocked, BootLabels
  <2>8. OwedIsBlocked'
    <3> SUFFICES ASSUME NEW i \in Procs, Live(i)'
                 PROVE  Owed(i)' <= 1 /\ (Owed(i)' = 1 => state'[i] = "BLOCKED")
      BY DEF OwedIsBlocked
    <3>1. Live(i)
      BY <1>1, <2>2 DEF Live, Stopped, Children
    <3>2. Owed(i) <= 1 /\ (Owed(i) = 1 => state[i] = "BLOCKED")
      BY <3>1 DEF ExclusionInv, OwedIsBlocked
    <3>3. CASE i = kidx
      BY <1>1, <2>1, <2>2, <2>5, <3>2, <3>3 DEF Bit
    <3>4. CASE i # kidx
      BY <1>1, <2>2, <2>5, <3>2, <3>4 DEF Bit
    <3> QED
      BY <3>3, <3>4
  <2> QED
    BY <2>6, <2>7, <2>8 DEF ExclusionInv
<1>4. CASE Reap
  <2>1. /\ kpc = "check" /\ kpc' \in {"check", "loop"} /\ run[kidx] = "zombie"
        /\ UNCHANGED <<current, reqs, reps, fileQueue, dirQueue>>
        /\ run' = [run EXCEPT ![kidx] = "reaped"]
        /\ state' = [state EXCEPT ![kidx] = "TERMINATED"]
    BY <1>4 DEF Reap, At, NextIndex, Enter, QueueVars
  <2>2. RunsWhenDispatched' /\ DispatchedIsCurrent'
    BY <1>1, <2>1 DEF ExclusionInv, RunsWhenDispatched, DispatchedIsCurrent, Children
  <2>3. BootIsQuiet' /\ SendsUnblocked'
    BY <2>1 DEF BootIsQuiet, SendsUnblocked, BootLabels
  <2>4. \A i \in Procs : Live(i)' => Live(i) /\ i # kidx
    BY <1>1, <2>1 DEF Live, Children
  <2>5. \A i \in Procs : Owed(i)' = Owed(i)
    BY <2>1 DEF Owed
  <2>6. OwedIsBlocked'
    BY <1>1, <2>1, <2>4, <2>5 DEF ExclusionInv, OwedIsBlocked
  <2> QED
    BY <2>2, <2>3, <2>6 DEF ExclusionInv
<1> QED
  BY <1>2, <1>3, <1>4

LEMMA KernelExclusion ==
  ASSUME ExclusionInv, TypeInv', KernelAction
  PROVE  ExclusionInv'
BY BootExclusion, PassiveKernelExclusion, InterruptExclusion, RepliesExclusion,
   RequestExclusion DEF KernelAction, KernelStep

LEMMA ExclusionStep ==
  ASSUME ExclusionInv, [Next]_vars
  PROVE  ExclusionInv'
<1>1. TypeInv'
  BY TypeInvStep DEF ExclusionInv
<1>2. CASE UNCHANGED vars \/ Terminated
  <2>1. UNCHANGED <<machineVars, kernelVars>>
    BY <1>2 DEF Terminated, vars
  <2> QED
    BY <1>1, <2>1, TableUnchanged DEF machineVars, kernelVars, Live
<1> QED
  BY <1>1, <1>2, AppExclusion, ICExclusion, KernelExclusion, ServerExclusion, SigintExclusion
     DEF Next

LEMMA ExclusionInvariant == Spec => []ExclusionInv
BY InitExclusionInv, ExclusionStep, PTL DEF Spec
----------------------------------------------------------------------------
(* The theorems. *)

\* At most one app executes at any moment.
THEOREM OneAppRunsAlways == Spec => []OneAppRuns
<1>1. ExclusionInv => OneAppRuns
  BY DEF ExclusionInv, RunsWhenDispatched, DispatchedIsCurrent, BootIsQuiet, BootLabels,
         OneAppRuns
<1> QED
  BY <1>1, ExclusionInvariant, PTL

\* The kernel writes a reply into a segment only while its app is stopped or
\* gone.
THEOREM RepliesLandSafely == Spec => RepliesLandOnStoppedApps
<1> DEFINE Writes(i) == has_reply'[i] # has_reply[i] \/ body'[i] # body[i]
<1>1. ASSUME ExclusionInv, KernelAction, NEW i \in Procs, Writes(i)
      PROVE  run[i] # "running"
  <2>1. TypeInv /\ has_reply \in [Procs -> BOOLEAN] /\ body \in [Procs -> Bodies]
    BY <1>1 DEF ExclusionInv, TypeInv, TypeOK, MachineTypeOK
  <2>2. KernelStep
    BY <1>1 DEF KernelAction
  <2>3. \/ PollIrq /\ handleIrqFifo /\ (deliverFileReply \/ deliverDirReply)
        \/ PollReplies /\ recvUdpReply
    BY <1>1, <2>2
       DEF KernelStep, StopInterController, ForkApp, HaltApp, LaunchInterController,
           PollIrq, NoIrq, handleIrqFifo, PollReplies, NoReply, NothingToTake, TakeRequest,
           SendRequest, Pause, Sleep, Resume, Reap, NotTerminated, LoopOrBreak,
           FinishInterController, WaitInterController, machineVars, segVars
  <2>4. PICK q \in {fileQueue, dirQueue, reps} : q # <<>> /\ OwnerIdx(Head(q)) = i
    BY <1>1, <2>1, <2>3 DEF deliverFileReply, deliverDirReply, recvUdpReply, Deliver
  <2>5. OwnedBy(q, i) >= 1
    <3>1. q \in Seq(Datagram)
      BY <2>1, TypeInvUnfolded
    <3>2. OwnedBy(Tail(q), i) = OwnedBy(q, i) - 1
      BY <2>4, <3>1, OwnedByTail DEF Bit
    <3>3. Tail(q) \in Seq(Datagram)
      BY <2>4, <3>1, HeadTailProperties
    <3>4. OwnedBy(Tail(q), i) \in Nat /\ OwnedBy(q, i) \in Nat
      BY <3>1, <3>3, PositionsFinite
    <3> QED
      BY <3>2, <3>4
  <2>6. Owed(i) >= 1
    BY <2>1, <2>5, OwedFacts DEF Owed
  <2>7. kpc # "halt"
    BY <2>3 DEF PollIrq, PollReplies, At
  <2> QED
    BY <1>1, <2>6, <2>7, OwnerIsStopped
<1>2. ExclusionInv /\ [Next]_vars =>
        [KernelAction => \A i \in Procs : Writes(i) => run[i] # "running"]_vars
  BY <1>1
<1> QED
  BY <1>2, ExclusionInvariant, PTL DEF Spec, RepliesLandOnStoppedApps
----------------------------------------------------------------------------
(* Round robin. *)

LEMMA ModuloFacts ==
  ASSUME NEW n \in Nat \ {0}, NEW a \in Int
  PROVE  /\ a \in 0..(n - 1) => a % n = a
         /\ a \in n..(2 * n - 1) => a % n = a - n
<1>1. ASSUME a \in 0..(n - 1) PROVE a % n = a
  BY <1>1
<1>2. ASSUME a \in n..(2 * n - 1) PROVE a % n = a - n
  BY <1>2
<1> QED
  BY <1>1, <1>2

LEMMA CyclicFacts ==
  ASSUME NEW c \in -1..(N - 1), NEW k \in 1..N
  PROVE  /\ (c + k) % N = IF c + k < N THEN c + k ELSE c + k - N
         /\ (c + k) % N \in Procs
<1> DEFINE a == c + k
<1>1. N \in Nat \ {0} /\ a \in 0..(2 * N - 1)
  BY NAssumption
<1> HIDE DEF a
<1>2. CASE a < N
  <2>1. a \in 0..(N - 1)
    BY <1>1, <1>2
  <2> QED
    BY <1>1, <1>2, <2>1, ModuloFacts DEF Procs, a
<1>3. CASE a >= N
  <2>1. a \in N..(2 * N - 1) /\ a - N \in 0..(N - 1) /\ ~(a < N)
    BY <1>1, <1>3
  <2> QED
    BY <1>1, <2>1, ModuloFacts DEF Procs, a
<1> QED
  BY <1>1, <1>2, <1>3

\* From c the circular queue reaches every process at exactly one distance.
LEMMA DistanceFacts ==
  ASSUME NEW c \in -1..(N - 1), NEW i \in Procs
  PROVE  /\ Distance(c, i) \in 1..N
         /\ (c + Distance(c, i)) % N = i
         /\ \A k \in 1..N : (c + k) % N = i => k = Distance(c, i)
<1>1. N \in Nat /\ N >= 1 /\ i \in 0..(N - 1)
  BY ConstantFacts DEF Procs
<1>2. \E k \in 1..N : (c + k) % N = i
  <2> DEFINE k == IF i > c THEN i - c ELSE i - c + N
  <2>1. k \in 1..N /\ i = IF c + k < N THEN c + k ELSE c + k - N
    BY <1>1
  <2> HIDE DEF k
  <2> QED
    BY <2>1, CyclicFacts
<1>3. Distance(c, i) \in 1..N /\ (c + Distance(c, i)) % N = i
  BY <1>2 DEF Distance
<1>4. ASSUME NEW j \in 1..N, NEW k \in 1..N, (c + j) % N = (c + k) % N
      PROVE  j = k
  <2>1. /\ (c + j) % N = IF c + j < N THEN c + j ELSE c + j - N
        /\ (c + k) % N = IF c + k < N THEN c + k ELSE c + k - N
    BY CyclicFacts
  <2> QED
    BY <1>1, <1>4, <2>1
<1> QED
  BY <1>3, <1>4

\* Going on from the process at distance k, everybody further away is k closer.
LEMMA DistanceShrinks ==
  ASSUME NEW c \in -1..(N - 1), NEW k \in 1..N, NEW i \in Procs, k < Distance(c, i)
  PROVE  Distance((c + k) % N, i) < Distance(c, i)
<1> DEFINE d == Distance(c, i)
           next == (c + k) % N
<1>1. N \in Nat /\ N >= 1
  BY ConstantFacts
<1>2. /\ d \in 1..N
      /\ (c + d) % N = i
  BY DistanceFacts
<1>3. next \in Procs /\ next = IF c + k < N THEN c + k ELSE c + k - N
  BY CyclicFacts
<1>4. i = IF c + d < N THEN c + d ELSE c + d - N
  BY <1>2, CyclicFacts
<1> HIDE DEF d, next
<1>5. d - k \in 1..N /\ next \in -1..(N - 1) /\ k < d
  BY <1>1, <1>2, <1>3 DEF d, Procs
<1>6. (next + (d - k)) % N = i
  <2>1. (next + (d - k)) % N =
          IF next + (d - k) < N THEN next + (d - k) ELSE next + (d - k) - N
    BY <1>5, CyclicFacts
  <2>2. i \in 0..(N - 1)
    BY DEF Procs
  <2> QED
    BY <1>1, <1>2, <1>3, <1>4, <1>5, <2>1, <2>2
<1>7. Distance(next, i) = d - k
  BY <1>5, <1>6, DistanceFacts
<1> QED
  BY <1>1, <1>2, <1>5, <1>7 DEF d, next

\* No overtaking: whenever timeSlice dispatches somebody else, whoever was
\* READY and still waits comes closer to its turn.
THEOREM SchedulingIsRoundRobin == Spec => RoundRobin
<1> DEFINE Closer == \A i \in Procs :
                       (state[i] = "READY" /\ state'[i] = "READY" /\ current' # current)
                         => Distance(current', i) < Distance(current, i)
<1>1. ASSUME TypeInv, [Next]_vars, NEW i \in Procs,
             state[i] = "READY", state'[i] = "READY", current' # current
      PROVE  Distance(current', i) < Distance(current, i)
  <2>1. /\ current \in -1..(N - 1) /\ state \in [Procs -> States]
    BY <1>1 DEF TypeInv, TypeOK, KernelTypeOK
  <2>2. PollIrq /\ handleIrqFifo /\ timeSlice
    <3>1. ~UNCHANGED current
      BY <1>1
    <3>2. KernelStep
      BY <1>1, <3>1
         DEF Next, AppAction, ICAction, ServerAction, LoseRequest, LoseReply, NetworkFrame,
             Sigint, sigintHandler, Terminated, vars, kernelVars, KernelAction
    <3>3. PollIrq
      BY <3>1, <3>2
         DEF KernelStep, StopInterController, ForkApp, HaltApp, LaunchInterController,
             PollReplies, NothingToTake, TakeRequest, SendRequest, Pause, Sleep, Resume,
             Reap, NotTerminated, LoopOrBreak, FinishInterController, WaitInterController
    <3> QED
      BY <3>1, <3>3 DEF PollIrq, NoIrq, handleIrqFifo
  <2>3. PICK next \in Procs :
          /\ IsNextReady(next)
          /\ state' = [PreemptedState EXCEPT ![next] = "RUNNING"]
          /\ current' = next
    BY <1>1, <2>2 DEF timeSlice
  <2>4. /\ PreemptedState \in [Procs -> States]
        /\ PreemptedState[i] = "READY"
    BY <1>1, <2>1 DEF PreemptedState, Preempts, States
  <2>5. PICK k \in 1..N :
          /\ next = Cyclic(k)
          /\ \A j \in 1..(k - 1) : PreemptedState[Cyclic(j)] # "READY"
    BY <2>3 DEF IsNextReady
  <2>6. next # i
    BY <1>1, <2>3, <2>4
  <2> DEFINE d == Distance(current, i)
  <2>7. d \in 1..N /\ Cyclic(d) = i
    BY <2>1, DistanceFacts DEF Cyclic
  <2> HIDE DEF d
  <2>8. d \notin 1..(k - 1) /\ d # k
    BY <2>4, <2>5, <2>6, <2>7
  <2>9. k < d
    BY <2>7, <2>8, ConstantFacts
  <2> QED
    BY <2>1, <2>3, <2>5, <2>9, DistanceShrinks DEF Cyclic, d
<1>2. ExclusionInv /\ [Next]_vars => [Closer]_vars
  BY <1>1 DEF ExclusionInv
<1> QED
  BY <1>2, ExclusionInvariant, PTL DEF Spec, RoundRobin
=============================================================================
