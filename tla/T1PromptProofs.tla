--------------------------- MODULE T1PromptProofs ---------------------------
(***************************************************************************)
(* What T1 guarantees when its kernel keeps up with the apps: every call   *)
(* is owed exactly one message, the reply queues never overflow, nobody is *)
(* revived, and an app only ever sees the whole reply to an earlier call.  *)
(* For every number of apps, iterations, operations and every FIFO.        *)
(*                                                                         *)
(* What the proofs need of the environment is that no usleep has run out   *)
(* during a pause() of the kernel (overslept = {}): two Ctrl-C can bring   *)
(* that about, one cannot.  Lost datagrams only matter to BlockedIsOwed.   *)
(***************************************************************************)
EXTENDS T1ExclusionProofs

Prompt == KernelKeepsUp /\ MaxSigint <= 1

----------------------------------------------------------------------------
(* The inductive invariant: the call of app i. *)

\* A posted request waits for the kernel: its app sleeps and is not BLOCKED
\* yet, and the segment holds the arguments of the call.
PostedSleeps(i) ==
  ~Polled(i) =>
    /\ apc[i] = "nap2" /\ state[i] # "BLOCKED" /\ ~has_reply[i]
    /\ body[i] = Args(PC[i]) /\ op[i] \in Ops

\* The request that is being sent has been taken out of the segment.
SentOnce(i) == kpc = "send" /\ kidx = i => ~has_request[i]

\* A BLOCKED app is still where it posted its request.
BlockedSleeps(i) == state[i] = "BLOCKED" => apc[i] = "nap2"

\* An app is done when it has terminated, and TERMINATED means reaped.
EndIsDone(i) ==
  /\ apc[i] = "done" <=> run[i] \in {"zombie", "reaped"}
  /\ state[i] = "TERMINATED" => run[i] = "reaped"

\* During the boot no app gets beyond its first sleep.
BootIsEarly(i) == kpc \in BootLabels => apc[i] \in {"start", "nap1"}

\* The call an app is about to post.
PreparedCall(i) == apc[i] \in {"ack", "post"} => body[i] = Args(PC[i]) /\ op[i] \in Ops

\* A reply an app may look at is whole, and the app looks at it in a later
\* iteration than that of the call.
ReplyIsWhole(i) ==
  has_reply[i] /\ state[i] # "BLOCKED" =>
    /\ apc[i] \in {"nap1", "nap2", "done", "reply", "clear"}
    /\ body[i].kind = "rep" /\ body[i].tag >= 1 /\ body[i].tag <= PC[i]
    /\ apc[i] \in {"reply", "clear"} => body[i].tag < PC[i]

\* Only a first sleep comes before the first increment of PC.
PCStarted(i) == apc[i] \notin {"start", "nap1"} => PC[i] >= 1

CallInv(i) ==
  /\ PostedSleeps(i)
  /\ SentOnce(i)
  /\ BlockedSleeps(i)
  /\ EndIsDone(i)
  /\ BootIsEarly(i)
  /\ PreparedCall(i)
  /\ ReplyIsWhole(i)
  /\ PCStarted(i)

\* A message is about the call its owner is in.
Asks(m)    == m.op = op[OwnerIdx(m)] /\ m.body = Args(PC[OwnerIdx(m)])
Answers(m) == m.op = op[OwnerIdx(m)] /\ m.body = Answer(PC[OwnerIdx(m)])

Awaited == Range(reps) \cup Range(fileQueue) \cup Range(dirQueue)

MessagesAreCurrent ==
  /\ \A m \in Range(reqs) : Asks(m)
  /\ \A m \in Awaited : Answers(m)

\* Only a BLOCKED process is owed a message, and it is owed one; who is BLOCKED
\* and owed none has lost it, and every lost datagram strands a process.
OwedAtMost == \A i \in Procs : Owed(i) <= Bit(state[i] = "BLOCKED")
LossStrandsOne == Cardinality(Stranded) = lost

PromptInv ==
  /\ ExclusionInv
  /\ \A i \in Procs : CallInv(i)
  /\ MessagesAreCurrent
  /\ OwedAtMost
  /\ LossStrandsOne

LEMMA PromptTypes ==
  ASSUME PromptInv
  PROVE  /\ TypeInv
         /\ has_request \in [Procs -> BOOLEAN] /\ has_reply \in [Procs -> BOOLEAN]
         /\ op \in [Procs -> Ops \cup {""}] /\ body \in [Procs -> Bodies]
         /\ run \in [Children -> Status] /\ state \in [Procs -> States] /\ kidx \in Procs
         /\ apc \in [Procs -> AppLabels] /\ PC \in [Procs -> 0..MAX]
         /\ reqs \in Seq(Datagram) /\ reps \in Seq(Datagram)
         /\ fileQueue \in Seq(Datagram) /\ dirQueue \in Seq(Datagram)
BY DEF PromptInv, ExclusionInv, TypeInv, TypeOK, MachineTypeOK, AppTypeOK, KernelTypeOK

LEMMA StrandedFacts ==
  /\ IsFiniteSet(Procs) /\ Cardinality(Procs) = N
  /\ Stranded \subseteq Procs /\ IsFiniteSet(Stranded)
<1>1. N \in Nat /\ N >= 1 /\ 0 \in Int /\ N - 1 \in Int
  BY ConstantFacts
<1>2. IsFiniteSet(0..(N - 1)) /\ Cardinality(0..(N - 1)) = IF 0 > N - 1 THEN 0 ELSE (N - 1) - 0 + 1
  BY <1>1, FS_Interval
<1>3. IsFiniteSet(Procs) /\ Cardinality(Procs) = N
  BY <1>1, <1>2 DEF Procs
<1>4. Stranded \in SUBSET Procs
  BY DEF Stranded
<1> QED
  BY <1>3, <1>4, FS_Subset

\* As long as nothing is lost, who is BLOCKED is owed an answer.
LEMMA OwedUnlessLost ==
  ASSUME TypeInv, OwedAtMost, LossStrandsOne, lost = 0
  PROVE  BlockedIsOwed
<1>1. Stranded = {}
  BY StrandedFacts, FS_EmptySet DEF LossStrandsOne
<1>2. ASSUME NEW i \in Procs PROVE Owed(i) = IF state[i] = "BLOCKED" THEN 1 ELSE 0
  <2>1. Owed(i) \in Nat /\ Owed(i) <= Bit(state[i] = "BLOCKED")
    BY OwedFacts DEF OwedAtMost
  <2>2. state[i] = "BLOCKED" => Owed(i) # 0
    BY <1>1 DEF Stranded
  <2> QED
    BY <2>1, <2>2 DEF Bit
<1> QED
  BY <1>2 DEF BlockedIsOwed

LEMMA InitPromptInv == Init => PromptInv
<1> SUFFICES ASSUME Init PROVE PromptInv
  OBVIOUS
<1>1. ExclusionInv
  BY InitExclusionInv
<1>2. /\ reqs = <<>> /\ reps = <<>> /\ fileQueue = <<>> /\ dirQueue = <<>>
      /\ kpc = "boot" /\ \A i \in Procs : state[i] = "READY"
  BY DEF Init, MachineInit, KernelInit
<1>3. ASSUME NEW i \in Procs PROVE CallInv(i)
  <2>1. ~has_request[i] /\ ~has_reply[i] /\ apc[i] = "start" /\ run[i] = "none"
    BY <1>3, ConstantFacts DEF Init, MachineInit, AppInit, Children
  <2> QED
    BY <1>2, <2>1, <1>3
       DEF CallInv, PostedSleeps, SentOnce, BlockedSleeps, EndIsDone, BootIsEarly,
           PreparedCall, ReplyIsWhole, PCStarted, Polled
<1>4. MessagesAreCurrent
  <2>1. Range(<<>>) = {}
    BY DEF Range
  <2> QED
    BY <1>2, <2>1 DEF MessagesAreCurrent, Awaited
<1>5. \A i \in Procs : Owed(i) = 0
  BY <1>2, OwnedByEmpty DEF Owed
<1>6. OwedAtMost /\ LossStrandsOne
  <2>1. OwedAtMost
    BY <1>2, <1>5 DEF OwedAtMost, Bit
  <2>2. Stranded = {} /\ lost = 0
    BY <1>2 DEF Stranded, Init
  <2> QED
    BY <2>1, <2>2, FS_EmptySet DEF LossStrandsOne
<1> QED
  BY <1>1, <1>3, <1>4, <1>6 DEF PromptInv
----------------------------------------------------------------------------
(* What the parts are good for. *)

LEMMA OwnsElement ==
  ASSUME NEW s \in Seq(Datagram), NEW m \in Range(s)
  PROVE  OwnedBy(s, OwnerIdx(m)) >= 1
<1> DEFINE P == Positions(s, OwnerIdx(m))
<1>1. PICK k \in 1..Len(s) : s[k] = m
  BY LenProperties DEF Range
<1>2. P # {}
  BY <1>1 DEF Positions
<1>3. IsFiniteSet(P) /\ OwnedBy(s, OwnerIdx(m)) = Cardinality(P) /\ Cardinality(P) \in Nat
  BY PositionsFinite
<1>4. Cardinality(P) # 0
  BY <1>2, <1>3, FS_EmptySet
<1> QED
  BY <1>3, <1>4

\* Whoever owns a message anywhere is BLOCKED, and owns no other.
LEMMA OwnerIsBlocked ==
  ASSUME PromptInv, NEW q \in {reqs, reps, fileQueue, dirQueue}, NEW m \in Range(q)
  PROVE  /\ m \in Datagram /\ OwnerIdx(m) \in Procs
         /\ state[OwnerIdx(m)] = "BLOCKED"
         /\ Owed(OwnerIdx(m)) = 1
         /\ OwnedBy(q, OwnerIdx(m)) = 1
<1> DEFINE i == OwnerIdx(m)
<1>1. q \in Seq(Datagram)
  BY PromptTypes
<1>2. m \in Datagram
  BY <1>1, QueueElements
<1>3. i \in Procs
  BY <1>2, OwnerFacts
<1>4. OwnedBy(q, i) >= 1
  BY <1>1, OwnsElement
<1> HIDE DEF i
<1>5. /\ OwnedBy(reqs, i) \in Nat /\ OwnedBy(reps, i) \in Nat
      /\ OwnedBy(fileQueue, i) \in Nat /\ OwnedBy(dirQueue, i) \in Nat
  BY PromptTypes, OwedFacts
<1>6. Owed(i) >= OwnedBy(q, i) /\ Owed(i) \in Nat /\ OwnedBy(q, i) \in Nat
  BY <1>5 DEF Owed
<1>7. Owed(i) <= Bit(state[i] = "BLOCKED")
  BY <1>3 DEF PromptInv, OwedAtMost
<1> QED
  BY <1>2, <1>3, <1>4, <1>6, <1>7 DEF Bit, i

\* An app that executes is not BLOCKED, and owns no message.
LEMMA RunnerIsFree ==
  ASSUME PromptInv, NEW i \in Procs, run[i] = "running"
  PROVE  state[i] \in {"RUNNING", "READY"}
BY DEF PromptInv, ExclusionInv, RunsWhenDispatched, BootIsQuiet, BootLabels
----------------------------------------------------------------------------
(* What steps leave alone. *)

\* The call of app i stays as it is when its own variables do, and its process
\* is at most dispatched or preempted, stopped or continued.
LEMMA CallUntouched ==
  ASSUME NEW i \in Procs, CallInv(i),
         has_request'[i] = has_request[i], has_reply'[i] = has_reply[i],
         op'[i] = op[i], body'[i] = body[i], apc'[i] = apc[i], PC'[i] = PC[i],
         state'[i] = state[i] \/ {state[i], state'[i]} \subseteq {"RUNNING", "READY"},
         run'[i] \in {"zombie", "reaped"} <=> run[i] \in {"zombie", "reaped"},
         run[i] = "reaped" => run'[i] = "reaped",
         kpc' \in BootLabels => kpc \in BootLabels,
         kpc' = "send" /\ kidx' = i <=> kpc = "send" /\ kidx = i
  PROVE  CallInv(i)'
<1> USE DEF CallInv
<1>1. Polled(i)' <=> Polled(i)
  BY DEF Polled
<1>2. PostedSleeps(i)' /\ SentOnce(i)'
  BY <1>1 DEF PostedSleeps, SentOnce
<1>3. BlockedSleeps(i)' /\ EndIsDone(i)' /\ BootIsEarly(i)'
  BY DEF BlockedSleeps, EndIsDone, BootIsEarly
<1>4. PreparedCall(i)' /\ ReplyIsWhole(i)' /\ PCStarted(i)'
  BY DEF PreparedCall, ReplyIsWhole, PCStarted
<1> QED
  BY <1>2, <1>3, <1>4

\* Messages stay current as long as no BLOCKED app changes its call.
LEMMA MessagesStay ==
  ASSUME PromptInv,
         Range(reqs') \subseteq Range(reqs), Awaited' \subseteq Awaited,
         \A i \in Procs : state[i] = "BLOCKED" => op'[i] = op[i] /\ PC'[i] = PC[i]
  PROVE  MessagesAreCurrent'
<1>1. ASSUME NEW m \in Range(reqs) PROVE Asks(m)'
  <2>1. OwnerIdx(m) \in Procs /\ state[OwnerIdx(m)] = "BLOCKED"
    BY OwnerIsBlocked
  <2> QED
    BY <2>1 DEF PromptInv, MessagesAreCurrent, Asks
<1>2. ASSUME NEW m \in Awaited PROVE Answers(m)'
  <2>1. OwnerIdx(m) \in Procs /\ state[OwnerIdx(m)] = "BLOCKED"
    BY OwnerIsBlocked DEF Awaited
  <2> QED
    BY <2>1 DEF PromptInv, MessagesAreCurrent, Answers
<1> QED
  BY <1>1, <1>2 DEF MessagesAreCurrent

\* Steps after which everybody owns as many messages as before, and the same
\* processes are BLOCKED.
LEMMA OwedStays ==
  ASSUME PromptInv, lost' = lost,
         \A i \in Procs : Owed(i)' = Owed(i),
         \A i \in Procs : state'[i] = "BLOCKED" <=> state[i] = "BLOCKED"
  PROVE  OwedAtMost' /\ LossStrandsOne'
<1>1. Stranded' = Stranded
  BY DEF Stranded
<1> QED
  BY <1>1 DEF PromptInv, OwedAtMost, LossStrandsOne, Bit

\* A lost datagram strands the one process that it is about.
LEMMA StrandedByLoss ==
  ASSUME PromptInv, LoseRequest \/ LoseReply
  PROVE  \E i \in Procs \ Stranded : Stranded' = Stranded \cup {i}
<1>1. PICK m \in Range(reqs) \cup Range(reps) :
        \A i \in Procs : Owed(i)' = Owed(i) - Bit(OwnerIdx(m) = i)
  <2>1. CASE LoseRequest
    <3>1. /\ reqs # <<>> /\ reqs' = Tail(reqs) /\ reps' = reps
          /\ UNCHANGED <<fileQueue, dirQueue>>
      BY <2>1 DEF LoseRequest, NetworkFrame, kernelVars
    <3>2. Head(reqs) \in Range(reqs)
      BY <3>1, PromptTypes, QueueElements
    <3>3. ASSUME NEW i \in Procs
          PROVE  Owed(i)' = Owed(i) - Bit(OwnerIdx(Head(reqs)) = i)
      <4>1. OwnedBy(reqs', i) = OwnedBy(reqs, i) - Bit(OwnerIdx(Head(reqs)) = i)
        BY <3>1, OwnedByTail, PromptTypes
      <4>2. /\ OwnedBy(reqs, i) \in Nat /\ OwnedBy(reps, i) \in Nat
            /\ OwnedBy(fileQueue, i) \in Nat /\ OwnedBy(dirQueue, i) \in Nat
        BY OwedFacts, PromptTypes
      <4> DEFINE b == Bit(OwnerIdx(Head(reqs)) = i)
      <4>3. b \in Int
        BY DEF Bit
      <4> HIDE DEF b
      <4>4. OwnedBy(reqs', i) = OwnedBy(reqs, i) - b
        BY <4>1 DEF b
      <4> SUFFICES Owed(i)' = Owed(i) - b
        BY DEF b
      <4> QED
        BY <3>1, <4>2, <4>3, <4>4 DEF Owed
    <3> QED
      BY <3>2, <3>3
  <2>2. CASE LoseReply
    <3>1. /\ reps # <<>> /\ reps' = Tail(reps) /\ reqs' = reqs
          /\ UNCHANGED <<fileQueue, dirQueue>>
      BY <2>2 DEF LoseReply, NetworkFrame, kernelVars
    <3>2. Head(reps) \in Range(reps)
      BY <3>1, PromptTypes, QueueElements
    <3>3. ASSUME NEW i \in Procs
          PROVE  Owed(i)' = Owed(i) - Bit(OwnerIdx(Head(reps)) = i)
      <4>1. OwnedBy(reps', i) = OwnedBy(reps, i) - Bit(OwnerIdx(Head(reps)) = i)
        BY <3>1, OwnedByTail, PromptTypes
      <4>2. /\ OwnedBy(reqs, i) \in Nat /\ OwnedBy(reps, i) \in Nat
            /\ OwnedBy(fileQueue, i) \in Nat /\ OwnedBy(dirQueue, i) \in Nat
        BY OwedFacts, PromptTypes
      <4> DEFINE b == Bit(OwnerIdx(Head(reps)) = i)
      <4>3. b \in Int
        BY DEF Bit
      <4> HIDE DEF b
      <4>4. OwnedBy(reps', i) = OwnedBy(reps, i) - b
        BY <4>1 DEF b
      <4> SUFFICES Owed(i)' = Owed(i) - b
        BY DEF b
      <4> QED
        BY <3>1, <4>2, <4>3, <4>4 DEF Owed
    <3> QED
      BY <3>2, <3>3
  <2> QED
    BY <2>1, <2>2
<1> DEFINE o == OwnerIdx(m)
<1>2. o \in Procs /\ state[o] = "BLOCKED" /\ Owed(o) = 1
  BY <1>1, OwnerIsBlocked
<1>3. state' = state
  BY DEF LoseRequest, LoseReply, NetworkFrame, kernelVars
<1> HIDE DEF o
<1>4. ASSUME NEW i \in Procs
      PROVE  Owed(i)' = 0 <=> Owed(i) = 0 \/ i = o
  <2>1. Owed(i)' = Owed(i) - Bit(o = i) /\ Owed(i) \in Nat
    BY <1>1, OwedFacts, PromptTypes DEF o
  <2> QED
    BY <1>2, <2>1 DEF Bit
<1>5. o \in Procs \ Stranded /\ Stranded' = Stranded \cup {o}
  BY <1>2, <1>3, <1>4 DEF Stranded
<1> QED
  BY <1>5

\* Steps that touch neither the segments nor the messages.
LEMMA QuietStep ==
  ASSUME PromptInv, ExclusionInv',
         UNCHANGED <<segVars, appVars, reqs, reps, fileQueue, dirQueue, lost>>,
         \A i \in Procs :
           /\ state'[i] = state[i] \/ {state[i], state'[i]} \subseteq {"RUNNING", "READY"}
           /\ run'[i] \in {"zombie", "reaped"} <=> run[i] \in {"zombie", "reaped"}
           /\ run[i] = "reaped" => run'[i] = "reaped",
         kpc' \in BootLabels => kpc \in BootLabels,
         kpc = "send" \/ kpc' = "send" => UNCHANGED <<kpc, kidx>>
  PROVE  PromptInv'
<1>1. \A i \in Procs : CallInv(i)'
  BY CallUntouched DEF PromptInv, segVars, appVars
<1>2. MessagesAreCurrent'
  BY MessagesStay DEF Awaited, segVars, appVars
<1>3. OwedAtMost' /\ LossStrandsOne'
  BY OwedStays DEF Owed
<1> QED
  BY <1>1, <1>2, <1>3 DEF PromptInv
----------------------------------------------------------------------------
(* The apps. *)

\* An app that wakes up has been polled, and the boot is over.
LEMMA WakesWhenPolled ==
  ASSUME KernelKeepsUp, overslept = {}, NEW i \in Procs, AppAction(i), Asleep(i)
  PROVE  Polled(i) /\ kpc \notin BootLabels
BY DEF AppAction, MayWake

\* An app changes its own call only.
LEMMA AppFrameFacts ==
  ASSUME PromptInv, NEW i \in Procs, AppAction(i)
  PROVE  /\ run[i] = "running" /\ state[i] \in {"RUNNING", "READY"}
         /\ UNCHANGED <<kernelVars, reqs, reps, lost>>
         /\ \A j \in Procs \ {i} :
              /\ has_request'[j] = has_request[j] /\ has_reply'[j] = has_reply[j]
              /\ op'[j] = op[j] /\ body'[j] = body[j] /\ run'[j] = run[j]
              /\ apc'[j] = apc[j] /\ PC'[j] = PC[j]
<1>1. run[i] = "running" /\ UNCHANGED <<kernelVars, reqs, reps, lost>>
  BY DEF AppAction, AppStep, AppFrame
<1>2. state[i] \in {"RUNNING", "READY"}
  BY <1>1, RunnerIsFree
<1>3. ASSUME NEW j \in Procs \ {i}
      PROVE  /\ has_request'[j] = has_request[j] /\ has_reply'[j] = has_reply[j]
             /\ op'[j] = op[j] /\ body'[j] = body[j] /\ run'[j] = run[j]
             /\ apc'[j] = apc[j] /\ PC'[j] = PC[j]
  BY PromptTypes
     DEF AppAction, AppStep, open_shared_memory, Tick, handle_reply, clear_has_reply,
         clear_fields, NoSyscall, prepare_syscall, AckReply, PostRequest, NextIteration,
         Exit, Goto, segVars, Children
<1> QED
  BY <1>1, <1>2, <1>3

LEMMA OwnCall ==
  ASSUME PromptInv, KernelKeepsUp, overslept = {}, NEW i \in Procs, AppAction(i)
  PROVE  CallInv(i)'
<1> USE ConstantFacts DEF Goto, segVars, Children
<1>1. /\ run[i] = "running" /\ state[i] \in {"RUNNING", "READY"}
      /\ UNCHANGED <<state, kpc, kidx>>
  BY AppFrameFacts DEF kernelVars
<1>2. /\ CallInv(i)
      /\ has_request \in [Procs -> BOOLEAN] /\ has_reply \in [Procs -> BOOLEAN]
      /\ op \in [Procs -> Ops \cup {""}] /\ body \in [Procs -> Bodies]
      /\ run \in [Children -> Status]
      /\ apc \in [Procs -> AppLabels] /\ PC \in [Procs -> 0..MAX]
  BY PromptTypes DEF PromptInv
<1>3. apc[i] # "done" /\ PC[i] \in Nat /\ body[i].tag \in Nat
  <2>1. apc[i] # "done"
    BY <1>1, <1>2 DEF CallInv, EndIsDone
  <2>2. PC[i] \in 0..MAX /\ body[i].tag \in 0..MAX
    BY <1>2, BodyFacts
  <2> QED
    BY <2>1, <2>2
<1>4. Asleep(i) => Polled(i) /\ kpc \notin BootLabels
  BY WakesWhenPolled
<1>5. ~Polled(i) => apc[i] = "nap2"
  BY <1>2 DEF CallInv, PostedSleeps
<1>6. Polled(i)
  <2>1. CASE apc[i] \in {"nap1", "nap2"}
    BY <1>4, <2>1 DEF Asleep
  <2> QED
    BY <1>5, <2>1
<1>7. CASE apc[i] = "start" \/ Asleep(i)
  <2>1. \/ open_shared_memory(i) \/ Tick(i) \/ NextIteration(i) \/ Exit(i)
    BY <1>7 DEF AppAction, AppStep, Asleep, handle_reply, clear_has_reply, clear_fields,
                NoSyscall, prepare_syscall, AckReply, PostRequest
  <2>2. UNCHANGED <<has_request, has_reply, op, body>> /\ Polled(i)'
    BY <1>1, <1>6, <2>1 DEF open_shared_memory, Tick, NextIteration, Exit, Polled
  <2>3. CASE open_shared_memory(i)
    BY <1>1, <1>2, <2>2, <2>3
       DEF open_shared_memory, CallInv, PostedSleeps, SentOnce, BlockedSleeps, EndIsDone,
           BootIsEarly, PreparedCall, ReplyIsWhole, PCStarted
  <2>4. CASE Tick(i)
    <3>1. PC'[i] = PC[i] + 1 /\ apc[i] = "nap1" /\ apc'[i] = "reply" /\ UNCHANGED run
      BY <1>2, <2>4 DEF Tick
    <3>2. kpc \notin BootLabels
      BY <1>4, <3>1 DEF Asleep
    <3>3. PC'[i] >= 1 /\ \A t \in Nat : t <= PC[i] => t < PC'[i] /\ t <= PC'[i]
      BY <1>3, <3>1
    <3>4. ReplyIsWhole(i)' /\ PCStarted(i)'
      BY <1>1, <1>2, <1>3, <2>2, <3>1, <3>3 DEF CallInv, ReplyIsWhole, PCStarted
    <3> QED
      BY <1>1, <1>2, <2>2, <3>1, <3>2, <3>4
         DEF CallInv, PostedSleeps, SentOnce, BlockedSleeps, EndIsDone, BootIsEarly, PreparedCall
  <2>5. CASE NextIteration(i)
    BY <1>1, <1>2, <1>3, <1>4, <2>2, <2>5
       DEF NextIteration, Asleep, CallInv, PostedSleeps, SentOnce, BlockedSleeps,
           EndIsDone, BootIsEarly, PreparedCall, ReplyIsWhole, PCStarted
  <2>6. CASE Exit(i)
    BY <1>1, <1>2, <1>3, <1>4, <2>2, <2>6
       DEF Exit, Asleep, CallInv, PostedSleeps, SentOnce, BlockedSleeps, EndIsDone,
           BootIsEarly, PreparedCall, ReplyIsWhole, PCStarted
  <2> QED
    BY <2>1, <2>3, <2>4, <2>5, <2>6
<1>8. CASE apc[i] # "start" /\ ~Asleep(i)
  <2>1. \/ handle_reply(i) \/ clear_has_reply(i) \/ clear_fields(i) \/ NoSyscall(i)
        \/ prepare_syscall(i) \/ AckReply(i) \/ PostRequest(i)
    BY <1>8 DEF AppAction, AppStep, Asleep, open_shared_memory, Tick, NextIteration, Exit
  <2>2. kpc \notin BootLabels /\ PC[i] >= 1
    BY <1>2, <1>8 DEF CallInv, BootIsEarly, PCStarted, Asleep
  <2>3. UNCHANGED <<PC, run>> /\ apc'[i] \notin {"start", "nap1", "done"}
    BY <1>2, <2>1 DEF handle_reply, clear_has_reply, clear_fields, NoSyscall,
                      prepare_syscall, AckReply, PostRequest
  <2>4. SentOnce(i)' /\ BlockedSleeps(i)' /\ EndIsDone(i)' /\ BootIsEarly(i)' /\ PCStarted(i)'
    BY <1>1, <1>2, <1>3, <1>6, <2>2, <2>3
       DEF CallInv, SentOnce, BlockedSleeps, EndIsDone, BootIsEarly, PCStarted, Polled
  <2>5. CASE PostRequest(i)
    <3>1. ~has_reply[i] /\ body[i] = Args(PC[i]) /\ op[i] \in Ops
      BY <1>1, <1>2, <2>5 DEF PostRequest, CallInv, ReplyIsWhole, PreparedCall
    <3> QED
      BY <1>1, <1>2, <2>3, <2>4, <2>5, <3>1
         DEF PostRequest, CallInv, PostedSleeps, PreparedCall, ReplyIsWhole
  <2>6. CASE ~PostRequest(i)
    <3>1. Polled(i)'
      BY <1>1, <1>2, <1>6, <2>1, <2>6
         DEF handle_reply, clear_has_reply, clear_fields, NoSyscall, prepare_syscall,
             AckReply, Polled
    <3>2. PreparedCall(i)'
      BY <1>2, <2>1, <2>3, <2>6
         DEF handle_reply, clear_has_reply, clear_fields, NoSyscall, prepare_syscall,
             AckReply, CallInv, PreparedCall
    <3>3. ReplyIsWhole(i)'
      BY <1>1, <1>2, <2>1, <2>3, <2>6
         DEF handle_reply, clear_has_reply, clear_fields, NoSyscall, prepare_syscall,
             AckReply, CallInv, ReplyIsWhole
    <3> QED
      BY <2>4, <3>1, <3>2, <3>3 DEF CallInv, PostedSleeps
  <2> QED
    BY <2>5, <2>6
<1> QED
  BY <1>7, <1>8

LEMMA AppPrompt ==
  ASSUME PromptInv, ExclusionInv', KernelKeepsUp, overslept = {},
         NEW i \in Procs, AppAction(i)
  PROVE  PromptInv'
<1>1. /\ state[i] \in {"RUNNING", "READY"}
      /\ UNCHANGED <<kpc, kidx, state, reqs, reps, fileQueue, dirQueue, lost>>
  BY AppFrameFacts DEF kernelVars
<1>2. CallInv(i)'
  BY OwnCall
<1>3. \A j \in Procs \ {i} : CallInv(j)'
  BY <1>1, AppFrameFacts, CallUntouched DEF PromptInv
<1>4. MessagesAreCurrent'
  BY <1>1, AppFrameFacts, MessagesStay DEF Awaited
<1>5. OwedAtMost' /\ LossStrandsOne'
  BY <1>1, OwedStays DEF Owed
<1> QED
  BY <1>2, <1>3, <1>4, <1>5 DEF PromptInv
----------------------------------------------------------------------------
(* The environment. *)

LEMMA EnvironmentPrompt ==
  ASSUME PromptInv, ExclusionInv', ICAction \/ Sigint \/ UNCHANGED vars
  PROVE  PromptInv'
<1>1. UNCHANGED <<segVars, appVars, state, reqs, reps, fileQueue, dirQueue, lost>>
  BY DEF ICAction, InterControllerStep, ICFrame, Sigint, sigintHandler, machineVars,
         kernelVars, vars, QueueVars, segVars, envVars
<1>2. \A i \in Procs : run'[i] = run[i]
  BY PromptTypes, ConstantFacts
     DEF ICAction, InterControllerStep, LoopTest, TimerIrq, FileIrq, NoFileIrq, DirIrq,
         NoDirIrq, Children, Sigint, sigintHandler, machineVars, vars
<1>3. UNCHANGED <<kpc, kidx>> \/ (kpc = "sleeping" /\ kpc' = "check")
  BY DEF ICAction, Sigint, sigintHandler, At, Enter, kernelVars, vars
<1> QED
  BY <1>1, <1>2, <1>3, QuietStep DEF BootLabels

LEMMA NetworkPrompt ==
  ASSUME PromptInv, ExclusionInv', ServerAction \/ LoseRequest \/ LoseReply
  PROVE  PromptInv'
<1>1. UNCHANGED <<segVars, appVars, kpc, kidx, state, run, fileQueue, dirQueue>>
  BY DEF ServerAction, LoseRequest, LoseReply, NetworkFrame, kernelVars
<1>2. \A i \in Procs : CallInv(i)'
  BY <1>1, CallUntouched DEF PromptInv, segVars, appVars
<1>3. CASE ServerAction
  <2> DEFINE m == [Head(reqs) EXCEPT !.body = Answer(Head(reqs).body.tag)]
  <2>1. reqs # <<>> /\ reqs' = Tail(reqs) /\ reps' = Append(reps, m) /\ UNCHANGED lost
    BY <1>3 DEF ServerAction
  <2>2. Head(reqs) \in Range(reqs) /\ Range(reqs') \subseteq Range(reqs)
    <3>1. reqs \in Seq(Datagram) /\ reqs # <<>> /\ reqs' = Tail(reqs)
      BY <2>1, PromptTypes
    <3> QED
      BY <3>1, QueueElements
  <2>3. Head(reqs) \in Datagram /\ Asks(Head(reqs))
    <3>1. reqs \in {reqs, reps, fileQueue, dirQueue}
      OBVIOUS
    <3> QED
      BY <2>2, <3>1, OwnerIsBlocked DEF PromptInv, MessagesAreCurrent
  <2>4. m \in Datagram /\ Answers(m)
    <3>1. Head(reqs).body.tag = PC[OwnerIdx(Head(reqs))]
      BY <2>3 DEF Asks, Args
    <3>2. Head(reqs).body.tag \in 0..MAX
      BY <2>3, BodyFacts DEF Datagram
    <3> QED
      BY <2>3, <3>1, <3>2, BodyFacts DEF Asks, Answers, Datagram, OwnerIdx
  <2> HIDE DEF m
  <2>5. Range(reps') = Range(reps) \cup {m}
    BY <2>1, <2>4, PromptTypes, QueueElements
  <2>6. \A x \in Datagram : (Asks(x) => Asks(x)') /\ (Answers(x) => Answers(x)')
    BY <1>1 DEF Asks, Answers, segVars, appVars
  <2>7. MessagesAreCurrent'
    <3>1. ASSUME NEW x \in Range(reqs') PROVE Asks(x)'
      <4>1. x \in Range(reqs) /\ x \in Datagram
        BY <2>2, PromptTypes, QueueElements
      <4> QED
        BY <2>6, <4>1 DEF PromptInv, MessagesAreCurrent
    <3>2. ASSUME NEW x \in Awaited' PROVE Answers(x)'
      <4>1. CASE x = m
        BY <2>4, <2>6, <4>1
      <4>2. CASE x # m
        <5>1. x \in Awaited
          BY <1>1, <2>5, <3>2, <4>2 DEF Awaited
        <5>2. x \in Datagram
          BY <5>1, OwnerIsBlocked DEF Awaited
        <5> QED
          BY <2>6, <5>1, <5>2 DEF PromptInv, MessagesAreCurrent
      <4> QED
        BY <4>1, <4>2
    <3> QED
      BY <3>1, <3>2 DEF MessagesAreCurrent
  <2>8. OwedAtMost' /\ LossStrandsOne'
    BY <1>1, <1>3, <2>1, PromptTypes, OwedAfterServer, OwedStays
  <2> QED
    BY <1>2, <2>7, <2>8 DEF PromptInv
<1>4. CASE LoseRequest \/ LoseReply
  <2>1. Range(reqs') \subseteq Range(reqs) /\ Range(reps') \subseteq Range(reps)
    BY <1>4, PromptTypes, QueueElements DEF LoseRequest, LoseReply
  <2>2. MessagesAreCurrent'
    BY <1>1, <2>1, MessagesStay DEF Awaited, segVars, appVars
  <2>3. LossStrandsOne'
    <3>1. PICK i \in Procs \ Stranded : Stranded' = Stranded \cup {i}
      BY <1>4, StrandedByLoss
    <3>2. Cardinality(Stranded \cup {i}) = Cardinality(Stranded) + 1
      BY <3>1, StrandedFacts, FS_AddElement
    <3>3. lost' = lost + 1
      BY <1>4 DEF LoseRequest, LoseReply
    <3> QED
      BY <3>1, <3>2, <3>3 DEF PromptInv, LossStrandsOne
  <2>4. \A i \in Procs : Owed(i) \in Nat /\ Owed(i)' <= Owed(i)
    BY <1>4, PromptTypes, OwedAfterLoss, OwedFacts
  <2>5. \A i \in Procs : Owed(i)' \in Nat
    BY OwedFactsPrimed DEF ExclusionInv
  <2>6. OwedAtMost' /\ LossStrandsOne'
    BY <1>1, <2>3, <2>4, <2>5 DEF PromptInv, OwedAtMost, Bit
  <2> QED
    BY <1>2, <2>2, <2>6 DEF PromptInv
<1> QED
  BY <1>3, <1>4
----------------------------------------------------------------------------
(* The kernel. *)

\* The steps that touch neither the segments nor the messages.
LEMMA QuietKernelPrompt ==
  ASSUME PromptInv, ExclusionInv', UNCHANGED <<appVars, envVars>>,
         \/ StopInterController \/ ForkApp \/ HaltApp \/ LaunchInterController
         \/ NothingToTake \/ Pause \/ Sleep \/ Resume
         \/ NotTerminated \/ LoopOrBreak \/ FinishInterController \/ WaitInterController
         \/ PollReplies /\ NoReply
  PROVE  PromptInv'
<1> USE DEF At, Enter, NextIndex
<1>1. UNCHANGED <<segVars, appVars, state, reqs, reps, fileQueue, dirQueue, lost>>
  BY DEF StopInterController, ForkApp, HaltApp, LaunchInterController, NothingToTake,
         Pause, Sleep, Resume, NotTerminated, LoopOrBreak, FinishInterController,
         WaitInterController, PollReplies, NoReply, machineVars, QueueVars, envVars, segVars
<1>2. kpc # "send" /\ kpc' # "send" /\ (kpc' \in BootLabels => kpc \in BootLabels)
  BY DEF StopInterController, ForkApp, HaltApp, LaunchInterController, NothingToTake,
         Pause, Sleep, Resume, NotTerminated, LoopOrBreak, FinishInterController,
         WaitInterController, PollReplies, BootLabels
<1>3. ASSUME NEW i \in Procs
      PROVE  /\ run'[i] \in {"zombie", "reaped"} <=> run[i] \in {"zombie", "reaped"}
             /\ run[i] = "reaped" => run'[i] = "reaped"
  <2>1. run \in [Children -> Status] /\ i \in Children /\ i # IC
    BY PromptTypes, ConstantFacts DEF Children
  <2>2. CASE ForkApp
    <3>1. apc[i] # "done" /\ (apc[i] = "done" <=> run[i] \in {"zombie", "reaped"})
      BY <2>2 DEF ForkApp, BootLabels, PromptInv, CallInv, BootIsEarly, EndIsDone
    <3> QED
      BY <2>1, <2>2, <3>1 DEF ForkApp
  <2>3. CASE ~ForkApp
    BY <2>1, <2>3
       DEF StopInterController, HaltApp, LaunchInterController, NothingToTake, Pause,
           Sleep, Resume, NotTerminated, LoopOrBreak, FinishInterController,
           WaitInterController, PollReplies, machineVars, Stopped, Resumed
  <2> QED
    BY <2>2, <2>3
<1> QED
  BY <1>1, <1>2, <1>3, QuietStep

LEMMA TimeSlicePrompt ==
  ASSUME PromptInv, ExclusionInv', UNCHANGED <<appVars, envVars>>, PollIrq, timeSlice,
         UNCHANGED <<segVars, QueueVars>>
  PROVE  PromptInv'
<1>1. /\ UNCHANGED <<reqs, reps, fileQueue, dirQueue, lost>>
      /\ kpc = "irq" /\ kpc' = "recv"
  BY DEF PollIrq, At, Enter, QueueVars, envVars
<1>2. run \in [Children -> Status] /\ state \in [Procs -> States]
  BY PromptTypes
<1>3. /\ PreemptedState \in [Procs -> States] /\ PreemptedRun \in [Children -> Status]
      /\ \A i \in Procs :
           /\ \/ PreemptedState[i] = state[i]
              \/ state[i] = "RUNNING" /\ PreemptedState[i] = "READY"
           /\ \/ PreemptedRun[i] = run[i]
              \/ run[i] = "running" /\ PreemptedRun[i] = "stopped"
  BY <1>2, SignalFacts
     DEF PreemptedState, PreemptedRun, Preempts, Stopped, Children, States
<1>4. ASSUME NEW i \in Procs
      PROVE  /\ state'[i] = state[i] \/ {state[i], state'[i]} \subseteq {"RUNNING", "READY"}
             /\ run'[i] \in {"zombie", "reaped"} <=> run[i] \in {"zombie", "reaped"}
             /\ run[i] = "reaped" => run'[i] = "reaped"
  <2>1. CASE state' = PreemptedState /\ run' = PreemptedRun
    BY <1>3, <2>1
  <2>2. CASE \E next \in Procs :
               /\ PreemptedState[next] = "READY"
               /\ state' = [PreemptedState EXCEPT ![next] = "RUNNING"]
               /\ run' = [PreemptedRun EXCEPT ![next] = Resumed(@)]
    BY <1>3, <2>2 DEF Resumed, Children
  <2> QED
    BY <2>1, <2>2 DEF timeSlice, IsNextReady
<1> QED
  BY <1>1, <1>4, QuietStep DEF BootLabels

\* An interrupt that delivers reply m: its owner was BLOCKED, polled and asleep
\* in the iteration the reply is about.
LEMMA DeliverPrompt ==
  ASSUME PromptInv, ExclusionInv', UNCHANGED <<appVars, envVars>>, PollIrq,
         NEW m \in Datagram, Delivers(m)
  PROVE  PromptInv'
<1> DEFINE i == OwnerIdx(m)
<1>1. m \in Awaited
  BY DEF Delivers, Awaited
<1>2. i \in Procs /\ state[i] = "BLOCKED" /\ Owed(i) = 1
  BY <1>1, OwnerIsBlocked DEF Awaited
<1>3. m.body = Answer(PC[i])
  BY <1>1 DEF PromptInv, MessagesAreCurrent, Answers
<1> HIDE DEF i
<1>4. /\ has_reply' = [has_reply EXCEPT ![i] = TRUE]
      /\ body' = [body EXCEPT ![i] = Answer(PC[i])]
      /\ state' = [state EXCEPT ![i] = "READY"]
      /\ UNCHANGED <<has_request, op, run>>
  BY <1>3 DEF Delivers, Deliver, i
<1>5. kpc = "irq" /\ kpc' = "recv" /\ UNCHANGED <<apc, PC, lost, reqs, reps>>
  BY DEF PollIrq, At, Enter, appVars, envVars
<1>6. /\ has_reply \in [Procs -> BOOLEAN] /\ body \in [Procs -> Bodies]
      /\ state \in [Procs -> States] /\ PC[i] \in Nat
  <2>1. PC[i] \in 0..MAX
    BY <1>2, PromptTypes
  <2>2. PC[i] \in Nat
    BY <2>1
  <2> QED
    BY <2>2, PromptTypes
<1>7. CallInv(i)'
  <2>1. Polled(i) /\ Polled(i)' /\ apc[i] = "nap2" /\ PC[i] >= 1 /\ CallInv(i)
    BY <1>2, <1>4, <1>5
       DEF PromptInv, CallInv, PostedSleeps, BlockedSleeps, PCStarted, Polled
  <2>2. /\ has_reply'[i] /\ state'[i] = "READY"
        /\ body'[i].kind = "rep" /\ body'[i].tag = PC[i]
    BY <1>2, <1>4, <1>6 DEF Answer
  <2>3. ReplyIsWhole(i)'
    BY <1>5, <1>6, <2>1, <2>2 DEF ReplyIsWhole
  <2> QED
    BY <1>4, <1>5, <2>1, <2>2, <2>3
       DEF CallInv, PostedSleeps, SentOnce, BlockedSleeps, EndIsDone, BootIsEarly,
           PreparedCall, PCStarted, BootLabels
<1>8. ASSUME NEW j \in Procs \ {i} PROVE CallInv(j)'
  <2>1. has_reply'[j] = has_reply[j] /\ body'[j] = body[j] /\ state'[j] = state[j]
    BY <1>4, <1>6
  <2> QED
    BY <1>4, <1>5, <2>1, CallUntouched DEF PromptInv, BootLabels
<1>9. MessagesAreCurrent'
  <2>1. Awaited' \subseteq Awaited
    BY <1>5 DEF Awaited, Delivers
  <2> QED
    BY <1>4, <1>5, <2>1, MessagesStay
<1>10. ASSUME NEW j \in Procs PROVE Owed(j)' = IF j = i THEN 0 ELSE Owed(j)
  <2>1. Owed(j)' = Owed(j) - Bit(OwnerIdx(m) = j) /\ Owed(j) \in Nat
    BY PromptTypes, OwedFacts DEF Delivers
  <2> QED
    BY <1>2, <2>1 DEF Bit, i
<1>11. OwedAtMost' /\ LossStrandsOne'
  <2>1. OwedAtMost'
    BY <1>2, <1>4, <1>5, <1>6, <1>10 DEF PromptInv, OwedAtMost, Bit
  <2>2. Stranded' = Stranded
    BY <1>2, <1>4, <1>6, <1>10 DEF Stranded
  <2> QED
    BY <1>5, <2>1, <2>2 DEF PromptInv, LossStrandsOne
<1> QED
  BY <1>7, <1>8, <1>9, <1>11 DEF PromptInv

LEMMA InterruptPrompt ==
  ASSUME PromptInv, ExclusionInv', UNCHANGED <<appVars, envVars>>, PollIrq
  PROVE  PromptInv'
<1>1. TypeInv /\ TypeInv'
  BY PromptTypes DEF ExclusionInv
<1>2. CASE UNCHANGED <<segVars, run, state, current, QueueVars>>
  <2>1. UNCHANGED <<segVars, appVars, state, run, reqs, reps, fileQueue, dirQueue, lost>>
    BY <1>2 DEF PollIrq, QueueVars, envVars
  <2>2. kpc = "irq" /\ kpc' = "recv"
    BY DEF PollIrq, At, Enter
  <2> QED
    BY <2>1, <2>2, QuietStep DEF BootLabels
<1>3. NoIrq => UNCHANGED <<segVars, run, state, current, QueueVars>>
  BY DEF NoIrq
<1>4. NoIrq \/ handleIrqFifo
  BY DEF PollIrq
<1> QED
  BY <1>1, <1>2, <1>3, <1>4, InterruptCases, TimeSlicePrompt, DeliverPrompt

\* A reply arrives: its owner stays BLOCKED until the interrupt.
LEMMA ReceivePrompt ==
  ASSUME PromptInv, ExclusionInv', UNCHANGED <<appVars, envVars>>,
         PollReplies, recvUdpReply, NEW m \in {Head(reps)}
  PROVE  PromptInv'
<1> DEFINE i == OwnerIdx(m)
<1>1. TypeInv /\ TypeInv' /\ reps \in Seq(Datagram) /\ reps # <<>>
  BY PromptTypes DEF ExclusionInv, recvUdpReply
<1>2. m \in Range(reps) /\ m \in Datagram /\ Range(Tail(reps)) \subseteq Range(reps)
  BY <1>1, QueueElements
<1>3. i \in Procs /\ state[i] = "BLOCKED"
  <2>1. reps \in {reqs, reps, fileQueue, dirQueue}
    OBVIOUS
  <2> QED
    BY <1>2, <2>1, OwnerIsBlocked
<1>4. /\ reps' = Tail(reps)
      /\ has_reply' = [has_reply EXCEPT ![i] = TRUE]
      /\ body' = [body EXCEPT ![i] = PartOf(m.body)]
      /\ \/ fileQueue' = Append(fileQueue, m) /\ UNCHANGED dirQueue
         \/ dirQueue' = Append(dirQueue, m) /\ UNCHANGED fileQueue
  BY DEF recvUdpReply
<1> HIDE DEF i
<1>5. /\ kpc = "recv" /\ kpc' = "scan"
      /\ UNCHANGED <<has_request, op, run, reqs, state, apc, PC, lost>>
  BY DEF PollReplies, At, Enter, appVars, envVars
<1>6. has_reply \in [Procs -> BOOLEAN] /\ body \in [Procs -> Bodies]
  BY PromptTypes
<1>7. CallInv(i)'
  <2>1. Polled(i) /\ Polled(i)' /\ apc[i] = "nap2" /\ CallInv(i)
    BY <1>3, <1>5 DEF PromptInv, CallInv, PostedSleeps, BlockedSleeps, Polled
  <2> QED
    BY <1>3, <1>5, <2>1
       DEF CallInv, PostedSleeps, SentOnce, BlockedSleeps, EndIsDone, BootIsEarly,
           PreparedCall, ReplyIsWhole, PCStarted, BootLabels
<1>8. ASSUME NEW j \in Procs \ {i} PROVE CallInv(j)'
  <2>1. has_reply'[j] = has_reply[j] /\ body'[j] = body[j]
    BY <1>4, <1>6
  <2> QED
    BY <1>5, <2>1, CallUntouched DEF PromptInv, BootLabels
<1>9. MessagesAreCurrent'
  <2>1. Range(reps') \subseteq Range(reps)
    BY <1>2, <1>4
  <2>2. /\ Range(Append(fileQueue, m)) = Range(fileQueue) \cup {m}
        /\ Range(Append(dirQueue, m)) = Range(dirQueue) \cup {m}
    BY <1>2, PromptTypes, QueueElements
  <2>3. /\ Range(fileQueue') \subseteq Range(fileQueue) \cup {m}
        /\ Range(dirQueue') \subseteq Range(dirQueue) \cup {m}
    BY <1>4, <2>2
  <2>4. Awaited' \subseteq Awaited
    BY <1>2, <2>1, <2>3 DEF Awaited
  <2> QED
    BY <1>5, <2>4, MessagesStay
<1>10. \A j \in Procs : Owed(j)' = Owed(j)
  BY <1>1, OwedAfterReceive
<1>11. OwedAtMost' /\ LossStrandsOne'
  BY <1>5, <1>10, OwedStays
<1> QED
  BY <1>7, <1>8, <1>9, <1>11 DEF PromptInv

\* The request leaves the segment, and is what the app is still waiting for.
LEMMA TakeRequestPrompt ==
  ASSUME PromptInv, ExclusionInv', UNCHANGED <<appVars, envVars>>, TakeRequest,
         NEW i \in {kidx}
  PROVE  PromptInv'
<1>1. /\ kpc = "scan" /\ kpc' = "send" /\ has_request[i] /\ kidx' = i
      /\ has_request' = [has_request EXCEPT ![i] = FALSE]
      /\ UNCHANGED <<has_reply, op, body, run, reqs, reps, kidx, state, fileQueue,
                     dirQueue, apc, PC, lost>>
  BY DEF TakeRequest, At, QueueVars, appVars, envVars
<1>2. has_request \in [Procs -> BOOLEAN] /\ i \in Procs
  BY PromptTypes
<1>3. CallInv(i)'
  <2>1. ~Polled(i) /\ CallInv(i) /\ ~has_request'[i]
    BY <1>1, <1>2 DEF PromptInv, Polled
  <2> QED
    BY <1>1, <2>1
       DEF CallInv, PostedSleeps, SentOnce, BlockedSleeps, EndIsDone, BootIsEarly,
           PreparedCall, ReplyIsWhole, PCStarted, BootLabels
<1>4. ASSUME NEW j \in Procs \ {i} PROVE CallInv(j)'
  <2>1. has_request'[j] = has_request[j]
    BY <1>1, <1>2
  <2> QED
    BY <1>1, <2>1, CallUntouched DEF PromptInv, BootLabels
<1>5. MessagesAreCurrent'
  BY <1>1, MessagesStay DEF Awaited
<1>6. OwedAtMost' /\ LossStrandsOne'
  BY <1>1, OwedStays DEF Owed
<1> QED
  BY <1>3, <1>4, <1>5, <1>6 DEF PromptInv

\* The request is sent: from now on its app is BLOCKED and owed a message.
LEMMA SendRequestPrompt ==
  ASSUME PromptInv, ExclusionInv', UNCHANGED <<appVars, envVars>>, SendRequest,
         NEW i \in {kidx}, NEW m \in {buildReqFromShm(i)}
  PROVE  PromptInv'
<1>1. /\ kpc = "send" /\ kpc' \in {"scan", "pause"}
      /\ reqs' = Append(reqs, m)
      /\ run' = [run EXCEPT ![i] = Stopped(@)]
      /\ state' = [state EXCEPT ![i] = "BLOCKED"]
      /\ UNCHANGED <<has_request, has_reply, op, body, reps, fileQueue, dirQueue, apc, PC, lost>>
  BY DEF SendRequest, At, NextIndex, Enter, QueueVars, segVars, appVars, envVars
<1>2. /\ TypeInv /\ i \in Procs /\ i \in Children
      /\ run \in [Children -> Status] /\ state \in [Procs -> States]
  BY PromptTypes DEF Children
<1>3. CallInv(i) /\ ~has_request[i] /\ ~Polled(i)
  BY <1>1, <1>2 DEF PromptInv, CallInv, SentOnce, Polled
<1>4. apc[i] = "nap2" /\ state[i] # "BLOCKED" /\ body[i] = Args(PC[i]) /\ op[i] \in Ops
  BY <1>3 DEF CallInv, PostedSleeps
<1>5. m \in Datagram /\ OwnerIdx(m) = i /\ m.op = op[i] /\ m.body = body[i]
  <2>1. op[i] \in Ops \cup {""} /\ body[i] \in Bodies
    BY <1>2, PromptTypes
  <2>2. m = [owner |-> i + 1, op |-> op[i], body |-> body[i]]
    BY DEF buildReqFromShm
  <2>3. m \in Datagram
    BY <1>2, PromptTypes, RequestFacts
  <2>4. OwnerIdx(m) = i
    BY <1>2, <2>2, IndexOwner DEF OwnerIdx
  <2> QED
    BY <2>2, <2>3, <2>4
<1>6. CallInv(i)'
  <2>1. Polled(i)' /\ state'[i] = "BLOCKED"
    BY <1>1, <1>2, <1>3 DEF Polled
  <2>2. run'[i] \in {"zombie", "reaped"} <=> run[i] \in {"zombie", "reaped"}
    BY <1>1, <1>2 DEF Stopped
  <2> QED
    BY <1>1, <1>3, <1>4, <2>1, <2>2
       DEF CallInv, PostedSleeps, SentOnce, BlockedSleeps, EndIsDone, BootIsEarly,
           PreparedCall, ReplyIsWhole, PCStarted, BootLabels
<1>7. ASSUME NEW j \in Procs \ {i} PROVE CallInv(j)'
  <2>1. run'[j] = run[j] /\ state'[j] = state[j]
    BY <1>1, <1>2 DEF Children
  <2>2. ~(kpc = "send" /\ kidx = j) /\ ~(kpc' = "send" /\ kidx' = j)
    BY <1>1
  <2> QED
    BY <1>1, <2>1, <2>2, CallUntouched DEF PromptInv, BootLabels
<1>8. MessagesAreCurrent'
  <2>1. Range(reqs') = Range(reqs) \cup {m}
    BY <1>1, <1>5, PromptTypes, QueueElements
  <2>2. ASSUME NEW x \in Range(reqs') PROVE Asks(x)'
    <3>1. CASE x = m
      BY <1>1, <1>4, <1>5, <3>1 DEF Asks
    <3>2. CASE x # m
      BY <1>1, <2>1, <2>2, <3>2 DEF PromptInv, MessagesAreCurrent, Asks
    <3> QED
      BY <3>1, <3>2
  <2>3. ASSUME NEW x \in Awaited' PROVE Answers(x)'
    BY <1>1, <2>3 DEF PromptInv, MessagesAreCurrent, Answers, Awaited
  <2> QED
    BY <2>2, <2>3 DEF MessagesAreCurrent
<1>9. ASSUME NEW j \in Procs PROVE Owed(j)' = Owed(j) + Bit(j = i) /\ Owed(j) \in Nat
  BY <1>2, OwedAfterSend, OwedFacts DEF Bit
<1>10. Owed(i) = 0
  BY <1>2, <1>4, <1>9 DEF PromptInv, OwedAtMost, Bit
<1>11. OwedAtMost' /\ LossStrandsOne'
  <2>1. OwedAtMost'
    BY <1>1, <1>2, <1>9, <1>10 DEF PromptInv, OwedAtMost, Bit
  <2>2. \A j \in Procs : Owed(j)' = IF j = i THEN 1 ELSE Owed(j)
    BY <1>9, <1>10 DEF Bit
  <2>3. Stranded' = Stranded
    BY <1>1, <1>2, <1>4, <2>2 DEF Stranded
  <2> QED
    BY <1>1, <2>1, <2>3 DEF PromptInv, LossStrandsOne
<1> QED
  BY <1>6, <1>7, <1>8, <1>11 DEF PromptInv

\* Only an app that is not BLOCKED terminates, so reaping it changes nobody's
\* account.
LEMMA ReapPrompt ==
  ASSUME PromptInv, ExclusionInv', UNCHANGED <<appVars, envVars>>, Reap,
         NEW i \in {kidx}
  PROVE  PromptInv'
<1>1. /\ kpc = "check" /\ kpc' \in {"check", "loop"} /\ run[i] = "zombie"
      /\ run' = [run EXCEPT ![i] = "reaped"]
      /\ state' = [state EXCEPT ![i] = "TERMINATED"]
      /\ UNCHANGED <<segVars, reqs, reps, fileQueue, dirQueue, apc, PC, lost>>
  BY DEF Reap, At, NextIndex, Enter, QueueVars, appVars, envVars
<1>2. /\ i \in Procs /\ i \in Children
      /\ run \in [Children -> Status] /\ state \in [Procs -> States]
  BY PromptTypes DEF Children
<1>3. CallInv(i) /\ apc[i] = "done" /\ state[i] # "BLOCKED" /\ Polled(i)
  BY <1>1, <1>2 DEF PromptInv, CallInv, EndIsDone, BlockedSleeps, PostedSleeps
<1>4. CallInv(i)'
  <2>1. Polled(i)' /\ run'[i] = "reaped" /\ state'[i] = "TERMINATED"
    BY <1>1, <1>2, <1>3 DEF Polled, segVars
  <2> QED
    BY <1>1, <1>3, <2>1
       DEF CallInv, PostedSleeps, SentOnce, BlockedSleeps, EndIsDone, BootIsEarly,
           PreparedCall, ReplyIsWhole, PCStarted, BootLabels, segVars
<1>5. ASSUME NEW j \in Procs \ {i} PROVE CallInv(j)'
  <2>1. run'[j] = run[j] /\ state'[j] = state[j]
    BY <1>1, <1>2 DEF Children
  <2> QED
    BY <1>1, <2>1, CallUntouched DEF PromptInv, BootLabels, segVars
<1>6. MessagesAreCurrent'
  BY <1>1, MessagesStay DEF Awaited, segVars
<1>7. OwedAtMost' /\ LossStrandsOne'
  <2>1. \A j \in Procs : state'[j] = "BLOCKED" <=> state[j] = "BLOCKED"
    BY <1>1, <1>2, <1>3
  <2> QED
    BY <1>1, <2>1, OwedStays DEF Owed
<1> QED
  BY <1>4, <1>5, <1>6, <1>7 DEF PromptInv

LEMMA KernelPrompt ==
  ASSUME PromptInv, ExclusionInv', KernelAction
  PROVE  PromptInv'
<1>1. UNCHANGED <<appVars, envVars>> /\ KernelStep
  BY DEF KernelAction
<1>2. CASE PollReplies
  BY <1>1, <1>2, QuietKernelPrompt, ReceivePrompt DEF PollReplies
<1> QED
  BY <1>1, <1>2, QuietKernelPrompt, InterruptPrompt, TakeRequestPrompt, SendRequestPrompt,
     ReapPrompt DEF KernelStep
----------------------------------------------------------------------------
(* With at most one Ctrl-C, no usleep runs out during a pause(). *)

\* The kernel only pauses after a Ctrl-C, so one that finds it asleep in
\* pause() is at least the second.
Calm ==
  /\ overslept = {}
  /\ sigints \in Nat
  /\ pause_flag => sigints >= 1
  /\ kpc \in {"presleep", "sleeping"} => pause_flag

LEMMA CalmStep ==
  ASSUME MaxSigint <= 1, Calm, [Next]_vars
  PROVE  Calm'
<1> USE DEF Calm
<1>1. CASE UNCHANGED vars \/ Terminated
  BY <1>1 DEF Terminated, vars, kernelVars, envVars
<1>2. CASE Sigint
  <2>1. sigints < MaxSigint /\ sigints' = sigints + 1 /\ MaxSigint \in Nat
    BY <1>2, MaxSigintAssumption DEF Sigint
  <2>2. sigints = 0 /\ sigints' = 1
    BY <2>1
  <2>3. kpc \notin {"presleep", "sleeping"} /\ overslept' = overslept /\ UNCHANGED kpc
    BY <1>2, <2>2 DEF Sigint, sigintHandler, At
  <2> QED
    BY <2>2, <2>3
<1>3. CASE (\E i \in Procs : AppAction(i)) \/ ICAction
  BY <1>3 DEF AppAction, ICAction, kernelVars
<1>4. CASE ServerAction \/ LoseRequest \/ LoseReply
  BY <1>4 DEF ServerAction, LoseRequest, LoseReply, NetworkFrame, kernelVars
<1>5. CASE KernelAction
  <2>1. KernelStep /\ UNCHANGED <<overslept, sigints>>
    BY <1>5 DEF KernelAction, envVars
  <2>2. /\ UNCHANGED pause_flag
        /\ kpc' \in {"presleep", "sleeping"} =>
             kpc \in {"presleep", "sleeping"} \/ pause_flag
    BY <2>1
       DEF KernelStep, StopInterController, ForkApp, HaltApp, LaunchInterController,
           PollIrq, PollReplies, NothingToTake, TakeRequest, SendRequest, Pause, Sleep,
           Resume, Reap, NotTerminated, LoopOrBreak, FinishInterController,
           WaitInterController, At, Enter, NextIndex
  <2> QED
    BY <2>1, <2>2
<1> QED
  BY <1>1, <1>2, <1>3, <1>4, <1>5 DEF Next

LEMMA CalmInvariant ==
  ASSUME MaxSigint <= 1
  PROVE  Spec => []Calm
<1>1. Init => Calm
  BY DEF Init, KernelInit, Calm
<1> QED
  BY <1>1, CalmStep, PTL DEF Spec

LEMMA PromptStep ==
  ASSUME Prompt, Calm, PromptInv, [Next]_vars
  PROVE  PromptInv'
<1>1. ExclusionInv'
  BY ExclusionStep DEF PromptInv
<1> QED
  BY <1>1, AppPrompt, EnvironmentPrompt, NetworkPrompt, KernelPrompt
     DEF Next, Prompt, Calm, Terminated

LEMMA PromptInvariant ==
  ASSUME Prompt
  PROVE  Spec => [](PromptInv /\ Calm)
<1>1. PromptInv /\ Calm /\ [Next]_vars => PromptInv'
  BY PromptStep
<1>2. Spec => []Calm
  BY CalmInvariant DEF Prompt
<1> QED
  BY <1>1, <1>2, InitPromptInv, PTL DEF Spec
----------------------------------------------------------------------------
(* The reply queues. *)

\* A queue in which nobody owns two messages is no longer than the table.
LEMMA ShortQueue ==
  ASSUME NEW s \in Seq(Datagram), \A i \in Procs : OwnedBy(s, i) <= 1
  PROVE  Len(s) <= N
<1> DEFINE owner == [k \in 1..Len(s) |-> OwnerIdx(s[k])]
<1>1. Len(s) \in Nat /\ \A k \in 1..Len(s) : s[k] \in Datagram
  BY LenProperties
<1>2. owner \in [1..Len(s) -> Procs]
  BY <1>1, OwnerFacts
<1>3. ASSUME NEW j \in 1..Len(s), NEW k \in 1..Len(s), owner[j] = owner[k]
      PROVE  j = k
  <2> DEFINE i == OwnerIdx(s[j])
  <2>1. i \in Procs
    BY <1>1, OwnerFacts
  <2>2. j \in Positions(s, i) /\ k \in Positions(s, i)
    BY <1>3 DEF Positions
  <2> HIDE DEF i
  <2>3. /\ IsFiniteSet(Positions(s, i)) /\ Cardinality(Positions(s, i)) \in Nat
        /\ Cardinality(Positions(s, i)) <= 1
    BY <2>1, PositionsFinite
  <2>4. Cardinality(Positions(s, i)) = 1
    BY <2>2, <2>3, FS_EmptySet
  <2>5. PICK x : Positions(s, i) = {x}
    BY <2>3, <2>4, FS_Singleton
  <2> QED
    BY <2>2, <2>5
<1> HIDE DEF owner
<1>4. owner \in Injection(1..Len(s), Procs)
  BY <1>2, <1>3 DEF Injection, IsInjective
<1>5. IsFiniteSet(Procs) /\ Cardinality(Procs) = N
  BY StrandedFacts
<1>6. Cardinality(1..Len(s)) <= Cardinality(Procs)
  BY <1>4, <1>5, FS_Injection
<1>7. Cardinality(1..Len(s)) = Len(s)
  <2>1. Cardinality(1..Len(s)) = IF 1 > Len(s) THEN 0 ELSE Len(s) - 1 + 1
    BY <1>1, FS_Interval
  <2> QED
    BY <1>1, <2>1
<1> QED
  BY <1>5, <1>6, <1>7

\* enqueueReply, which does not check its bound, never needs to: with losses or
\* without, a process has at most one reply waiting.
THEOREM QueuesNeverOverflow ==
  ASSUME Prompt
  PROVE  Spec => []QueuesFit
<1>1. ASSUME PromptInv PROVE QueuesFit
  <2>1. ASSUME NEW i \in Procs
        PROVE  OwnedBy(fileQueue, i) <= 1 /\ OwnedBy(dirQueue, i) <= 1
    <3>1. Owed(i) <= 1
      <4>1. Owed(i) \in Nat
        BY <1>1, OwedFacts, PromptTypes
      <4>2. Owed(i) <= Bit(state[i] = "BLOCKED")
        BY <1>1 DEF PromptInv, OwedAtMost
      <4> QED
        BY <4>1, <4>2 DEF Bit
    <3>2. /\ OwnedBy(reqs, i) \in Nat /\ OwnedBy(reps, i) \in Nat
          /\ OwnedBy(fileQueue, i) \in Nat /\ OwnedBy(dirQueue, i) \in Nat
      BY <1>1, OwedFacts, PromptTypes
    <3> QED
      BY <3>1, <3>2 DEF Owed
  <2> QED
    BY <1>1, <2>1, PromptTypes, ShortQueue DEF QueuesFit
<1> QED
  BY <1>1, PromptInvariant, PTL

\* As long as no datagram is lost, a process is BLOCKED exactly while one
\* message about it is between kernel and server: handleProcessRequests blocks
\* nobody for an answer that is not coming.
THEOREM BlockedIsAlwaysOwed ==
  ASSUME Prompt, MaxLost = 0
  PROVE  Spec => []BlockedIsOwed
<1>1. PromptInv => BlockedIsOwed
  <2> SUFFICES ASSUME PromptInv PROVE BlockedIsOwed
    OBVIOUS
  <2>1. lost \in 0..MaxLost
    BY PromptTypes DEF TypeInv, TypeOK
  <2>2. lost = 0
    BY <2>1
  <2> QED
    BY <2>2, PromptTypes, OwedUnlessLost DEF PromptInv
<1> QED
  BY <1>1, PromptInvariant, PTL
----------------------------------------------------------------------------
(* The process table. *)

\* Which steps of the system change the state of a process, and how.
LEMMA TableChanges ==
  ASSUME PromptInv, [Next]_vars, NEW i \in Procs, state'[i] # state[i]
  PROVE  \/ {state[i], state'[i]} \subseteq {"RUNNING", "READY"} /\ UNCHANGED QueueVars
         \/ state[i] = "BLOCKED" /\ state'[i] = "READY"
         \/ SendRequest /\ kidx = i
         \/ Reap /\ kidx = i
<1>1. state \in [Procs -> States] /\ TypeInv /\ TypeInv'
  BY PromptTypes, TypeInvStep
<1>2. KernelStep
  <2>1. ~UNCHANGED state
    OBVIOUS
  <2> QED
    BY <2>1
       DEF Next, AppAction, ICAction, ServerAction, LoseRequest, LoseReply, NetworkFrame,
           Sigint, sigintHandler, Terminated, vars, kernelVars, KernelAction
<1>3. CASE PollIrq
  <2>1. NoIrq => UNCHANGED <<segVars, run, state, current, QueueVars>>
    BY DEF NoIrq
  <2>2. NoIrq \/ handleIrqFifo
    BY <1>3 DEF PollIrq
  <2>3. ~UNCHANGED <<segVars, run, state, current, QueueVars>>
    OBVIOUS
  <2>4. CASE timeSlice /\ UNCHANGED <<segVars, QueueVars>>
    BY <1>1, <2>4 DEF timeSlice, IsNextReady, PreemptedState, Preempts, States
  <2>5. ASSUME NEW m \in Datagram, Delivers(m) PROVE state[i] = "BLOCKED" /\ state'[i] = "READY"
    <3>1. state' = [state EXCEPT ![OwnerIdx(m)] = "READY"] /\ m \in Awaited
      BY <2>5 DEF Delivers, Deliver, Awaited
    <3>2. state[OwnerIdx(m)] = "BLOCKED"
      BY <3>1, OwnerIsBlocked DEF Awaited
    <3> QED
      BY <1>1, <3>1, <3>2
  <2> QED
    BY <1>1, <1>3, <2>1, <2>2, <2>3, <2>4, <2>5, InterruptCases
<1>4. CASE SendRequest \/ Reap
  BY <1>1, <1>4 DEF SendRequest, Reap
<1> QED
  BY <1>2, <1>3, <1>4
     DEF KernelStep, StopInterController, ForkApp, HaltApp, LaunchInterController,
         PollReplies, NothingToTake, TakeRequest, Pause, Sleep, Resume, NotTerminated,
         LoopOrBreak, FinishInterController, WaitInterController

\* A request is only sent for a process that is asleep in its app.
LEMMA SendersSleep ==
  ASSUME PromptInv, SendRequest
  PROVE  apc[kidx] = "nap2" /\ state[kidx] \notin {"BLOCKED", "TERMINATED"}
<1>1. kidx \in Procs /\ CallInv(kidx) /\ ~Polled(kidx)
  BY PromptTypes DEF PromptInv, SendRequest, At, Polled
<1> QED
  BY <1>1 DEF CallInv, PostedSleeps, EndIsDone

\* A process that checkTerminatedProcesses has marked TERMINATED stays so:
\* no late reply and no stale request revives it.
THEOREM TerminationIsFinal ==
  ASSUME Prompt
  PROVE  Spec => TerminatedIsFinal
<1> DEFINE Ends == \A i \in Procs : state[i] = "TERMINATED" => state'[i] = "TERMINATED"
<1>1. ASSUME PromptInv, [Next]_vars PROVE Ends
  BY <1>1, TableChanges, SendersSleep DEF Reap
<1>2. PromptInv /\ [Next]_vars => [Ends]_vars
  BY <1>1
<1> QED
  BY <1>2, PromptInvariant, PTL DEF Spec, TerminatedIsFinal

\* There is no timeout and no retry, but a lost datagram costs no more than the
\* process it belongs to: as many processes are BLOCKED without an answer on its
\* way as datagrams have been lost.  This is the safe half of LossIsContained.
THEOREM LossesStrandTheirOwners ==
  ASSUME Prompt
  PROVE  Spec => [](Cardinality(Stranded) = lost)
<1>1. PromptInv => Cardinality(Stranded) = lost
  BY DEF PromptInv, LossStrandsOne
<1> QED
  BY <1>1, PromptInvariant, PTL

AllEnded == kpc \in {"finish", "wait", "done"} => allProcessesTerminated

\* main leaves its loop (kernel.c:190) only if no datagram has been lost:
\* after one the kernel polls for ever.
THEOREM LossKeepsKernelPolling ==
  ASSUME Prompt
  PROVE  Spec => [](kpc \in {"finish", "wait", "done"} => lost = 0)
<1>1. Init => AllEnded
  BY DEF Init, KernelInit, AllEnded
<1>2. ASSUME PromptInv, AllEnded, [Next]_vars PROVE AllEnded'
  <2>1. ASSUME NEW i \in Procs, state[i] = "TERMINATED" PROVE state'[i] = "TERMINATED"
    BY <1>2, <2>1, TableChanges, SendersSleep DEF Reap
  <2>2. \/ kpc' \notin {"finish", "wait", "done"}
        \/ kpc \in {"finish", "wait", "done"}
        \/ kpc = "loop" /\ allProcessesTerminated
    <3>1. CASE KernelAction
      BY <3>1
         DEF KernelAction, KernelStep, StopInterController, ForkApp, HaltApp,
             LaunchInterController, PollIrq, PollReplies, NothingToTake, TakeRequest,
             SendRequest, Pause, Sleep, Resume, Reap, NotTerminated, LoopOrBreak,
             FinishInterController, WaitInterController, At, Enter, NextIndex
    <3>2. CASE ~KernelAction
      BY <1>2, <3>2
         DEF Next, AppAction, ICAction, ServerAction, LoseRequest, LoseReply, NetworkFrame,
             Sigint, sigintHandler, Terminated, vars, kernelVars, At, Enter
    <3> QED
      BY <3>1, <3>2
  <2> QED
    BY <1>2, <2>1, <2>2 DEF AllEnded, allProcessesTerminated
<1>3. ASSUME PromptInv, AllEnded, kpc \in {"finish", "wait", "done"} PROVE lost = 0
  <2>1. Stranded = {}
    BY <1>3 DEF AllEnded, allProcessesTerminated, Stranded
  <2> QED
    BY <1>3, <2>1, FS_EmptySet DEF PromptInv, LossStrandsOne
<1> QED
  BY <1>1, <1>2, <1>3, PromptInvariant, PTL DEF Spec

\* deliverFileReply and deliverDirReply make READY only a process that was
\* BLOCKED, which is what the comment at kernel_functions.c:204 says.  The
\* run T1Revived shows that two Ctrl-C are enough for the contrary.
THEOREM DeliveryAlwaysUnblocks ==
  ASSUME Prompt
  PROVE  Spec => DeliveryUnblocks
<1> DEFINE Shorter == Len(fileQueue') < Len(fileQueue) \/ Len(dirQueue') < Len(dirQueue)
           Unblocks == \A i \in Procs :
                         /\ Len(fileQueue') < Len(fileQueue) \/ Len(dirQueue') < Len(dirQueue)
                         /\ state'[i] # state[i]
                         => state[i] = "BLOCKED"
<1>1. ASSUME PromptInv, [Next]_vars PROVE Unblocks
  <2>1. UNCHANGED QueueVars => ~Shorter
    <3>1. Len(fileQueue) \in Nat /\ Len(dirQueue) \in Nat
      BY <1>1, PromptTypes, LenProperties
    <3> QED
      BY <3>1 DEF QueueVars
  <2>2. SendRequest \/ Reap => UNCHANGED QueueVars
    BY DEF SendRequest, Reap
  <2>3. ASSUME NEW i \in Procs, Shorter, state'[i] # state[i] PROVE state[i] = "BLOCKED"
    <3> HIDE DEF Shorter
    <3> QED
      BY <1>1, <2>1, <2>2, <2>3, TableChanges
  <2> QED
    BY <2>3
<1>2. PromptInv /\ [Next]_vars => [Unblocks]_vars
  BY <1>1
<1> QED
  BY <1>2, PromptInvariant, PTL DEF Spec, DeliveryUnblocks

\* An app that finds has_reply set in handle_reply reads the whole of a reply,
\* and one to a call of an earlier iteration.
THEOREM RepliesAreReadWhole ==
  ASSUME Prompt
  PROVE  Spec => AppsReadWholeReplies
<1> DEFINE Whole == \A i \in Procs :
                      apc[i] = "reply" /\ apc'[i] = "clear"
                        => body[i].kind = "rep" /\ body[i].tag \in 1..(PC[i] - 1)
<1>1. ASSUME PromptInv, [Next]_vars, NEW i \in Procs, apc[i] = "reply", apc'[i] = "clear"
      PROVE  body[i].kind = "rep" /\ body[i].tag \in 1..(PC[i] - 1)
  <2>1. apc \in [Procs -> AppLabels] /\ body[i] \in Bodies /\ PC[i] \in 0..MAX
    BY <1>1, PromptTypes
  <2>2. PICK j \in Procs : AppAction(j)
    <3>1. ~UNCHANGED apc
      BY <1>1
    <3> QED
      BY <1>1, <3>1
         DEF Next, ICAction, KernelAction, ServerAction, LoseRequest, LoseReply,
             NetworkFrame, Sigint, Terminated, vars, appVars
  <2>3. i = j
    BY <1>1, <2>2, AppFrameFacts
  <2>4. handle_reply(i)
    BY <1>1, <2>1, <2>2, <2>3
       DEF AppAction, AppStep, open_shared_memory, Tick, clear_has_reply, clear_fields,
           NoSyscall, prepare_syscall, AckReply, PostRequest, NextIteration, Exit
  <2>5. has_reply[i]
    BY <1>1, <2>1, <2>4 DEF handle_reply, Goto
  <2>6. state[i] # "BLOCKED"
    BY <1>1, <2>2, <2>3, AppFrameFacts
  <2>7. body[i].kind = "rep" /\ body[i].tag >= 1 /\ body[i].tag < PC[i]
    BY <1>1, <2>5, <2>6 DEF PromptInv, CallInv, ReplyIsWhole
  <2>8. body[i].tag \in 0..MAX
    BY <2>1, BodyFacts
  <2>9. body[i].tag \in 1..(PC[i] - 1)
    BY <2>1, <2>7, <2>8
  <2> QED
    BY <2>7, <2>9
<1>2. PromptInv /\ [Next]_vars => [Whole]_vars
  BY <1>1
<1> QED
  BY <1>2, PromptInvariant, PTL DEF Spec, AppsReadWholeReplies
=============================================================================
