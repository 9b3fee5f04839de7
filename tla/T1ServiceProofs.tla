--------------------------- MODULE T1ServiceProofs ---------------------------
(***************************************************************************)
(* T1 implements SyscallService: when the kernel keeps up and no datagram  *)
(* is lost, every system call of every app is executed once, answered with *)
(* its own outcome, and consumed before the app makes the next one; and no *)
(* app leaves with a call in progress.                                     *)
(***************************************************************************)
EXTENDS T1PromptProofs

----------------------------------------------------------------------------
(* The call an app is in, without looking at messages one by one. *)

Posted(o, t)   == [phase |-> "posted",   op |-> o, tag |-> t]
Executed(o, t) == [phase |-> "executed", op |-> o, tag |-> t]
Answered(o, t) == [phase |-> "answered", op |-> o, tag |-> t]

Pending(i) == ~Polled(i) \/ About(reqs, i) # {}

View(i) ==
  IF apc[i] = "done" THEN Service!Gone
  ELSE IF Pending(i) THEN Posted(op[i], PC[i])
  ELSE IF state[i] = "BLOCKED" THEN Executed(op[i], PC[i])
  ELSE IF has_reply[i] THEN Answered(op[i], body[i].tag)
  ELSE Service!NoCall

LEMMA ConcatElements ==
  ASSUME NEW s \in Seq(Datagram), NEW t \in Seq(Datagram)
  PROVE  s \o t \in Seq(Datagram) /\ Range(s \o t) = Range(s) \cup Range(t)
<1> DEFINE u == s \o t
<1>1. /\ Len(s) \in Nat /\ DOMAIN s = 1..Len(s)
      /\ Len(t) \in Nat /\ DOMAIN t = 1..Len(t)
  BY LenProperties
<1>2. /\ u \in Seq(Datagram) /\ Len(u) = Len(s) + Len(t) /\ DOMAIN u = 1..Len(u)
      /\ \A k \in 1..Len(u) : u[k] = IF k <= Len(s) THEN s[k] ELSE t[k - Len(s)]
  BY ConcatProperties, LenProperties
<1> HIDE DEF u
<1>3. ASSUME NEW k \in 1..Len(u) PROVE u[k] \in Range(s) \cup Range(t)
  <2>1. CASE k <= Len(s)
    BY <1>1, <1>2, <2>1 DEF Range
  <2>2. CASE k > Len(s)
    <3>1. k - Len(s) \in 1..Len(t) /\ u[k] = t[k - Len(s)]
      BY <1>1, <1>2, <2>2
    <3> QED
      BY <1>1, <3>1 DEF Range
  <2> QED
    BY <1>1, <1>2, <2>1, <2>2
<1>4. ASSUME NEW k \in 1..Len(s) PROVE s[k] \in Range(u)
  <2>1. k \in 1..Len(u) /\ u[k] = s[k]
    BY <1>1, <1>2
  <2> QED
    BY <1>2, <2>1 DEF Range
<1>5. ASSUME NEW k \in 1..Len(t) PROVE t[k] \in Range(u)
  <2>1. k + Len(s) \in 1..Len(u) /\ u[k + Len(s)] = t[k]
    BY <1>1, <1>2
  <2> QED
    BY <1>2, <2>1 DEF Range
<1>6. Range(u) = Range(s) \cup Range(t)
  BY <1>1, <1>2, <1>3, <1>4, <1>5 DEF Range
<1> QED
  BY <1>2, <1>6 DEF u

LEMMA HeadOrTail ==
  ASSUME NEW s \in Seq(Datagram), s # <<>>
  PROVE  Range(s) = Range(Tail(s)) \cup {Head(s)}
<1> DEFINE t == Tail(s)
<1>1. /\ t \in Seq(Datagram) /\ Len(s) \in Nat /\ Len(s) >= 1 /\ Len(t) = Len(s) - 1
      /\ \A k \in 1..Len(t) : t[k] = s[k + 1]
      /\ Head(s) = s[1] /\ DOMAIN t = 1..Len(t) /\ DOMAIN s = 1..Len(s)
  BY HeadTailProperties, LenProperties, EmptySeq
<1> HIDE DEF t
<1>2. ASSUME NEW k \in 1..Len(s), k # 1 PROVE s[k] \in Range(t)
  <2>1. k - 1 \in 1..Len(t) /\ t[k - 1] = s[k]
    BY <1>1, <1>2
  <2> QED
    BY <1>1, <2>1 DEF Range
<1>3. Range(t) \subseteq Range(s) /\ Head(s) \in Range(s)
  BY QueueElements DEF t
<1> QED
  BY <1>1, <1>2, <1>3 DEF Range, t

LEMMA OwnsSome ==
  ASSUME NEW s \in Seq(Datagram), NEW i, OwnedBy(s, i) # 0
  PROVE  \E m \in Range(s) : OwnerIdx(m) = i
<1>1. Positions(s, i) # {}
  BY PositionsFinite, FS_EmptySet
<1>2. PICK k \in 1..Len(s) : OwnerIdx(s[k]) = i
  BY <1>1 DEF Positions
<1>3. s[k] \in Range(s)
  BY LenProperties DEF Range
<1> QED
  BY <1>2, <1>3

\* Where the messages about an app are, according to its state.
LEMMA WhereMessagesAre ==
  ASSUME PromptInv, lost = 0, NEW i \in Procs
  PROVE  /\ About(reps \o fileQueue \o dirQueue, i) = {m \in Awaited : OwnerIdx(m) = i}
         /\ state[i] # "BLOCKED" =>
              About(reqs, i) = {} /\ About(reps \o fileQueue \o dirQueue, i) = {}
         /\ state[i] = "BLOCKED" =>
              About(reqs, i) # {} \/ About(reps \o fileQueue \o dirQueue, i) # {}
<1>1. Range(reps \o fileQueue \o dirQueue) = Awaited
  <2>1. /\ reps \in Seq(Datagram) /\ fileQueue \in Seq(Datagram) /\ dirQueue \in Seq(Datagram)
    BY PromptTypes
  <2>2. /\ reps \o fileQueue \in Seq(Datagram)
        /\ Range(reps \o fileQueue) = Range(reps) \cup Range(fileQueue)
    BY <2>1, ConcatElements
  <2>3. Range((reps \o fileQueue) \o dirQueue) = Range(reps \o fileQueue) \cup Range(dirQueue)
    BY <2>1, <2>2, ConcatElements
  <2> QED
    BY <2>2, <2>3 DEF Awaited
<1>2. About(reps \o fileQueue \o dirQueue, i) = {m \in Awaited : OwnerIdx(m) = i}
  BY <1>1 DEF About
<1>3. ASSUME state[i] # "BLOCKED"
      PROVE  About(reqs, i) = {} /\ {m \in Awaited : OwnerIdx(m) = i} = {}
  BY <1>3, OwnerIsBlocked DEF About, Awaited
<1>4. ASSUME state[i] = "BLOCKED"
      PROVE  About(reqs, i) # {} \/ {m \in Awaited : OwnerIdx(m) = i} # {}
  <2>1. Owed(i) = 1
    <3>1. BlockedIsOwed
      BY PromptTypes, OwedUnlessLost DEF PromptInv
    <3> QED
      BY <1>4, <3>1 DEF BlockedIsOwed
  <2>2. /\ OwnedBy(reqs, i) \in Nat /\ OwnedBy(reps, i) \in Nat
        /\ OwnedBy(fileQueue, i) \in Nat /\ OwnedBy(dirQueue, i) \in Nat
    BY PromptTypes, OwedFacts
  <2>3. \E q \in {reqs, reps, fileQueue, dirQueue} : OwnedBy(q, i) # 0
    BY <2>1, <2>2 DEF Owed
  <2>4. PICK q \in {reqs, reps, fileQueue, dirQueue} : \E m \in Range(q) : OwnerIdx(m) = i
    BY <2>3, PromptTypes, OwnsSome
  <2> QED
    BY <2>4 DEF About, Awaited
<1> QED
  BY <1>2, <1>3, <1>4

NoLoss == lost = 0
Agree  == \A i \in Procs : CallOf(i) = View(i)

\* CallOf reads off the view.
LEMMA CallIsView == PromptInv /\ NoLoss => Agree
<1> SUFFICES ASSUME PromptInv, lost = 0, NEW i \in Procs PROVE CallOf(i) = View(i)
  BY DEF NoLoss, Agree
<1> DEFINE answers == About(reps \o fileQueue \o dirQueue, i)
           Of(phase, m) == [phase |-> phase, op |-> m.op, tag |-> m.body.tag]
<1>1. CallInv(i)
  BY DEF PromptInv
<1>2. CASE apc[i] = "done"
  <2>1. run[i] \in {"zombie", "reaped"}
    BY <1>1, <1>2 DEF CallInv, EndIsDone
  <2> QED
    BY <1>2, <2>1 DEF CallOf, View, NoBody, Service!Gone
<1>3. CASE apc[i] # "done" /\ ~Polled(i)
  <2>1. run[i] \notin {"zombie", "reaped"} /\ body[i].tag = PC[i]
    BY <1>1, <1>3 DEF CallInv, EndIsDone, PostedSleeps, Args
  <2> QED
    BY <1>3, <2>1 DEF CallOf, View, Pending, Posted
<1>4. CASE apc[i] # "done" /\ Polled(i) /\ About(reqs, i) # {}
  <2> DEFINE m == CHOOSE x \in About(reqs, i) : TRUE
  <2>1. m \in About(reqs, i)
    BY <1>4
  <2>2. run[i] \notin {"zombie", "reaped"}
    BY <1>1, <1>4 DEF CallInv, EndIsDone
  <2>3. CallOf(i) = Of("posted", m)
    BY <1>4, <2>2 DEF CallOf
  <2> HIDE DEF m
  <2>4. m.op = op[i] /\ m.body.tag = PC[i]
    <3>1. m \in Range(reqs) /\ OwnerIdx(m) = i
      BY <2>1 DEF About
    <3>2. Asks(m)
      BY <3>1 DEF PromptInv, MessagesAreCurrent
    <3> QED
      BY <3>1, <3>2 DEF Asks, Args
  <2> QED
    BY <1>4, <2>3, <2>4 DEF View, Pending, Posted
<1>5. CASE apc[i] # "done" /\ Polled(i) /\ About(reqs, i) = {} /\ state[i] = "BLOCKED"
  <2> DEFINE m == CHOOSE x \in answers : TRUE
  <2>1. answers # {} /\ answers = {x \in Awaited : OwnerIdx(x) = i}
    BY <1>5, WhereMessagesAre
  <2>2. run[i] \notin {"zombie", "reaped"}
    BY <1>1, <1>5 DEF CallInv, EndIsDone
  <2>3. CallOf(i) = Of("executed", m)
    BY <1>5, <2>1, <2>2 DEF CallOf
  <2>4. m \in answers
    BY <2>1
  <2> HIDE DEF m, answers
  <2>5. m.op = op[i] /\ m.body.tag = PC[i]
    <3>1. m \in Awaited /\ OwnerIdx(m) = i
      BY <2>1, <2>4
    <3>2. Answers(m)
      BY <3>1 DEF PromptInv, MessagesAreCurrent
    <3> QED
      BY <3>1, <3>2 DEF Answers, Answer
  <2> QED
    BY <1>5, <2>3, <2>5 DEF View, Pending, Executed
<1>6. CASE apc[i] # "done" /\ Polled(i) /\ About(reqs, i) = {} /\ state[i] # "BLOCKED"
  <2>1. answers = {}
    BY <1>6, WhereMessagesAre
  <2>2. run[i] \notin {"zombie", "reaped"}
    BY <1>1, <1>6 DEF CallInv, EndIsDone
  <2>3. CallOf(i) = IF has_reply[i] THEN [phase |-> "answered", op |-> op[i], tag |-> body[i].tag]
                    ELSE [phase |-> "idle", op |-> "", tag |-> NoBody.tag]
    BY <1>6, <2>1, <2>2 DEF CallOf
  <2> QED
    BY <1>6, <2>3 DEF View, Pending, Answered, NoBody, Service!NoCall
<1> QED
  BY <1>2, <1>3, <1>4, <1>5, <1>6

LEMMA CallIsViewNext == PromptInv' /\ NoLoss' => Agree'
BY CallIsView, PTL
----------------------------------------------------------------------------
(* Steps of the service. *)

calls == [i \in Procs |-> CallOf(i)]

\* How the call of one app may change.
Moves(v, w) ==
  \/ v = Service!NoCall /\ \E o \in Ops, t \in 1..MAX : w = Posted(o, t)
  \/ \E o, t : v = Posted(o, t) /\ w = Executed(o, t)
  \/ \E o, t : v = Executed(o, t) /\ w = Answered(o, t)
  \/ \E o, t : v = Answered(o, t) /\ w \in {Service!NoCall, Service!Gone}
  \/ v = Service!NoCall /\ w = Service!Gone

LEMMA PhaseFacts ==
  /\ Service!NoCall.phase = "idle"
  /\ Service!Gone.phase = "gone"
  /\ \A o, t : /\ Posted(o, t).phase = "posted"
               /\ Executed(o, t) = [Posted(o, t) EXCEPT !.phase = "executed"]
               /\ Executed(o, t).phase = "executed"
               /\ Answered(o, t) = [Executed(o, t) EXCEPT !.phase = "answered"]
               /\ Answered(o, t).phase = "answered"
BY DEF Service!NoCall, Service!Gone, Posted, Executed, Answered

LEMMA ServiceStep ==
  ASSUME Agree, Agree', NEW i \in Procs, Moves(View(i), View(i)'),
         \A j \in Procs \ {i} : View(j)' = View(j)
  PROVE  [Service!Next]_calls
<1> DEFINE v == CallOf(i)
           w == CallOf(i)'
<1>1. calls = [j \in Procs |-> CallOf(j)] /\ calls' = [j \in Procs |-> CallOf(j)']
  BY DEF calls
<1>2. Moves(v, w) /\ \A j \in Procs \ {i} : CallOf(j)' = CallOf(j)
  BY DEF Agree
<1>3. calls' = [calls EXCEPT ![i] = w] /\ calls[i] = v /\ calls'[i] = w
  BY <1>1, <1>2
<1> HIDE DEF v, w
<1>4. ASSUME v # w,
             \/ Service!Post(i) \/ Service!Execute(i) \/ Service!Answer(i)
             \/ Service!Consume(i) \/ Service!Leave(i)
      PROVE  [Service!Next]_calls
  BY <1>1, <1>3, <1>4 DEF Service!Next
<1> USE PhaseFacts
<1>5. CASE v = Service!NoCall /\ \E o \in Ops, t \in 1..MAX : w = Posted(o, t)
  <2>1. v # w
    <3>1. v.phase = "idle" /\ w.phase = "posted"
      BY <1>5
    <3> QED
      BY <3>1
  <2>2. Service!Post(i)
    BY <1>1, <1>3, <1>5 DEF Service!Post, Service!Becomes, Posted
  <2> QED
    BY <1>4, <2>1, <2>2
<1>6. CASE \E o, t : v = Posted(o, t) /\ w = Executed(o, t)
  <2>1. v # w /\ v.phase = "posted" /\ w = [v EXCEPT !.phase = "executed"]
    BY <1>6
  <2>2. Service!Execute(i)
    BY <1>1, <1>3, <2>1 DEF Service!Execute, Service!Advance
  <2> QED
    BY <1>4, <2>1, <2>2
<1>7. CASE \E o, t : v = Executed(o, t) /\ w = Answered(o, t)
  <2>1. v # w /\ v.phase = "executed" /\ w = [v EXCEPT !.phase = "answered"]
    BY <1>7
  <2>2. Service!Answer(i)
    BY <1>1, <1>3, <2>1 DEF Service!Answer, Service!Advance
  <2> QED
    BY <1>4, <2>1, <2>2
<1>8. CASE \E o, t : v = Answered(o, t) /\ w \in {Service!NoCall, Service!Gone}
  <2>1. v # w /\ v.phase = "answered"
    <3>1. v.phase = "answered" /\ w.phase \in {"idle", "gone"}
      BY <1>8
    <3> QED
      BY <3>1
  <2>2. Service!Consume(i) \/ Service!Leave(i)
    BY <1>1, <1>3, <1>8, <2>1 DEF Service!Consume, Service!Leave, Service!Becomes
  <2> QED
    BY <1>4, <2>1, <2>2
<1>9. CASE v = Service!NoCall /\ w = Service!Gone
  <2>1. v # w /\ v.phase = "idle"
    BY <1>9
  <2>2. Service!Leave(i)
    BY <1>1, <1>3, <1>9, <2>1 DEF Service!Leave, Service!Becomes
  <2> QED
    BY <1>4, <2>1, <2>2
<1> QED
  BY <1>2, <1>5, <1>6, <1>7, <1>8, <1>9 DEF Moves

----------------------------------------------------------------------------
(* Every step of the system is one of the service, or none. *)

\* Steps that the call of app i does not notice.
LEMMA ViewUntouched ==
  ASSUME NEW i \in Procs,
         apc'[i] = apc[i], PC'[i] = PC[i], op'[i] = op[i],
         Pending(i)' <=> Pending(i),
         state'[i] = "BLOCKED" <=> state[i] = "BLOCKED",
         state[i] = "BLOCKED" \/ (has_reply'[i] = has_reply[i] /\ body'[i] = body[i])
  PROVE  View(i)' = View(i)
BY DEF View

ServiceSees(i) ==
  /\ View(i)' = View(i) \/ Moves(View(i), View(i)')
  /\ \A j \in Procs \ {i} : View(j)' = View(j)

\* An app that executes has no call on its way.
LEMMA RunnerWaitsForNothing ==
  ASSUME PromptInv, lost = 0, KernelKeepsUp, overslept = {}, NEW i \in Procs, AppAction(i)
  PROVE  /\ Polled(i) /\ About(reqs, i) = {} /\ ~Pending(i)
         /\ apc[i] # "done" /\ state[i] # "BLOCKED"
<1>1. run[i] = "running" /\ state[i] # "BLOCKED"
  BY AppFrameFacts
<1>2. About(reqs, i) = {}
  BY <1>1, WhereMessagesAre
<1>3. Polled(i)
  <2>1. ~Polled(i) => Asleep(i)
    BY DEF PromptInv, CallInv, PostedSleeps, Asleep
  <2> QED
    BY <2>1, WakesWhenPolled
<1>4. apc[i] # "done"
  BY <1>1 DEF PromptInv, CallInv, EndIsDone
<1> QED
  BY <1>1, <1>2, <1>3, <1>4 DEF Pending

LEMMA AppService ==
  ASSUME PromptInv, lost = 0, KernelKeepsUp, overslept = {}, NEW i \in Procs, AppAction(i)
  PROVE  ServiceSees(i)
<1> USE DEF Goto, segVars
<1>1. UNCHANGED <<kpc, kidx, state, reqs>>
  BY AppFrameFacts DEF kernelVars
<1>2. \A j \in Procs \ {i} : View(j)' = View(j)
  <2>1. \A j \in Procs \ {i} : Pending(j)' <=> Pending(j)
    BY <1>1, AppFrameFacts DEF Pending, Polled, About
  <2> QED
    BY <1>1, <2>1, AppFrameFacts, ViewUntouched
<1>3. /\ has_request \in [Procs -> BOOLEAN] /\ has_reply \in [Procs -> BOOLEAN]
      /\ op \in [Procs -> Ops \cup {""}] /\ body \in [Procs -> Bodies]
      /\ apc \in [Procs -> AppLabels] /\ PC \in [Procs -> 0..MAX] /\ CallInv(i)
  BY PromptTypes DEF PromptInv
<1>4. View(i) = IF has_reply[i] THEN Answered(op[i], body[i].tag) ELSE Service!NoCall
  BY RunnerWaitsForNothing DEF View
<1>5. has_request'[i] = has_request[i] => ~Pending(i)'
  BY <1>1, RunnerWaitsForNothing DEF Pending, Polled, About
<1>6. CASE PostRequest(i)
  <2>1. ~has_reply[i] /\ op[i] \in Ops /\ PC[i] \in 1..MAX
    <3>1. PC[i] >= 1 /\ PC[i] \in 0..MAX
      BY <1>3, <1>6 DEF PostRequest, CallInv, PCStarted
    <3>2. ~has_reply[i] /\ op[i] \in Ops
      BY <1>3, <1>6, RunnerWaitsForNothing
         DEF PostRequest, CallInv, ReplyIsWhole, PreparedCall
    <3> QED
      BY <3>1, <3>2
  <2>2. has_request'[i] /\ apc'[i] = "nap2" /\ op'[i] = op[i] /\ PC'[i] = PC[i]
    BY <1>3, <1>6 DEF PostRequest
  <2>3. View(i)' = Posted(op[i], PC[i])
    BY <2>2 DEF View, Pending, Polled
  <2>4. View(i) = Service!NoCall
    BY <1>4, <2>1
  <2> QED
    BY <1>2, <2>1, <2>3, <2>4 DEF ServiceSees, Moves
<1>7. CASE clear_has_reply(i)
  <2>1. /\ has_request'[i] = has_request[i] /\ ~has_reply'[i] /\ apc'[i] # "done"
    BY <1>3, <1>7 DEF clear_has_reply
  <2>2. View(i)' = Service!NoCall
    BY <1>1, <1>5, <2>1, RunnerWaitsForNothing DEF View
  <2> QED
    BY <1>2, <1>4, <2>2 DEF ServiceSees, Moves
<1>8. CASE clear_fields(i) \/ prepare_syscall(i) \/ AckReply(i)
  <2>1. ~has_reply[i]
    BY <1>3, <1>8, RunnerWaitsForNothing
       DEF clear_fields, prepare_syscall, AckReply, CallInv, ReplyIsWhole
  <2>2. ~has_reply'[i] /\ apc'[i] # "done"
    BY <1>3, <1>8, <2>1 DEF clear_fields, prepare_syscall, AckReply
  <2>3. ~Pending(i)'
    BY <1>1, <1>3, <1>8, RunnerWaitsForNothing
       DEF clear_fields, prepare_syscall, AckReply, Pending, Polled, About
  <2>4. View(i)' = Service!NoCall
    BY <1>1, <2>2, <2>3, RunnerWaitsForNothing DEF View
  <2> QED
    BY <1>2, <1>4, <2>1, <2>4 DEF ServiceSees
<1>9. CASE Exit(i)
  <2>1. apc'[i] = "done"
    BY <1>3, <1>9 DEF Exit
  <2>2. View(i)' = Service!Gone
    BY <2>1 DEF View
  <2> QED
    BY <1>2, <1>4, <2>2 DEF ServiceSees, Moves
<1>10. CASE \/ open_shared_memory(i) \/ Tick(i) \/ handle_reply(i) \/ NoSyscall(i)
            \/ NextIteration(i)
  <2>1. /\ UNCHANGED <<has_request, has_reply, op, body>> /\ apc'[i] # "done"
    BY <1>3, <1>10 DEF open_shared_memory, Tick, handle_reply, NoSyscall, NextIteration
  <2>2. View(i)' = IF has_reply[i] THEN Answered(op[i], body[i].tag) ELSE Service!NoCall
    BY <1>1, <1>5, <2>1, RunnerWaitsForNothing DEF View
  <2> QED
    BY <1>2, <1>4, <2>2 DEF ServiceSees
<1> QED
  BY <1>6, <1>7, <1>8, <1>9, <1>10 DEF AppAction, AppStep

\* The server executes the call of the owner of the request it takes.
LEMMA ServerService ==
  ASSUME PromptInv, lost = 0, ServerAction, NEW r \in {Head(reqs)}
  PROVE  OwnerIdx(r) \in Procs /\ ServiceSees(OwnerIdx(r))
<1> DEFINE i == OwnerIdx(r)
<1>1. /\ UNCHANGED <<segVars, appVars, kpc, kidx, state>>
      /\ reqs # <<>> /\ reqs' = Tail(reqs)
  BY DEF ServerAction, NetworkFrame, kernelVars
<1>2. reqs \in Seq(Datagram) /\ reqs' \in Seq(Datagram) /\ r \in Range(reqs)
  <2>1. reqs \in Seq(Datagram)
    BY PromptTypes
  <2> QED
    BY <1>1, <2>1, QueueElements
<1>3. i \in Procs /\ state[i] = "BLOCKED" /\ OwnedBy(reqs, i) = 1
  <2>1. reqs \in {reqs, reps, fileQueue, dirQueue}
    OBVIOUS
  <2> QED
    BY <1>2, <2>1, OwnerIsBlocked
<1>4. ASSUME NEW j \in Procs \ {i} PROVE About(reqs', j) = About(reqs, j)
  <2>1. Range(reqs) = Range(reqs') \cup {r}
    BY <1>1, <1>2, HeadOrTail
  <2> QED
    BY <2>1, <1>4 DEF About
<1>5. About(reqs', i) = {}
  <2>1. OwnedBy(reqs', i) = 0
    BY <1>1, <1>2, <1>3, OwnedByTail DEF Bit
  <2> QED
    BY <1>2, <2>1, OwnsElement DEF About
<1>6. r \in About(reqs, i)
  BY <1>2 DEF About
<1> HIDE DEF i
<1>7. ASSUME NEW j \in Procs \ {i} PROVE View(j)' = View(j)
  <2>1. Pending(j)' <=> Pending(j)
    BY <1>1, <1>4 DEF Pending, Polled, About, segVars
  <2> QED
    BY <1>1, <2>1, ViewUntouched DEF segVars, appVars
<1>8. CallInv(i) /\ Polled(i) /\ apc[i] # "done"
  BY <1>3 DEF PromptInv, CallInv, PostedSleeps, BlockedSleeps
<1>9. View(i) = Posted(op[i], PC[i])
  BY <1>6, <1>8 DEF View, Pending
<1>10. View(i)' = Executed(op[i], PC[i])
  <2>1. ~Pending(i)'
    BY <1>1, <1>5, <1>8 DEF Pending, Polled, About, segVars
  <2> QED
    BY <1>1, <1>3, <1>8, <2>1 DEF View, segVars, appVars
<1> QED
  BY <1>3, <1>7, <1>9, <1>10 DEF ServiceSees, Moves, i

\* Steps that no app's call notices.
LEMMA QuietView ==
  ASSUME UNCHANGED <<segVars, appVars, reqs>>,
         \A i \in Procs : Polled(i)' <=> Polled(i),
         \A i \in Procs : state'[i] = "BLOCKED" <=> state[i] = "BLOCKED"
  PROVE  \E i \in Procs : ServiceSees(i)
<1>1. \A i \in Procs : View(i)' = View(i)
  BY ViewUntouched DEF Pending, About, segVars, appVars
<1> QED
  BY <1>1, ConstantFacts DEF ServiceSees

LEMMA EnvironmentService ==
  ASSUME ICAction \/ Sigint
  PROVE  \E i \in Procs : ServiceSees(i)
<1>1. UNCHANGED <<segVars, appVars, reqs, state>>
  BY DEF ICAction, InterControllerStep, ICFrame, Sigint, sigintHandler, machineVars,
         kernelVars, segVars
<1>2. UNCHANGED <<kpc, kidx>> \/ (kpc = "sleeping" /\ kpc' = "check")
  BY DEF ICAction, Sigint, sigintHandler, At, Enter, kernelVars
<1> QED
  BY <1>1, <1>2, QuietView DEF Polled, segVars

\* What the kernel does before and after taking a request, and at a time slice.
LEMMA QuietKernelService ==
  ASSUME PromptInv, [Next]_vars, UNCHANGED appVars,
         \/ StopInterController \/ ForkApp \/ HaltApp \/ LaunchInterController
         \/ NothingToTake \/ Pause \/ Sleep \/ Resume
         \/ Reap \/ NotTerminated \/ LoopOrBreak \/ FinishInterController \/ WaitInterController
         \/ PollReplies /\ NoReply
         \/ PollIrq /\ UNCHANGED segVars /\ (timeSlice \/ UNCHANGED state)
  PROVE  \E i \in Procs : ServiceSees(i)
<1> USE DEF At, Enter, NextIndex
<1>1. UNCHANGED <<segVars, appVars, reqs>>
  BY DEF StopInterController, ForkApp, HaltApp, LaunchInterController, NothingToTake,
         Pause, Sleep, Resume, Reap, NotTerminated, LoopOrBreak, FinishInterController,
         WaitInterController, PollReplies, NoReply, PollIrq, machineVars, segVars
<1>2. kpc # "send" /\ kpc' # "send"
  BY DEF StopInterController, ForkApp, HaltApp, LaunchInterController, NothingToTake,
         Pause, Sleep, Resume, Reap, NotTerminated, LoopOrBreak, FinishInterController,
         WaitInterController, PollReplies, PollIrq
<1>3. ASSUME NEW i \in Procs
      PROVE  state'[i] = "BLOCKED" <=> state[i] = "BLOCKED"
  <2>1. state \in [Procs -> States] /\ run \in [Children -> Status] /\ kidx \in Procs
    BY PromptTypes
  <2>2. CASE Reap
    <3>1. state[kidx] # "BLOCKED"
      BY <2>1, <2>2 DEF Reap, PromptInv, CallInv, EndIsDone, BlockedSleeps
    <3> QED
      BY <2>1, <2>2, <3>1 DEF Reap
  <2>3. CASE PollIrq /\ timeSlice
    BY <2>1, <2>3 DEF timeSlice, IsNextReady, PreemptedState, Preempts
  <2> QED
    BY <2>2, <2>3
       DEF StopInterController, ForkApp, HaltApp, LaunchInterController, NothingToTake,
           Pause, Sleep, Resume, NotTerminated, LoopOrBreak, FinishInterController,
           WaitInterController, PollReplies
<1> QED
  BY <1>1, <1>2, <1>3, QuietView DEF Polled, segVars

\* The interrupt answers the call of the owner of the reply it delivers.
LEMMA DeliverService ==
  ASSUME PromptInv, UNCHANGED appVars, PollIrq, NEW m \in Datagram, Delivers(m)
  PROVE  OwnerIdx(m) \in Procs /\ ServiceSees(OwnerIdx(m))
<1> DEFINE i == OwnerIdx(m)
<1>1. PICK q \in {fileQueue, dirQueue} : m \in Range(q)
  BY DEF Delivers
<1>2. i \in Procs /\ state[i] = "BLOCKED" /\ Owed(i) = 1 /\ OwnedBy(q, i) = 1
  BY <1>1, OwnerIsBlocked
<1>3. m.body = Answer(PC[i]) /\ m.body.tag = PC[i]
  BY <1>1 DEF PromptInv, MessagesAreCurrent, Awaited, Answers, Answer
<1>4. About(reqs, i) = {}
  <2>1. /\ OwnedBy(reqs, i) \in Nat /\ OwnedBy(reps, i) \in Nat
        /\ OwnedBy(fileQueue, i) \in Nat /\ OwnedBy(dirQueue, i) \in Nat
    BY PromptTypes, OwedFacts
  <2>2. OwnedBy(reqs, i) = 0
    BY <1>1, <1>2, <2>1 DEF Owed
  <2>3. ASSUME NEW x \in About(reqs, i) PROVE FALSE
    <3>1. x \in Range(reqs) /\ OwnerIdx(x) = i /\ reqs \in Seq(Datagram)
      BY PromptTypes DEF About
    <3>2. OwnedBy(reqs, OwnerIdx(x)) >= 1
      BY <3>1, OwnsElement
    <3> QED
      BY <2>2, <3>1, <3>2
  <2> QED
    BY <2>3
<1>5. /\ has_reply' = [has_reply EXCEPT ![i] = TRUE]
      /\ body' = [body EXCEPT ![i] = m.body]
      /\ state' = [state EXCEPT ![i] = "READY"]
      /\ UNCHANGED <<has_request, op, apc, PC, reqs>>
      /\ kpc = "irq" /\ kpc' = "recv"
  BY DEF Delivers, Deliver, PollIrq, At, Enter, appVars
<1> HIDE DEF i
<1>6. /\ has_reply \in [Procs -> BOOLEAN] /\ body \in [Procs -> Bodies]
      /\ state \in [Procs -> States]
  BY PromptTypes
<1>7. ASSUME NEW j \in Procs \ {i} PROVE View(j)' = View(j)
  <2>1. Pending(j)' <=> Pending(j)
    BY <1>5 DEF Pending, Polled, About
  <2>2. has_reply'[j] = has_reply[j] /\ body'[j] = body[j] /\ state'[j] = state[j]
    BY <1>5, <1>6
  <2> QED
    BY <1>5, <2>1, <2>2, ViewUntouched
<1>8. CallInv(i) /\ Polled(i) /\ apc[i] # "done"
  BY <1>2 DEF PromptInv, CallInv, PostedSleeps, BlockedSleeps
<1>9. ~Pending(i) /\ ~Pending(i)'
  BY <1>4, <1>5, <1>8 DEF Pending, Polled, About
<1>10. View(i) = Executed(op[i], PC[i])
  BY <1>2, <1>8, <1>9 DEF View
<1>11. View(i)' = Answered(op[i], PC[i])
  <2>1. has_reply'[i] /\ state'[i] # "BLOCKED" /\ body'[i].tag = PC[i]
    BY <1>2, <1>3, <1>5, <1>6
  <2> QED
    BY <1>5, <1>8, <1>9, <2>1 DEF View
<1> QED
  BY <1>2, <1>7, <1>10, <1>11 DEF ServiceSees, Moves, i

\* A reply that arrives changes the segment of a BLOCKED app only.
LEMMA ReceiveService ==
  ASSUME PromptInv, UNCHANGED appVars, PollReplies, recvUdpReply
  PROVE  \E i \in Procs : ServiceSees(i)
<1>1. /\ kpc = "recv" /\ kpc' = "scan"
      /\ UNCHANGED <<has_request, op, reqs, state, apc, PC>>
  BY DEF PollReplies, At, Enter, appVars
<1>2. ASSUME NEW i \in Procs
      PROVE  state[i] = "BLOCKED" \/ (has_reply'[i] = has_reply[i] /\ body'[i] = body[i])
  <2>1. /\ reps # <<>>
        /\ has_reply' = [has_reply EXCEPT ![OwnerIdx(Head(reps))] = TRUE]
        /\ body' = [body EXCEPT ![OwnerIdx(Head(reps))] = PartOf(Head(reps).body)]
    BY DEF recvUdpReply
  <2>2. reps \in Seq(Datagram) /\ reps \in {reqs, reps, fileQueue, dirQueue}
    BY PromptTypes
  <2>3. state[OwnerIdx(Head(reps))] = "BLOCKED"
    BY <2>1, <2>2, QueueElements, OwnerIsBlocked
  <2>4. has_reply \in [Procs -> BOOLEAN] /\ body \in [Procs -> Bodies]
    BY PromptTypes
  <2> QED
    BY <2>1, <2>3, <2>4
<1>3. \A i \in Procs : Pending(i)' <=> Pending(i)
  BY <1>1 DEF Pending, Polled, About
<1>4. \A i \in Procs : View(i)' = View(i)
  BY <1>1, <1>2, <1>3, ViewUntouched
<1> QED
  BY <1>4, ConstantFacts DEF ServiceSees

\* A call stays posted from the segment to the socket.
LEMMA RequestService ==
  ASSUME PromptInv, lost = 0, UNCHANGED appVars, TakeRequest \/ SendRequest, NEW i \in {kidx}
  PROVE  ServiceSees(i) /\ i \in Procs
<1>1. /\ i \in Procs /\ CallInv(i) /\ TypeInv
      /\ has_request \in [Procs -> BOOLEAN] /\ state \in [Procs -> States]
  BY PromptTypes DEF PromptInv
<1>2. /\ UNCHANGED <<has_reply, op, body, apc, PC>>
      /\ Pending(i) /\ apc[i] = "nap2"
  <2>1. ~Polled(i)
    BY DEF TakeRequest, SendRequest, At, Polled
  <2> QED
    BY <1>1, <2>1 DEF TakeRequest, SendRequest, segVars, appVars, CallInv, PostedSleeps, Pending
<1>3. CASE TakeRequest
  <2>1. /\ kpc = "scan" /\ kpc' = "send" /\ kidx' = i
        /\ has_request' = [has_request EXCEPT ![i] = FALSE] /\ UNCHANGED <<reqs, state>>
    BY <1>3 DEF TakeRequest, At
  <2>2. Pending(i)'
    BY <2>1 DEF Pending, Polled
  <2>3. \A j \in Procs \ {i} : Pending(j)' <=> Pending(j)
    BY <1>1, <2>1 DEF Pending, Polled, About
  <2> QED
    BY <1>1, <1>2, <2>1, <2>2, <2>3, ViewUntouched DEF ServiceSees
<1>4. CASE SendRequest
  <2> DEFINE m == buildReqFromShm(i)
  <2>1. /\ kpc = "send" /\ kpc' # "send" /\ UNCHANGED has_request
        /\ state' = [state EXCEPT ![i] = "BLOCKED"]
        /\ reqs' = Append(reqs, m)
    BY <1>4 DEF SendRequest, At, NextIndex, Enter, segVars
  <2>2. m \in Datagram /\ OwnerIdx(m) = i
    BY <1>1, PromptTypes, RequestFacts, IndexOwner DEF buildReqFromShm, OwnerIdx
  <2> HIDE DEF m
  <2>3. Range(reqs') = Range(reqs) \cup {m}
    BY <2>1, <2>2, PromptTypes, QueueElements
  <2>4. m \in About(reqs', i) /\ \A j \in Procs \ {i} : About(reqs', j) = About(reqs, j)
    BY <2>2, <2>3 DEF About
  <2>5. Pending(i)'
    BY <2>4 DEF Pending, About
  <2>6. View(i)' = View(i)
    BY <1>2, <2>5 DEF View
  <2>7. ASSUME NEW j \in Procs \ {i} PROVE View(j)' = View(j)
    <3>1. Pending(j)' <=> Pending(j)
      BY <2>1, <2>4 DEF Pending, Polled, About
    <3>2. state'[j] = state[j]
      BY <1>1, <2>1
    <3> QED
      BY <1>2, <3>1, <3>2, ViewUntouched
  <2> QED
    BY <1>1, <2>6, <2>7 DEF ServiceSees
<1> QED
  BY <1>3, <1>4

LEMMA KernelService ==
  ASSUME PromptInv, lost = 0, [Next]_vars, KernelAction
  PROVE  \E i \in Procs : ServiceSees(i)
<1>1. UNCHANGED appVars /\ KernelStep /\ TypeInv /\ TypeInv'
  BY PromptTypes, TypeInvStep DEF KernelAction
<1>2. CASE PollIrq
  <2>1. NoIrq => UNCHANGED <<segVars, state>>
    BY DEF NoIrq
  <2>2. NoIrq \/ handleIrqFifo
    BY <1>2 DEF PollIrq
  <2>3. ASSUME NEW m \in Datagram, Delivers(m) PROVE \E i \in Procs : ServiceSees(i)
    BY <1>1, <1>2, <2>3, DeliverService
  <2> QED
    BY <1>1, <1>2, <2>1, <2>2, <2>3, InterruptCases, QuietKernelService
<1>3. CASE PollReplies
  BY <1>1, <1>3, QuietKernelService, ReceiveService DEF PollReplies
<1> QED
  BY <1>1, <1>2, <1>3, QuietKernelService, RequestService DEF KernelStep
----------------------------------------------------------------------------
(* The refinement. *)

LEMMA SystemStep ==
  ASSUME Prompt, MaxLost = 0, Calm, PromptInv, PromptInv', [Next]_vars
  PROVE  [Service!Next]_calls
<1>1. NoLoss /\ NoLoss'
  <2>1. lost \in 0..MaxLost /\ lost' \in 0..MaxLost
    BY DEF PromptInv, ExclusionInv, TypeInv, TypeOK
  <2> QED
    BY <2>1 DEF NoLoss
<1>2. Agree /\ Agree'
  BY <1>1, CallIsView, CallIsViewNext
<1>3. CASE UNCHANGED vars \/ Terminated
  <2>1. UNCHANGED calls
    BY <1>3 DEF Terminated, calls, CallOf, Polled, About, vars, machineVars, appVars,
                kernelVars
  <2> QED
    BY <2>1
<1>4. CASE Next /\ ~Terminated
  <2>1. ~LoseRequest /\ ~LoseReply
    BY <1>1 DEF NoLoss, LoseRequest, LoseReply
  <2>2. \E i \in Procs : ServiceSees(i)
    BY <1>1, <1>4, <2>1, AppService, EnvironmentService, KernelService, ServerService
       DEF Next, NoLoss, Prompt, Calm
  <2>3. PICK i \in Procs : ServiceSees(i)
    BY <2>2
  <2>4. CASE Moves(View(i), View(i)')
    BY <1>2, <2>3, <2>4, ServiceStep DEF ServiceSees
  <2>5. CASE View(i)' = View(i)
    <3>1. \A j \in Procs : CallOf(j)' = CallOf(j)
      BY <1>2, <2>3, <2>5 DEF ServiceSees, Agree
    <3> QED
      BY <3>1 DEF calls
  <2> QED
    BY <2>3, <2>4, <2>5 DEF ServiceSees
<1> QED
  BY <1>3, <1>4

LEMMA InitialCalls == Init => calls = [c \in Procs |-> Service!NoCall]
<1> SUFFICES ASSUME Init PROVE \A i \in Procs : CallOf(i) = Service!NoCall
  BY DEF calls
<1>1. PromptInv /\ NoLoss
  BY InitPromptInv DEF Init, NoLoss
<1>2. ASSUME NEW i \in Procs PROVE View(i) = Service!NoCall
  <2>1. /\ apc[i] = "start" /\ ~has_request[i] /\ ~has_reply[i] /\ state[i] = "READY"
        /\ kpc = "boot" /\ reqs = <<>>
    BY DEF Init, AppInit, MachineInit, KernelInit
  <2>2. About(reqs, i) = {}
    BY <1>1, <2>1, WhereMessagesAre DEF NoLoss
  <2> QED
    BY <2>1, <2>2 DEF View, Pending, Polled
<1> QED
  BY <1>1, <1>2, CallIsView DEF Agree

\* Every call is executed once, answered with its own outcome and consumed
\* before the app posts another; no app leaves with a call in progress.
THEOREM T1ImplementsService ==
  ASSUME Prompt, MaxLost = 0
  PROVE  Spec => ImplementsService
<1>1. Calm /\ PromptInv /\ PromptInv' /\ [Next]_vars => [Service!Next]_calls
  BY SystemStep
<1>2. Spec => [](PromptInv /\ Calm)
  BY PromptInvariant
<1> QED
  BY <1>1, <1>2, InitialCalls, PTL DEF Spec, ImplementsService, Service!Spec, Service!Init, calls
=============================================================================
