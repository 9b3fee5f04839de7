--------------------------- MODULE SyscallService ---------------------------
(***************************************************************************)
(* What T1 promises to an app, without kernel, scheduler, interrupts or    *)
(* datagrams: a system call is posted, executed once by the file server,   *)
(* answered with the outcome of that very call, and consumed by the app    *)
(* before it posts the next one.  T1System is shown to implement this.     *)
(***************************************************************************)
EXTENDS Integers

CONSTANTS
  Clients,  \* the apps
  Ops,      \* the system calls
  Last      \* an app makes at most one call per tag 1..Last

VARIABLE call   \* call[c]: the call of app c in progress, and how far it is

Phases == {"idle", "posted", "executed", "answered", "gone"}
Calls  == [phase : Phases, op : Ops \cup {""}, tag : 0..Last]

NoCall == [phase |-> "idle", op |-> "", tag |-> 0]
Gone   == [phase |-> "gone", op |-> "", tag |-> 0]

Init == call = [c \in Clients |-> NoCall]

Becomes(c, value) == call' = [call EXCEPT ![c] = value]

Post(c) ==
  /\ call[c] = NoCall
  /\ \E o \in Ops, t \in 1..Last :
       Becomes(c, [phase |-> "posted", op |-> o, tag |-> t])

Advance(c, from, to) ==
  /\ call[c].phase = from
  /\ call' = [call EXCEPT ![c].phase = to]

Execute(c) == Advance(c, "posted", "executed")
Answer(c)  == Advance(c, "executed", "answered")

Consume(c) == call[c].phase = "answered" /\ Becomes(c, NoCall)

\* An app leaves only when it waits for nothing.
Leave(c) == call[c].phase \in {"idle", "answered"} /\ Becomes(c, Gone)

\* Every step changes the call of one client.
Next ==
  \E c \in Clients :
    /\ call'[c] # call[c]
    /\ Post(c) \/ Execute(c) \/ Answer(c) \/ Consume(c) \/ Leave(c)

\* The service is at work on every call it has accepted.
Fairness == \A c \in Clients : WF_call(Execute(c)) /\ WF_call(Answer(c))

Spec     == Init /\ [][Next]_call
FairSpec == Spec /\ Fairness
============================================================================
