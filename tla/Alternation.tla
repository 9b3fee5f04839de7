----------------------------- MODULE Alternation -----------------------------
(***************************************************************************)
(* LAB3: a parent lets one of two children run at a time, by SIGSTOP and   *)
(* SIGCONT.  After a failed fork it signals process -1, which is every     *)
(* process of the user but itself.                                         *)
(***************************************************************************)
EXTENDS Integers

CONSTANT NumTrades  \* numTrades (10 in the code)

ASSUME NumTradesAssumption == NumTrades \in Nat

VARIABLES
  main,     \* what the parent does: <<what, to whom>>
  forked,   \* forked[c]: there is a child c
  status,   \* status[p]: of the children and of the user's other processes
  trade     \* i

tradeVars == <<main, forked, status, trade>>

Brood   == {"c1", "c2"}
People  == Brood \cup {"others"}

TradeInit ==
  /\ main = <<"fork", "c1">>
  /\ forked = [c \in Brood |-> FALSE]
  /\ status = [p \in People |-> IF p = "others" THEN "running" ELSE "none"]
  /\ trade = 0

ForkBrood(c) ==
  /\ main = <<"fork", c>>
  /\ \E done \in BOOLEAN :
       /\ forked' = [forked EXCEPT ![c] = done]
       /\ status' = [status EXCEPT ![c] = IF done THEN "running" ELSE "none"]
  /\ main' = IF c = "c1" THEN <<"fork", "c2">> ELSE <<"stop", "c1">>
  /\ UNCHANGED trade

\* kill(c, signal), where c may be -1.
Signalled(c) == IF forked[c] THEN {c} ELSE {p \in People : status[p] # "none"}

Signal(c, became) ==
  status' = [p \in People |-> IF p \in Signalled(c) THEN became ELSE status[p]]

\* Both are stopped before the first turn.
StopFirst(c) ==
  /\ main = <<"stop", c>>
  /\ Signal(c, "stopped")
  /\ main' = IF c = "c1" THEN <<"stop", "c2">>
             ELSE IF NumTrades > 0 THEN <<"turn", "c1">> ELSE <<"kill", "c1">>
  /\ UNCHANGED <<forked, trade>>

\* Mutant: c1 is never stopped again.
IsContinuedAlways(c) == c = "c1" \/ trade % 2 = 1

IsContinued(c) == (c = "c1") <=> (trade % 2 = 0)

\* The two signals of a turn go to c1, then to c2.
Trade(c) ==
  /\ main = <<"turn", c>>
  /\ Signal(c, IF IsContinued(c) THEN "running" ELSE "stopped")
  /\ main' = IF c = "c1" THEN <<"turn", "c2">> ELSE <<"sleep", "">>
  /\ UNCHANGED <<forked, trade>>

Sleep ==
  /\ main[1] = "sleep"
  /\ trade' = trade + 1
  /\ main' = IF trade + 1 < NumTrades THEN <<"turn", "c1">> ELSE <<"kill", "c1">>
  /\ UNCHANGED <<forked, status>>

KillBrood(c) ==
  /\ main = <<"kill", c>>
  /\ Signal(c, "dead")
  /\ main' = IF c = "c1" THEN <<"kill", "c2">> ELSE <<"end", "">>
  /\ UNCHANGED <<forked, trade>>

TradeNext ==
  \/ \E c \in Brood : ForkBrood(c) \/ StopFirst(c) \/ Trade(c) \/ KillBrood(c)
  \/ Sleep
----------------------------------------------------------------------------
TradeTypeOK ==
  /\ main \in {"fork", "stop", "turn", "sleep", "kill", "end"} \X (Brood \cup {""})
  /\ forked \in [Brood -> BOOLEAN]
  /\ status \in [People -> {"none", "running", "stopped", "dead"}]
  /\ trade \in 0..NumTrades

\* If both forks succeed, exactly one child runs while the parent sleeps, the
\* other one than in the turn before, and no process but the children is ever
\* signalled.  (After a failed fork, others are stopped and killed as well.)
ChildrenTakeTurns ==
  [][(\A c \in Brood : forked[c]) =>
       /\ status'["others"] = "running"
       /\ Sleep => {c \in Brood : status[c] = "running"}
                     = {IF trade % 2 = 0 THEN "c1" ELSE "c2"}]_tradeVars
============================================================================
