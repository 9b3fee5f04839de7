----------------------------- MODULE CallMonitor -----------------------------
(***************************************************************************)
(* LAB4/EX2: a program that waits in pause(); SIGUSR1 starts a telephone   *)
(* call, SIGUSR2 ends it, prints its price and ends the program.  A        *)
(* handler blocks its own signal only, so SIGUSR1 may interrupt the        *)
(* handler of SIGUSR2, and either may arrive anywhere in main.             *)
(***************************************************************************)
EXTENDS Integers, FiniteSets

CONSTANTS
  FlatSeconds,   \* seconds at 2 cents, before those at 1 cent (60 in the code)
  MaxTime,       \* bound on the clock
  MaxSignals     \* bound on the number of signals

ASSUME FlatSecondsAssumption == FlatSeconds \in Nat
ASSUME MaxTimeAssumption     == MaxTime \in Nat \ {0}
ASSUME MaxSignalsAssumption  == MaxSignals \in Nat

VARIABLES
  mpc,       \* main: "test" of loop, "before" pause, "asleep" in it, "done"
  loop,      \* the flag
  inicio,    \* when the call began, 0 if it has not
  fpc,       \* fim_ligacao: "off", "checked" inicio, or has "read" the clock
  fim,       \* what it read there
  now,       \* time(NULL)
  pending,   \* signals sent and not yet handled
  sent,      \* number of signals sent
  preco,     \* the price printed last, in cents
  restarted  \* the call was restarted after that, a history

monitorVars == <<mpc, loop, inicio, fpc, fim, now, pending, sent, preco, restarted>>

\* Both handlers are installed.
MonitorInit ==
  /\ mpc = "test"
  /\ loop = TRUE
  /\ inicio = 0
  /\ fpc = "off"
  /\ fim = 0
  /\ now = 1
  /\ pending = {}
  /\ sent = 0
  /\ preco = 0
  /\ restarted = FALSE

\* The user sends signals, and time passes.
SendSignal ==
  /\ mpc # "done" /\ sent < MaxSignals
  /\ \E s \in {"SIGUSR1", "SIGUSR2"} : pending' = pending \cup {s}
  /\ sent' = sent + 1
  /\ UNCHANGED <<mpc, loop, inicio, fpc, fim, now, preco, restarted>>

Tick ==
  /\ now < MaxTime
  /\ now' = now + 1
  /\ UNCHANGED <<mpc, loop, inicio, fpc, fim, pending, sent, preco, restarted>>

\* pause() returns when the handler that woke the program has returned.
Woken == mpc' = IF mpc = "asleep" THEN "test" ELSE mpc

\* Mutant: a new call sets the flag again.
inicio_ligacaoAgain ==
  /\ "SIGUSR1" \in pending /\ mpc # "done"
  /\ pending' = pending \ {"SIGUSR1"}
  /\ inicio' = now
  /\ loop' = TRUE
  /\ restarted' = (fpc = "read")
  /\ IF fpc = "off" THEN Woken ELSE UNCHANGED mpc
  /\ UNCHANGED <<fpc, fim, now, sent, preco>>

inicio_ligacao ==
  /\ "SIGUSR1" \in pending /\ mpc # "done"
  /\ pending' = pending \ {"SIGUSR1"}
  /\ inicio' = now
  /\ restarted' = (fpc = "read")
  /\ IF fpc = "off" THEN Woken ELSE UNCHANGED mpc
  /\ UNCHANGED <<loop, fpc, fim, now, sent, preco>>

\* fim_ligacao: is there a call?
fim_ligacao ==
  /\ "SIGUSR2" \in pending /\ mpc # "done" /\ fpc = "off"
  /\ pending' = pending \ {"SIGUSR2"}
  /\ restarted' = FALSE
  /\ IF inicio = 0
     THEN Woken /\ UNCHANGED fpc
     ELSE fpc' = "checked" /\ UNCHANGED mpc
  /\ UNCHANGED <<loop, inicio, fim, now, sent, preco>>

ReadClock ==
  /\ fpc = "checked"
  /\ fpc' = "read"
  /\ fim' = now
  /\ UNCHANGED <<mpc, loop, inicio, now, pending, sent, preco, restarted>>

\* Mutant: the second rate for every second of a long call.
PriceAllCheap(duracao) == IF duracao <= FlatSeconds THEN 2 * duracao ELSE duracao

Price(duracao) ==
  IF duracao <= FlatSeconds THEN 2 * duracao
  ELSE 2 * FlatSeconds + (duracao - FlatSeconds)

PrintPrice ==
  /\ fpc = "read"
  /\ fpc' = "off"
  /\ preco' = Price(fim - inicio)
  /\ loop' = FALSE
  /\ Woken
  /\ UNCHANGED <<inicio, fim, now, pending, sent, restarted>>

\* main executes while no handler does.
MainStep ==
  /\ fpc = "off"
  /\ \/ mpc = "test" /\ mpc' = IF loop THEN "before" ELSE "done"
     \/ mpc = "before" /\ mpc' = "asleep"
  /\ UNCHANGED <<loop, inicio, fpc, fim, now, pending, sent, preco, restarted>>

MonitorStep == MainStep \/ inicio_ligacao \/ fim_ligacao \/ ReadClock \/ PrintPrice

MonitorNext == MonitorStep \/ SendSignal \/ Tick
----------------------------------------------------------------------------
MonitorTypeOK ==
  /\ mpc \in {"test", "before", "asleep", "done"}
  /\ loop \in BOOLEAN
  /\ inicio \in 0..MaxTime
  /\ fpc \in {"off", "checked", "read"}
  /\ fim \in 0..MaxTime
  /\ now \in 1..MaxTime
  /\ pending \subseteq {"SIGUSR1", "SIGUSR2"}
  /\ sent \in 0..MaxSignals
  /\ preco \in Int
  /\ restarted \in BOOLEAN

\* A call costs two cents for each of its first FlatSeconds seconds since the
\* last start, and one for any other.  If a SIGUSR1 comes between reading the
\* clock and computing the price, the call is free: what is printed is 0, or
\* negative by two cents for each second that passed in between.
PriceIsRight ==
  [][PrintPrice =>
       LET seconds == inicio..(fim - 1)
           first   == {s \in seconds : s - inicio < FlatSeconds}
       IN preco' = IF restarted THEN -(2 * Cardinality(fim..(inicio - 1)))
                   ELSE 2 * Cardinality(first) + Cardinality(seconds \ first)]_monitorVars

\* A SIGUSR2 that arrives between the test of loop and pause() is lost, but it
\* costs no more than one further signal of either kind: once the flag is
\* down, the program ends if it tests it or if another signal is on its way.
EndIsNoticed ==
  (~loop /\ (mpc = "test" \/ (mpc = "asleep" /\ pending # {}))) ~> mpc = "done"
============================================================================
