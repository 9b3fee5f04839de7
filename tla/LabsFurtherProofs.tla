-------------------------- MODULE LabsFurtherProofs --------------------------
(***************************************************************************)
(* The other exercises of the labs, and the types of all of them.  The     *)
(* proofs are laid out as in LabsProofs.                                   *)
(***************************************************************************)
EXTENDS LabsProofs, WellFoundedInduction

(* LAB3.  The parent lets one of two children run at a time.               *)

AllForked == \A c \in Brood : forked[c]
Turn      == IF trade % 2 = 0 THEN "c1" ELSE "c2"

\* What the parent does.
Places ==
  {<<"fork", "c1">>, <<"fork", "c2">>, <<"stop", "c1">>, <<"stop", "c2">>,
   <<"turn", "c1">>, <<"turn", "c2">>, <<"sleep", "">>,
   <<"kill", "c1">>, <<"kill", "c2">>, <<"end", "">>}

TradeTyped ==
  /\ forked \in [Brood -> BOOLEAN]
  /\ status \in [People -> {"none", "running", "stopped", "dead"}]
  /\ trade \in 0..NumTrades
  /\ main \in Places
  /\ main[1] \in {"fork", "stop"} => trade = 0
  /\ main[1] \in {"turn", "sleep"} => trade < NumTrades

\* Nobody is signalled before both forks have been tried; if they succeed only
\* children are; c1 has been signalled for this turn when c2 is about to be, and
\* both have when the parent sleeps.
TurnsInv ==
  /\ main[1] = "fork" => ~forked["c2"] /\ status["others"] = "running"
  /\ AllForked => status["others"] = "running"
  /\ AllForked /\ (main = <<"turn", "c2">> \/ main[1] = "sleep") =>
       status["c1"] = IF Turn = "c1" THEN "running" ELSE "stopped"
  /\ AllForked /\ main[1] = "sleep" =>
       status["c2"] = IF Turn = "c2" THEN "running" ELSE "stopped"

TradeInv == TradeTyped /\ TurnsInv

LEMMA TradeTypedInductive == TradeTyped /\ [TradeNext]_tradeVars => TradeTyped'
  <1> SUFFICES ASSUME TradeTyped, [TradeNext]_tradeVars PROVE TradeTyped'
    OBVIOUS
  <1> USE NumTradesAssumption DEF TradeTyped, Places
  <1>1. ASSUME NEW c \in Brood, ForkBrood(c) PROVE TradeTyped'
    <2>1. /\ forked' \in [Brood -> BOOLEAN] /\ trade' = trade
          /\ status' \in [People -> {"none", "running", "stopped", "dead"}]
      BY <1>1 DEF ForkBrood, People, Brood
    <2>2. main[1] = "fork"
      BY <1>1 DEF ForkBrood
    <2>3. main' = <<"fork", "c2">> \/ main' = <<"stop", "c1">>
      BY <1>1 DEF ForkBrood
    <2>4. trade' = 0
      BY <2>1, <2>2
    <2>5. main' \in Places /\ main'[1] \notin {"turn", "sleep"}
      <3> HIDE DEF TradeTyped
      <3>1. CASE main' = <<"fork", "c2">>
        BY <3>1
      <3>2. CASE main' = <<"stop", "c1">>
        BY <3>2
      <3>3. QED
        BY <2>3, <3>1, <3>2
    <2>6. trade' \in 0..NumTrades
      BY <2>1
    <2>7. QED
      BY <2>1, <2>4, <2>5, <2>6
  <1>2. ASSUME NEW c \in Brood, StopFirst(c) PROVE TradeTyped'
    BY <1>2 DEF StopFirst, Signal, Brood
  <1>3. ASSUME NEW c \in Brood, Trade(c) PROVE TradeTyped'
    BY <1>3 DEF Trade, Signal, Brood
  <1>4. ASSUME NEW c \in Brood, KillBrood(c) PROVE TradeTyped'
    BY <1>4 DEF KillBrood, Signal, Brood
  <1>5. ASSUME Sleep PROVE TradeTyped'
    <2>1. /\ trade < NumTrades /\ trade' = trade + 1
          /\ forked' = forked /\ status' = status
          /\ main' = IF trade + 1 < NumTrades THEN <<"turn", "c1">> ELSE <<"kill", "c1">>
      BY <1>5 DEF Sleep
    <2>2. trade' \in 0..NumTrades
      <3>1. trade \in 0..NumTrades
        OBVIOUS
      <3> HIDE DEF TradeTyped, Places
      <3>2. QED
        BY <2>1, <3>1
    <2>3. CASE trade + 1 < NumTrades
      <3>1. main' = <<"turn", "c1">> /\ main'[1] = "turn"
        BY <2>1, <2>3
      <3>2. QED
        BY <2>1, <2>2, <2>3, <3>1
    <2>4. CASE ~(trade + 1 < NumTrades)
      <3>1. main' = <<"kill", "c1">> /\ main'[1] = "kill"
        BY <2>1, <2>4
      <3>2. QED
        BY <2>1, <2>2, <3>1
    <2>5. QED
      BY <2>3, <2>4
  <1>6. ASSUME UNCHANGED tradeVars PROVE TradeTyped'
    BY <1>6 DEF tradeVars
  <1>7. QED
    BY <1>1, <1>2, <1>3, <1>4, <1>5, <1>6 DEF TradeNext

LEMMA TradeTypes == TradeTyped => TradeTypeOK
  <1>1. Places \subseteq
          {"fork", "stop", "turn", "sleep", "kill", "end"} \X (Brood \cup {""})
    <2> DEFINE Acts == {"fork", "stop", "turn", "sleep", "kill", "end"}
               Whom == Brood \cup {""}
    <2>1. \A a \in Acts, b \in Whom : <<a, b>> \in Acts \X Whom
      OBVIOUS
    <2>2. /\ {"fork", "stop", "turn", "sleep", "kill", "end"} \subseteq Acts
          /\ {"c1", "c2", ""} \subseteq Whom
      BY DEF Brood
    <2> HIDE DEF Acts, Whom
    <2>3. Places \subseteq Acts \X Whom
      BY <2>1, <2>2 DEF Places
    <2>4. QED
      BY <2>3 DEF Acts, Whom
  <1>2. QED
    BY <1>1 DEF TradeTyped, TradeTypeOK

LEMMA TurnsInductive == TradeInv /\ [TradeNext]_tradeVars => TurnsInv'
  <1> SUFFICES ASSUME TradeInv, [TradeNext]_tradeVars PROVE TurnsInv'
    OBVIOUS
  <1> USE DEF TradeInv, TradeTyped, Places, TurnsInv, AllForked, Turn, People, Brood
  <1>1. ASSUME NEW c \in Brood, ForkBrood(c) PROVE TurnsInv'
    BY <1>1 DEF ForkBrood
  <1>2. ASSUME NEW c \in Brood, StopFirst(c) PROVE TurnsInv'
    BY <1>2 DEF StopFirst, Signal, Signalled
  <1>3. ASSUME NEW c \in Brood, Trade(c) PROVE TurnsInv'
    BY <1>3 DEF Trade, Signal, Signalled, IsContinued
  <1>4. ASSUME NEW c \in Brood, KillBrood(c) PROVE TurnsInv'
    BY <1>4 DEF KillBrood, Signal, Signalled
  <1>5. ASSUME Sleep PROVE TurnsInv'
    BY <1>5 DEF Sleep
  <1>6. ASSUME UNCHANGED tradeVars PROVE TurnsInv'
    BY <1>6 DEF tradeVars
  <1>7. QED
    BY <1>1, <1>2, <1>3, <1>4, <1>5, <1>6 DEF TradeNext

LEMMA TradeAlways == Spec => []TradeInv
  <1>1. Init => TradeInv
    <2> SUFFICES ASSUME TradeInit PROVE TradeInv
      BY DEF Init
    <2>1. /\ main = <<"fork", "c1">> /\ main[1] = "fork" /\ trade = 0
          /\ forked \in [Brood -> BOOLEAN] /\ ~forked["c2"]
          /\ status \in [People -> {"none", "running", "stopped", "dead"}]
          /\ status["others"] = "running"
      BY DEF TradeInit, People, Brood
    <2>2. TradeTyped
      BY <2>1, NumTradesAssumption DEF TradeTyped, Places
    <2>3. TurnsInv
      BY <2>1 DEF TurnsInv, AllForked, Brood
    <2>4. QED
      BY <2>2, <2>3 DEF TradeInv
  <1>2. TradeInv /\ [Next]_labVars => TradeInv'
    BY Frame, TradeTypedInductive, TurnsInductive DEF TradeInv
  <1>3. QED
    BY <1>1, <1>2, PTL DEF Spec

\* If both forks of LAB3 succeed, exactly one child runs while the parent
\* sleeps, the other one than in the turn before, and no process but the
\* children is ever signalled.
THEOREM TurnsAlternate == Spec => ChildrenTakeTurns
  <1> DEFINE Bullet ==
        (\A c \in Brood : forked[c]) =>
           /\ status'["others"] = "running"
           /\ Sleep => {c \in Brood : status[c] = "running"}
                         = {IF trade % 2 = 0 THEN "c1" ELSE "c2"}
  <1>1. TradeInv /\ TradeInv' /\ [Next]_labVars => [Bullet]_tradeVars
    <2> SUFFICES ASSUME TradeInv, TradeInv', [TradeNext]_tradeVars,
                        ~UNCHANGED tradeVars, AllForked
                 PROVE  /\ status'["others"] = "running"
                        /\ Sleep => {c \in Brood : status[c] = "running"}
                                      = {IF trade % 2 = 0 THEN "c1" ELSE "c2"}
      BY Frame DEF AllForked
    <2>1. forked' = forked
      <3>1. main[1] # "fork"
        BY DEF TradeInv, TurnsInv, AllForked, Brood
      <3>2. \A c \in Brood : ~ForkBrood(c)
        BY <3>1 DEF ForkBrood
      <3>3. QED
        BY <3>2 DEF TradeNext, StopFirst, Trade, KillBrood, Sleep, tradeVars
    <2>2. status'["others"] = "running"
      BY <2>1 DEF TradeInv, TurnsInv, AllForked
    <2>3. ASSUME Sleep PROVE {c \in Brood : status[c] = "running"} = {Turn}
      BY <2>3 DEF Sleep, TradeInv, TurnsInv, Turn, Brood
    <2>4. QED
      BY <2>2, <2>3 DEF Turn
  <1>2. QED
    BY <1>1, TradeAlways, PTL DEF Spec, ChildrenTakeTurns
----------------------------------------------------------------------------
(* LAB4/EX2.  Signal handlers that share the times of a call.              *)

\* The call began in the past, and before the clock was read at its end
\* exactly if it has not been restarted since then.
MonitorInv ==
  /\ MonitorTypeOK
  /\ inicio <= now
  /\ fpc = "checked" => ~restarted
  /\ fpc = "read" => fim <= now
  /\ fpc = "read" /\ ~restarted => inicio <= fim
  /\ fpc = "read" /\ restarted => fim <= inicio

LEMMA MonitorInductive == MonitorInv /\ [MonitorNext]_monitorVars => MonitorInv'
  <1> SUFFICES ASSUME MonitorInv, [MonitorNext]_monitorVars PROVE MonitorInv'
    OBVIOUS
  <1> USE MaxTimeAssumption, MaxSignalsAssumption, FlatSecondsAssumption
      DEF MonitorInv, MonitorTypeOK, Woken
  <1>1. ASSUME SendSignal PROVE MonitorInv'
    BY <1>1 DEF SendSignal
  <1>2. ASSUME Tick PROVE MonitorInv'
    BY <1>2 DEF Tick
  <1>3. ASSUME inicio_ligacao PROVE MonitorInv'
    <2>1. /\ inicio' = now /\ now' = now /\ fpc' = fpc /\ fim' = fim
          /\ restarted' = (fpc = "read")
      BY <1>3 DEF inicio_ligacao
    <2>2. MonitorTypeOK'
      BY <1>3 DEF inicio_ligacao
    <2>3. (fpc' = "read" => restarted') /\ (fpc' = "checked" => ~restarted')
      BY <2>1
    <2>4. inicio' <= now' /\ (fpc' = "read" => fim' <= now' /\ fim' <= inicio')
      BY <2>1
    <2>5. QED
      BY <2>2, <2>3, <2>4
  <1>4. ASSUME fim_ligacao PROVE MonitorInv'
    BY <1>4 DEF fim_ligacao
  <1>5. ASSUME ReadClock PROVE MonitorInv'
    BY <1>5 DEF ReadClock
  <1>6. ASSUME PrintPrice PROVE MonitorInv'
    <2>1. Price(fim - inicio) \in Int
      BY DEF Price
    <2>2. MonitorTypeOK' /\ fpc' = "off" /\ inicio' = inicio /\ now' = now
      BY <1>6, <2>1 DEF PrintPrice
    <2>3. QED
      BY <2>2
  <1>7. ASSUME MainStep PROVE MonitorInv'
    BY <1>7 DEF MainStep
  <1>8. ASSUME UNCHANGED monitorVars PROVE MonitorInv'
    BY <1>8 DEF monitorVars
  <1>9. QED
    BY <1>1, <1>2, <1>3, <1>4, <1>5, <1>6, <1>7, <1>8 DEF MonitorNext, MonitorStep

LEMMA MonitorAlways == Spec => []MonitorInv
  <1>1. Init => MonitorInv
    <2>1. 0 \in 0..MaxTime /\ 1 \in 1..MaxTime /\ 0 \in 0..MaxSignals
      BY MaxTimeAssumption, MaxSignalsAssumption
    <2> SUFFICES ASSUME MonitorInit PROVE MonitorInv
      BY DEF Init
    <2>2. inicio = 0 /\ now = 1 /\ fpc = "off"
      BY DEF MonitorInit
    <2>3. MonitorTypeOK
      <3>1. loop \in BOOLEAN /\ restarted \in BOOLEAN
        BY DEF MonitorInit
      <3>2. 0 \in Int
        OBVIOUS
      <3>3. QED
        BY <2>1, <3>1, <3>2 DEF MonitorInit, MonitorTypeOK
    <2>4. QED
      BY <2>2, <2>3 DEF MonitorInv
  <1>2. MonitorInv /\ [Next]_labVars => MonitorInv'
    BY Frame, MonitorInductive
  <1>3. QED
    BY <1>1, <1>2, PTL DEF Spec

\* What Price computes is two cents for each of the first FlatSeconds seconds
\* from a to b, and one cent for any other.
LEMMA PriceCounts ==
  ASSUME NEW a \in Int, NEW b \in Int, a <= b
  PROVE  LET seconds == a..(b - 1)
             first   == {s \in seconds : s - a < FlatSeconds}
         IN  Price(b - a) = 2 * Cardinality(first) + Cardinality(seconds \ first)
  <1> DEFINE seconds == a..(b - 1)
             first   == {s \in seconds : s - a < FlatSeconds}
  <1> USE FlatSecondsAssumption
  <1>1. CASE b - a <= FlatSeconds
    <2>1. first = a..(b - 1) /\ seconds \ first = {}
      BY <1>1
    <2>2. Cardinality(first) = b - a /\ Cardinality(seconds \ first) = 0
      <3>1. Cardinality(a..(b - 1)) = IF a > b - 1 THEN 0 ELSE b - 1 - a + 1
        BY FS_Interval
      <3>2. Cardinality(seconds \ first) = 0
        BY <2>1, FS_EmptySet
      <3> HIDE DEF seconds, first
      <3>3. QED
        BY <2>1, <3>1, <3>2
    <2> HIDE DEF seconds, first
    <2>3. Price(b - a) = 2 * Cardinality(first) + Cardinality(seconds \ first)
      BY <1>1, <2>2 DEF Price
    <2>4. QED
      BY <2>3 DEF seconds, first
  <1>2. CASE b - a > FlatSeconds
    <2> DEFINE m == a + FlatSeconds
    <2>1. first = a..(m - 1) /\ seconds \ first = m..(b - 1)
      BY <1>2
    <2>2. Cardinality(first) = FlatSeconds /\ Cardinality(seconds \ first) = b - m
      <3>1. Cardinality(a..(m - 1)) = IF a > m - 1 THEN 0 ELSE m - 1 - a + 1
        BY FS_Interval
      <3>2. Cardinality(m..(b - 1)) = IF m > b - 1 THEN 0 ELSE b - 1 - m + 1
        BY FS_Interval
      <3>3. m - 1 - a + 1 = FlatSeconds /\ b - 1 - m + 1 = b - m
            /\ ~(m > b - 1) /\ (a > m - 1 => FlatSeconds = 0)
        BY <1>2
      <3> HIDE DEF seconds, first, m
      <3>4. Cardinality(a..(m - 1)) = FlatSeconds
        BY <3>1, <3>3
      <3>5. Cardinality(m..(b - 1)) = b - m
        BY <3>2, <3>3
      <3>6. QED
        BY <2>1, <3>4, <3>5
    <2> HIDE DEF seconds, first
    <2>3. Price(b - a) = 2 * Cardinality(first) + Cardinality(seconds \ first)
      BY <1>2, <2>2 DEF Price
    <2>4. QED
      BY <2>3 DEF seconds, first
  <1>3. QED
    BY <1>1, <1>2

\* A call of LAB4/EX2 costs two cents for each of its first FlatSeconds seconds
\* since its last start, and one for any other; after a SIGUSR1 between reading
\* the clock and computing the price, nothing, less two cents for each second
\* that passed in between.
THEOREM PriceIsAlwaysRight == Spec => PriceIsRight
  <1> DEFINE Bullet ==
        PrintPrice =>
          LET seconds == inicio..(fim - 1)
              first   == {s \in seconds : s - inicio < FlatSeconds}
          IN preco' = IF restarted THEN -(2 * Cardinality(fim..(inicio - 1)))
                      ELSE 2 * Cardinality(first) + Cardinality(seconds \ first)
  <1>1. MonitorInv => Bullet
    <2> SUFFICES ASSUME MonitorInv, PrintPrice PROVE Bullet
      OBVIOUS
    <2>1. inicio \in Int /\ fim \in Int /\ fpc = "read"
      BY DEF MonitorInv, MonitorTypeOK, PrintPrice
    <2>2. preco' = Price(fim - inicio)
      BY DEF PrintPrice
    <2>3. CASE ~restarted
      <3>1. inicio <= fim
        BY <2>1, <2>3 DEF MonitorInv
      <3>2. QED
        BY <2>1, <2>2, <2>3, <3>1, PriceCounts
    <2>4. CASE restarted
      <3>1. fim <= inicio
        BY <2>1, <2>4 DEF MonitorInv
      <3>2. Price(fim - inicio) = 2 * (fim - inicio)
        BY <2>1, <3>1, FlatSecondsAssumption DEF Price
      <3>3. Cardinality(fim..(inicio - 1)) = inicio - fim
        <4>1. Cardinality(fim..(inicio - 1))
                = IF fim > inicio - 1 THEN 0 ELSE inicio - 1 - fim + 1
          BY <2>1, FS_Interval
        <4>2. QED
          BY <2>1, <3>1, <4>1
      <3>4. 2 * (fim - inicio) = -(2 * (inicio - fim))
        BY <2>1
      <3>5. preco' = -(2 * Cardinality(fim..(inicio - 1)))
        BY <2>2, <3>2, <3>3, <3>4
      <3>6. QED
        BY <2>4, <3>5
    <2>5. QED
      BY <2>3, <2>4
  <1>2. QED
    BY <1>1, MonitorAlways, PTL DEF PriceIsRight
----------------------------------------------------------------------------
(* LAB6/EX3.  Lines in upper case: first what the operators on buffers do. *)

\* A nonempty set of indices has a least element, because there is no infinite
\* chain of ever smaller sets of indices.
LEMMA LeastIndex ==
  ASSUME NEW n \in Nat, NEW I, I \subseteq 1..n, I # {}
  PROVE  Min(I) \in I /\ \A i \in I : Min(I) <= i
  <1> DEFINE UpTo(x) == {y \in I : y <= x}
             T == {UpTo(x) : x \in I}
             R == StrictSubsetOrdering(1..n)
  <1>1. IsWellFoundedOn(R, SUBSET (1..n))
    <2>1. IsFiniteSet(1..n)
      BY FS_Interval
    <2>2. QED
      BY <2>1, FS_StrictSubsetOrderingWellFounded, FS_FiniteSubsetsOfFinite
  <1>2. T \subseteq SUBSET (1..n) /\ T # {}
    OBVIOUS
  <1>3. \E t \in T : \A u \in T : <<u, t>> \notin R
    <2> HIDE DEF T, R
    <2> QED BY <1>1, <1>2, WFMin
  <1>4. PICK x \in I : \A y \in I : <<UpTo(y), UpTo(x)>> \notin R
    BY <1>3
  <1>5. \A z \in I : z \in Int
    OBVIOUS
  <1>6. ASSUME NEW y \in I, y < x PROVE FALSE
    <2>1. \A z \in I : z <= y => z <= x
      BY <1>5, <1>6
    <2>2. x <= x /\ ~(x <= y)
      BY <1>5, <1>6
    <2>3. UpTo(y) \subseteq UpTo(x) /\ x \in UpTo(x) /\ x \notin UpTo(y)
      BY <2>1, <2>2
    <2>4. UpTo(y) \in SUBSET (1..n) /\ UpTo(x) \in SUBSET (1..n)
      OBVIOUS
    <2> HIDE DEF UpTo
    <2>5. <<UpTo(y), UpTo(x)>> \in R
      BY <2>3, <2>4 DEF StrictSubsetOrdering
    <2>6. QED
      BY <1>4, <2>5
  <1>7. \A y \in I : x <= y
    BY <1>5, <1>6
  <1>8. QED
    BY <1>7 DEF Min

\* A string is what precedes the first NUL of its buffer.
LEMMA StringFacts ==
  ASSUME NEW S, NEW bytes \in Seq(S)
  PROVE  /\ StringIn(bytes) \in Seq(S)
         /\ \E n \in 0..Len(bytes) :
              StringIn(bytes) = SubSeq(bytes, 1, n) /\ \A j \in 1..n : bytes[j] # NUL
  <1> DEFINE b == bytes \o <<NUL>>
             I == {i \in 1..Len(b) : b[i] = NUL}
  <1>1. /\ Len(bytes) \in Nat /\ Len(b) = Len(bytes) + 1 /\ b[Len(b)] = NUL
        /\ \A j \in 1..Len(bytes) : b[j] = bytes[j]
    <2>1. bytes \in Seq(S \cup {NUL}) /\ <<NUL>> \in Seq(S \cup {NUL}) /\ Len(<<NUL>>) = 1
      OBVIOUS
    <2>2. QED
      BY <2>1, ConcatProperties
  <1>2. Len(b) \in I
    BY <1>1
  <1>3. Min(I) \in 1..(Len(bytes) + 1) /\ \A i \in I : Min(I) <= i
    <2>1. I \subseteq 1..(Len(bytes) + 1) /\ I # {} /\ Len(bytes) + 1 \in Nat
      BY <1>1, <1>2
    <2> HIDE DEF I
    <2>2. Min(I) \in I /\ \A i \in I : Min(I) <= i
      BY <2>1, LeastIndex
    <2>3. QED
      BY <2>1, <2>2
  <1> DEFINE k == Min(I)
  <1>4. SelectInSeq(b, LAMBDA x : x = NUL) = k
    BY <1>2 DEF SelectInSeq
  <1>5. StringIn(bytes) = SubSeq(bytes, 1, k - 1)
    BY <1>4 DEF StringIn
  <1>6. k \in 1..(Len(bytes) + 1) /\ \A i \in I : k <= i
    BY <1>3
  <1> HIDE DEF k
  <1>7. k - 1 \in 0..Len(bytes) /\ \A i \in 1..(k - 1) : bytes[i] \in S
    BY <1>1, <1>6
  <1>8. StringIn(bytes) \in Seq(S)
    BY <1>5, <1>7, SubSeqProperties
  <1>9. ASSUME NEW j \in 1..(k - 1) PROVE bytes[j] # NUL
    <2>1. j \in 1..Len(bytes) /\ j \in 1..Len(b) /\ ~(k <= j)
      BY <1>1, <1>6
    <2>2. j \notin I
      BY <1>6, <2>1
    <2>3. QED
      BY <1>1, <2>1, <2>2
  <1>10. QED
    BY <1>5, <1>7, <1>8, <1>9

LEMMA LettersFacts ==
  ASSUME NEW k \in Nat, NEW n \in Nat, NEW S, k \in S, NUL \in S
  PROVE  /\ Letters(k, n) \in Seq(S) /\ Len(Letters(k, n)) = n
         /\ \A j \in 1..n : Letters(k, n)[j] = k
         /\ Bytes(Letters(k, n)) \in Seq(S) /\ Len(Bytes(Letters(k, n))) = n + 1
         /\ \A j \in 1..n : Bytes(Letters(k, n))[j] = k
         /\ Bytes(Letters(k, n))[n + 1] = NUL
  <1>1. /\ Letters(k, n) \in Seq(S) /\ Len(Letters(k, n)) = n
        /\ \A j \in 1..n : Letters(k, n)[j] = k
    BY DEF Letters
  <1>2. QED
    BY <1>1, AppendProperties DEF Bytes

\* The string in the bytes that write sends is the string that was sent.
LEMMA StringOfBytes ==
  ASSUME NEW k \in Nat \ {0}, NEW n \in Nat
  PROVE  StringIn(Bytes(Letters(k, n))) = Letters(k, n)
  <1> DEFINE bytes == Bytes(Letters(k, n))
             b == bytes \o <<NUL>>
             I == {i \in 1..Len(b) : b[i] = NUL}
  <1>1. /\ bytes \in Seq(Nat) /\ Len(bytes) = n + 1 /\ bytes[n + 1] = NUL
        /\ \A j \in 1..n : bytes[j] = k
    <2>1. k \in Nat /\ NUL \in Nat
      BY DEF NUL
    <2>2. QED
      BY <2>1, LettersFacts
  <1>2. /\ Len(b) = n + 2
        /\ \A j \in 1..(n + 1) : b[j] = bytes[j]
    <2>1. <<NUL>> \in Seq(Nat) /\ Len(<<NUL>>) = 1
      BY DEF NUL
    <2> HIDE DEF bytes
    <2>2. QED
      BY <1>1, <2>1, ConcatProperties
  <1>3. n + 1 \in I /\ \A i \in I : n + 1 <= i
    <2>1. \A j \in 1..n : b[j] # NUL
      BY <1>1, <1>2 DEF NUL
    <2>2. b[n + 1] = NUL
      BY <1>1, <1>2
    <2> HIDE DEF b
    <2>3. QED
      BY <1>2, <2>1, <2>2
  <1>4. Min(I) = n + 1
    <2>1. I \subseteq Int
      BY <1>2
    <2> HIDE DEF I
    <2>2. \A x \in I : x <= n + 1 => x = n + 1
      BY <1>3, <2>1
    <2>3. \A x \in I : (\A y \in I : x <= y) => x = n + 1
      BY <1>3, <2>2
    <2>4. QED
      BY <1>3, <2>3 DEF Min
  <1>5. SelectInSeq(b, LAMBDA x : x = NUL) = n + 1
    BY <1>3, <1>4 DEF SelectInSeq
  <1>6. StringIn(bytes) = SubSeq(bytes, 1, n)
    <2>1. StringIn(bytes) = SubSeq(bytes, 1, (n + 1) - 1)
      BY <1>5 DEF StringIn
    <2>2. (n + 1) - 1 = n
      OBVIOUS
    <2>3. QED
      BY <2>1, <2>2
  <1>7. /\ SubSeq(bytes, 1, n) \in Seq(Nat) /\ Len(SubSeq(bytes, 1, n)) = n
        /\ \A j \in 1..n : SubSeq(bytes, 1, n)[j] = k
    <2> HIDE DEF bytes
    <2>1. QED
      BY <1>1, SubSeqProperties
  <1>8. /\ Letters(k, n) \in Seq(Nat) /\ Len(Letters(k, n)) = n
        /\ \A j \in 1..n : Letters(k, n)[j] = k
    <2>1. k \in Nat /\ NUL \in Nat
      BY DEF NUL
    <2>2. QED
      BY <2>1, LettersFacts
  <1> HIDE DEF bytes
  <1>9. SubSeq(bytes, 1, n) = Letters(k, n)
    BY <1>7, <1>8
  <1>10. QED
    BY <1>6, <1>9 DEF bytes

\* What fits into one read is taken whole.
LEMMA TakenWhole ==
  ASSUME NEW S, NEW bytes \in Seq(S), Len(bytes) < TAM
  PROVE  Taken(bytes) = bytes /\ Left(bytes) = <<>>
  <1>1. Count(bytes) = Len(bytes) /\ Len(bytes) \in Nat
    BY DEF Count
  <1>2. QED
    BY <1>1, SubSeqFull, SubSeqEmpty DEF Taken, Left

LEMMA TakenFacts ==
  ASSUME NEW S, NEW bytes \in Seq(S)
  PROVE  Taken(bytes) \in Seq(S) /\ Left(bytes) \in Seq(S)
  <1>1. Len(bytes) \in Nat /\ Count(bytes) \in 0..Len(bytes)
    BY TAMAssumption DEF Count
  <1>2. QED
    BY <1>1, SubSeqProperties DEF Taken, Left

\* The server answers a line with the same number of upper-case letters.
LEMMA EchoOfBytes ==
  ASSUME NEW k \in 1..MaxLines, NEW n \in Nat
  PROVE  Echo(Bytes(Letters(k, n))) = Bytes(Letters(MaxLines + k, n))
  <1>1. StringIn(Bytes(Letters(k, n))) = Letters(k, n)
    BY StringOfBytes, MaxLinesAssumption
  <1>2. toUppercase(Letters(k, n)) = Letters(MaxLines + k, n)
    BY DEF toUppercase, Letters, toupper
  <1>3. QED
    BY <1>1, <1>2 DEF Echo

LEMMA EchoFacts ==
  ASSUME NEW bytes \in Seq(0..(2 * MaxLines))
  PROVE  Echo(bytes) \in Seq(0..(2 * MaxLines))
  <1>1. StringIn(bytes) \in Seq(0..(2 * MaxLines))
    BY StringFacts
  <1>2. \A b \in 0..(2 * MaxLines) : toupper(b) \in 0..(2 * MaxLines)
    BY MaxLinesAssumption DEF toupper
  <1>3. toUppercase(StringIn(bytes)) \in Seq(0..(2 * MaxLines))
    <2> DEFINE s == StringIn(bytes)
               B == 0..(2 * MaxLines)
    <2>1. s \in Seq(B) /\ Len(s) \in Nat /\ DOMAIN s = 1..Len(s)
      BY <1>1
    <2>2. \A b \in B : toupper(b) \in B
      BY <1>2
    <2> HIDE DEF s, B
    <2>3. [j \in DOMAIN s |-> toupper(s[j])] \in Seq(B)
      BY <2>1, <2>2
    <2>4. QED
      BY <2>3 DEF s, B, toUppercase
  <1>4. 0 \in 0..(2 * MaxLines)
    BY MaxLinesAssumption
  <1>5. QED
    BY <1>3, <1>4, AppendProperties DEF Echo, Bytes, NUL

\* A buffer of letters of C that does not mix lines: between different letters
\* there is a NUL.
Unmixed(bytes, C) ==
  /\ \A j \in 1..Len(bytes) : bytes[j] # NUL => bytes[j] \in C
  /\ \A i, j \in 1..Len(bytes) :
       i < j /\ bytes[i] # bytes[j] => \E m \in i..j : bytes[m] = NUL

EndsInNUL(bytes) == bytes # <<>> => bytes[Len(bytes)] = NUL

\* The string in such a buffer is a number of equal letters.
LEMMA StringUnmixed ==
  ASSUME NEW S, NEW bytes \in Seq(S), NEW C, C # {}, Unmixed(bytes, C)
  PROVE  \E c \in C, n \in 0..Len(bytes) : StringIn(bytes) = Letters(c, n)
  <1>1. PICK n \in 0..Len(bytes) :
          StringIn(bytes) = SubSeq(bytes, 1, n) /\ \A j \in 1..n : bytes[j] # NUL
    BY StringFacts
  <1>2. Len(bytes) \in Nat /\ n \in Nat /\ n <= Len(bytes)
    BY <1>1
  <1>3. /\ SubSeq(bytes, 1, n) \in Seq(S) /\ Len(SubSeq(bytes, 1, n)) = n
        /\ \A j \in 1..n : SubSeq(bytes, 1, n)[j] = bytes[j]
    <2>1. \A j \in 1..n : bytes[j] \in S
      BY <1>2
    <2>2. QED
      BY <1>2, <2>1, SubSeqProperties
  <1>4. \E c \in C : \A j \in 1..n : bytes[j] = c
    <2>1. CASE n = 0
      BY <2>1
    <2>2. CASE n > 0
      <3>1. bytes[1] \in C
        BY <1>1, <1>2, <2>2 DEF Unmixed
      <3>2. ASSUME NEW j \in 1..n, bytes[j] # bytes[1] PROVE FALSE
        <4>1. 1 < j /\ 1 \in 1..Len(bytes) /\ j \in 1..Len(bytes)
          BY <1>2, <3>2
        <4>2. PICK m \in 1..j : bytes[m] = NUL
          BY <3>2, <4>1 DEF Unmixed
        <4>3. QED
          BY <1>1, <4>2
      <3>3. QED
        BY <3>1, <3>2
    <2>3. QED
      BY <1>2, <2>1, <2>2
  <1>5. PICK c \in C : \A j \in 1..n : bytes[j] = c
    BY <1>4
  <1>6. SubSeq(bytes, 1, n) = Letters(c, n)
    <2> DEFINE s == SubSeq(bytes, 1, n)
    <2>1. s \in Seq(S) /\ DOMAIN s = 1..n /\ \A j \in 1..n : s[j] = c
      BY <1>3, <1>5
    <2> HIDE DEF s
    <2>2. s = [j \in 1..n |-> c]
      BY <2>1
    <2>3. QED
      BY <2>2 DEF s, Letters
  <1>7. QED
    BY <1>1, <1>6

\* What a read takes, and what it leaves, is as little mixed as what was there.
LEMMA UnmixedTaken ==
  ASSUME NEW S, NEW bytes \in Seq(S), NEW C, Unmixed(bytes, C)
  PROVE  /\ Unmixed(Taken(bytes), C) /\ Unmixed(Left(bytes), C)
         /\ EndsInNUL(bytes) => EndsInNUL(Left(bytes))
         /\ Len(Taken(bytes)) \in 0..(TAM - 1)
  <1> DEFINE n == Count(bytes)
             L == Len(bytes)
  <1>1. L \in Nat /\ n \in Nat /\ n <= L /\ n <= TAM - 1
    BY TAMAssumption DEF Count
  <1>2. /\ Len(Taken(bytes)) = n /\ \A j \in 1..n : Taken(bytes)[j] = bytes[j]
        /\ Len(Left(bytes)) = L - n
        /\ \A j \in 1..(L - n) : Left(bytes)[j] = bytes[n + j]
        /\ Left(bytes) \in Seq(S)
    <2>1. \A j \in 1..L : bytes[j] \in S
      OBVIOUS
    <2>2. /\ Len(SubSeq(bytes, 1, n)) = n
          /\ \A j \in 1..n : SubSeq(bytes, 1, n)[j] = bytes[j]
      <3> HIDE DEF n, L
      <3>1. 1 \in Int /\ n \in Int /\ \A j \in 1..n : bytes[j] \in S
        BY <1>1, <2>1
      <3>2. /\ Len(SubSeq(bytes, 1, n)) = IF 1 <= n THEN n - 1 + 1 ELSE 0
            /\ \A j \in 1..(n - 1 + 1) : SubSeq(bytes, 1, n)[j] = bytes[1 + j - 1]
        BY <3>1, SubSeqProperties
      <3>3. QED
        BY <1>1, <3>2
    <2>3. /\ Len(SubSeq(bytes, n + 1, L)) = L - n
          /\ \A j \in 1..(L - n) : SubSeq(bytes, n + 1, L)[j] = bytes[n + j]
          /\ SubSeq(bytes, n + 1, L) \in Seq(S)
      <3> HIDE DEF n, L
      <3>1. n + 1 \in Int /\ L \in Int /\ \A j \in (n + 1)..L : bytes[j] \in S
        BY <1>1, <2>1
      <3>2. /\ Len(SubSeq(bytes, n + 1, L)) = IF n + 1 <= L THEN L - (n + 1) + 1 ELSE 0
            /\ \A j \in 1..(L - (n + 1) + 1) :
                 SubSeq(bytes, n + 1, L)[j] = bytes[n + 1 + j - 1]
            /\ SubSeq(bytes, n + 1, L) \in Seq(S)
        BY <3>1, SubSeqProperties
      <3>3. /\ L - (n + 1) + 1 = L - n
            /\ (IF n + 1 <= L THEN L - (n + 1) + 1 ELSE 0) = L - n
            /\ \A j \in 1..(L - n) : n + 1 + j - 1 = n + j
        BY <1>1
      <3>4. Len(SubSeq(bytes, n + 1, L)) = L - n
        BY <3>2, <3>3
      <3>5. ASSUME NEW j \in 1..(L - n) PROVE SubSeq(bytes, n + 1, L)[j] = bytes[n + j]
        BY <3>2, <3>3
      <3>6. QED
        BY <3>2, <3>4, <3>5
    <2>4. QED
      BY <2>2, <2>3 DEF Taken, Left
  <1> HIDE DEF n, L
  <1>3. /\ \A j \in 1..L : bytes[j] # NUL => bytes[j] \in C
        /\ \A i, j \in 1..L :
             i < j /\ bytes[i] # bytes[j] => \E m \in i..j : bytes[m] = NUL
    BY DEF Unmixed, L
  <1>4. Unmixed(Taken(bytes), C)
    <2>1. 1..n \subseteq 1..L
      BY <1>1
    <2>2. \A j \in 1..n : Taken(bytes)[j] # NUL => Taken(bytes)[j] \in C
      BY <1>2, <1>3, <2>1
    <2>3. ASSUME NEW i \in 1..n, NEW j \in 1..n, i < j, Taken(bytes)[i] # Taken(bytes)[j]
          PROVE  \E m \in i..j : Taken(bytes)[m] = NUL
      <3>1. PICK m \in i..j : bytes[m] = NUL
        BY <1>2, <1>3, <2>1, <2>3
      <3>2. m \in 1..n
        BY <1>1
      <3>3. QED
        BY <1>2, <3>1, <3>2
    <2>4. QED
      BY <1>2, <2>2, <2>3 DEF Unmixed
  <1>5. Unmixed(Left(bytes), C)
    <2>1. \A j \in 1..(L - n) : n + j \in 1..L
      BY <1>1
    <2>2. \A j \in 1..(L - n) : Left(bytes)[j] # NUL => Left(bytes)[j] \in C
      BY <1>2, <1>3, <2>1
    <2>3. ASSUME NEW i \in 1..(L - n), NEW j \in 1..(L - n), i < j,
                 Left(bytes)[i] # Left(bytes)[j]
          PROVE  \E m \in i..j : Left(bytes)[m] = NUL
      <3>1. bytes[n + i] # bytes[n + j]
        BY <1>2, <2>3
      <3>2. n + i < n + j /\ n + i \in 1..L /\ n + j \in 1..L
        BY <1>1, <2>1, <2>3
      <3>3. PICK m \in (n + i)..(n + j) : bytes[m] = NUL
        BY <1>3, <3>1, <3>2
      <3>4. m - n \in i..j /\ m - n \in 1..(L - n) /\ n + (m - n) = m
        BY <1>1
      <3>5. Left(bytes)[m - n] = bytes[n + (m - n)]
        BY <1>2, <3>4
      <3>6. QED
        BY <3>3, <3>4, <3>5
    <2>4. QED
      BY <1>2, <2>2, <2>3 DEF Unmixed
  <1>6. ASSUME EndsInNUL(bytes) PROVE EndsInNUL(Left(bytes))
    <2> SUFFICES ASSUME Left(bytes) # <<>> PROVE Left(bytes)[Len(Left(bytes))] = NUL
      BY DEF EndsInNUL
    <2>1. L - n \in Nat /\ L - n # 0
      BY <1>1, <1>2
    <2>2. L - n \in 1..(L - n) /\ n + (L - n) = L /\ L # 0
      BY <1>1, <2>1
    <2>3. Left(bytes)[L - n] = bytes[L]
      BY <1>2, <2>2
    <2>4. bytes[L] = NUL
      BY <1>6, <2>2 DEF EndsInNUL, L
    <2>5. QED
      BY <1>2, <2>3, <2>4
  <1>7. QED
    BY <1>1, <1>2, <1>4, <1>5, <1>6

\* Nor does one write after another mix them.
LEMMA UnmixedConcat ==
  ASSUME NEW S, NEW s \in Seq(S), NEW t \in Seq(S), NEW C, Unmixed(s, C), Unmixed(t, C),
         EndsInNUL(s), EndsInNUL(t)
  PROVE  Unmixed(s \o t, C) /\ EndsInNUL(s \o t)
  <1> DEFINE L == Len(s)
             M == Len(t)
             u == s \o t
  <1>1. /\ L \in Nat /\ M \in Nat /\ u \in Seq(S) /\ Len(u) = L + M
        /\ \A j \in 1..(L + M) : u[j] = IF j <= L THEN s[j] ELSE t[j - L]
    BY ConcatProperties
  <1>2. /\ L > 0 => s[L] = NUL
        /\ M > 0 => t[M] = NUL
    BY DEF EndsInNUL
  <1>3. /\ \A j \in 1..L : s[j] # NUL => s[j] \in C
        /\ \A i, j \in 1..L : i < j /\ s[i] # s[j] => \E m \in i..j : s[m] = NUL
        /\ \A j \in 1..M : t[j] # NUL => t[j] \in C
        /\ \A i, j \in 1..M : i < j /\ t[i] # t[j] => \E m \in i..j : t[m] = NUL
    BY DEF Unmixed
  <1> HIDE DEF L, M, u
  <1>4. \A j \in 1..L : j \in 1..(L + M) /\ u[j] = s[j]
    BY <1>1
  <1>5. \A j \in (L + 1)..(L + M) : j - L \in 1..M /\ u[j] = t[j - L]
    BY <1>1
  <1>6. \A j \in 1..(L + M) : u[j] # NUL => u[j] \in C
    <2> SUFFICES ASSUME NEW j \in 1..(L + M), u[j] # NUL PROVE u[j] \in C
      OBVIOUS
    <2>1. j \in 1..L \/ j \in (L + 1)..(L + M)
      BY <1>1
    <2>2. QED
      BY <1>3, <1>4, <1>5, <2>1
  <1>7. ASSUME NEW i \in 1..(L + M), NEW j \in 1..(L + M), i < j, u[i] # u[j]
        PROVE  \E m \in i..j : u[m] = NUL
    <2>1. CASE j <= L
      <3>1. i \in 1..L /\ j \in 1..L
        BY <1>1, <1>7, <2>1
      <3>2. PICK m \in i..j : s[m] = NUL
        BY <1>3, <1>4, <1>7, <3>1
      <3>3. m \in 1..L
        BY <1>1, <3>1
      <3>4. QED
        BY <1>4, <3>2, <3>3
    <2>2. CASE i <= L /\ j > L
      <3>1. L \in i..j /\ L \in 1..L /\ L > 0
        BY <1>1, <2>2
      <3>2. QED
        BY <1>2, <1>4, <3>1
    <2>3. CASE i > L
      <3>1. i \in (L + 1)..(L + M) /\ j \in (L + 1)..(L + M)
        BY <1>1, <1>7, <2>3
      <3>2. i - L \in 1..M /\ j - L \in 1..M /\ i - L < j - L
        BY <1>1, <1>7, <3>1
      <3>3. t[i - L] # t[j - L]
        BY <1>5, <1>7, <3>1
      <3>4. PICK m \in (i - L)..(j - L) : t[m] = NUL
        BY <1>3, <3>2, <3>3
      <3>5. L + m \in i..j /\ L + m \in (L + 1)..(L + M) /\ (L + m) - L = m
        BY <1>1, <3>1, <3>2
      <3>6. u[L + m] = t[m]
        BY <1>5, <3>5
      <3>7. QED
        BY <3>4, <3>5, <3>6
    <2>4. QED
      BY <1>1, <2>1, <2>2, <2>3
  <1>8. Unmixed(u, C)
    BY <1>1, <1>6, <1>7 DEF Unmixed
  <1>9. EndsInNUL(u)
    <2> SUFFICES ASSUME u # <<>> PROVE u[L + M] = NUL
      BY <1>1 DEF EndsInNUL
    <2>1. L + M # 0
      BY <1>1
    <2>2. CASE M = 0
      <3>1. L \in 1..L /\ L + M = L
        BY <1>1, <2>1, <2>2
      <3>2. QED
        BY <1>2, <1>4, <3>1
    <2>3. CASE M # 0
      <3>1. M > 0 /\ L + M \in (L + 1)..(L + M) /\ (L + M) - L = M
        BY <1>1, <2>3
      <3>2. QED
        BY <1>2, <1>5, <3>1
    <2>4. QED
      BY <2>2, <2>3
  <1>10. QED
    BY <1>8, <1>9 DEF u

LEMMA UnmixedLetters ==
  ASSUME NEW C, C \subseteq Nat, NEW k \in C, NEW n \in Nat
  PROVE  Unmixed(Bytes(Letters(k, n)), C) /\ EndsInNUL(Bytes(Letters(k, n)))
  <1> DEFINE s == Bytes(Letters(k, n))
  <1>1. /\ Len(s) = n + 1 /\ s[n + 1] = NUL
        /\ \A j \in 1..n : s[j] = k
    <2>1. k \in Nat /\ NUL \in Nat
      BY DEF NUL
    <2>2. QED
      BY <2>1, LettersFacts
  <1> HIDE DEF s
  <1>2. \A j \in 1..(n + 1) : j \in 1..n \/ j = n + 1
    OBVIOUS
  <1>3. \A j \in 1..(n + 1) : s[j] # NUL => s[j] \in C
    BY <1>1, <1>2
  <1>4. ASSUME NEW i \in 1..(n + 1), NEW j \in 1..(n + 1), i < j, s[i] # s[j]
        PROVE  \E m \in i..j : s[m] = NUL
    <2>1. j = n + 1 \/ (i \in 1..n /\ j \in 1..n)
      BY <1>4
    <2>2. j = n + 1 /\ j \in i..j
      BY <1>1, <1>4, <2>1
    <2>3. QED
      BY <1>1, <2>2
  <1>5. QED
    BY <1>1, <1>3, <1>4 DEF Unmixed, EndsInNUL, s

\* The server answers letters with their upper case.
LEMMA EchoUnmixed ==
  ASSUME NEW bytes \in Seq(0..(2 * MaxLines)), NEW k \in 1..MaxLines,
         Unmixed(bytes, 1..k)
  PROVE  /\ Unmixed(Echo(bytes), (MaxLines + 1)..(MaxLines + k))
         /\ EndsInNUL(Echo(bytes))
  <1>1. 1 \in 1..k /\ 1..k # {}
    <2>1. k \in Nat /\ 1 <= k
      BY MaxLinesAssumption
    <2>2. 1 \in 1..k
      BY <2>1
    <2>3. QED
      BY <2>2
  <1>2. PICK c \in 1..k, n \in 0..Len(bytes) : StringIn(bytes) = Letters(c, n)
    BY <1>1, StringUnmixed
  <1>3. c \in 1..MaxLines /\ n \in Nat
    BY MaxLinesAssumption
  <1>4. toUppercase(Letters(c, n)) = Letters(MaxLines + c, n)
    BY <1>3 DEF toUppercase, Letters, toupper
  <1>5. Echo(bytes) = Bytes(Letters(MaxLines + c, n))
    BY <1>2, <1>4 DEF Echo
  <1>6. /\ (MaxLines + 1)..(MaxLines + k) \subseteq Nat
        /\ MaxLines + c \in (MaxLines + 1)..(MaxLines + k)
    BY MaxLinesAssumption
  <1>7. QED
    BY <1>3, <1>5, <1>6, UnmixedLetters

Asked  == Bytes(Letters(line, length))
Answer == Bytes(Letters(MaxLines + line, length))

\* Where server and client can be together, once they have met.
UpperTyped ==
  /\ UpperTypeOK
  /\ cpc \notin {"prompt", "done"} => line > 0
  /\ cpc \in {"send", "openRecv"} => spc \in {"openWrite", "read", "reply", "dead"}
  /\ cpc = "recv" => spc \in {"read", "reply", "dead"}

\* While all lines fit, one line or one answer at most is under way, and it is
\* the last line or its answer: it is in one FIFO, or the server has taken it,
\* and the other FIFO is empty.
OneUnderWay ==
  ~full =>
    /\ length < TAM - 1
    /\ toClient # <<>> =>
         cpc = "recv" /\ toClient = Answer /\ spc = "read" /\ toServer = <<>>
    /\ toServer # <<>> =>
         cpc \in {"openRecv", "recv"} /\ toServer = Asked /\ spc \in {"openWrite", "read"}
    /\ spc = "reply" =>
         cpc \in {"openRecv", "recv"} /\ received = Asked /\ toServer = <<>> /\ toClient = <<>>
    /\ cpc = "close" /\ lidos # <<>> => lidos = Answer

UpperInv == UpperTyped /\ OneUnderWay

Buffers == Seq(0..(2 * MaxLines))

LEMMA AskedFacts ==
  ASSUME UpperTypeOK
  PROVE  Asked \in Buffers /\ Len(Asked) = length + 1 /\ Answer \in Buffers
         /\ Len(Answer) = length + 1
  <1>1. /\ line \in Nat /\ MaxLines + line \in Nat /\ length \in Nat
        /\ {line, MaxLines + line, NUL} \subseteq 0..(2 * MaxLines)
    BY MaxLinesAssumption, TAMAssumption DEF UpperTypeOK, NUL
  <1>2. QED
    BY <1>1, LettersFacts DEF Asked, Answer, Buffers

LEMMA UpperTypedInductive == UpperTyped /\ [UpperNext]_upperVars => UpperTyped'
  <1> SUFFICES ASSUME UpperTyped, [UpperNext]_upperVars PROVE UpperTyped'
    OBVIOUS
  <1>0. UpperTypeOK /\ {toServer, toClient, received, lidos} \subseteq Buffers
    BY DEF UpperTyped, UpperTypeOK, Buffers
  <1> USE TAMAssumption, MaxLinesAssumption
      DEF UpperTyped, UpperTypeOK, serverVars, clientVars, fifoVars
  <1>1. ASSUME Mkfifo PROVE UpperTyped'
    BY <1>1 DEF Mkfifo
  <1>2. ASSUME Type PROVE UpperTyped'
    BY <1>2 DEF Type
  <1>3. ASSUME Quit PROVE UpperTyped'
    BY <1>3 DEF Quit
  <1>4. ASSUME OpenSendFails PROVE UpperTyped'
    BY <1>4 DEF OpenSendFails
  <1>5. ASSUME MeetToSend PROVE UpperTyped'
    BY <1>5 DEF MeetToSend
  <1>6. ASSUME OpenSend PROVE UpperTyped'
    BY <1>6 DEF OpenSend
  <1>7. ASSUME Send PROVE UpperTyped'
    <2>1. toServer \o Asked \in Buffers
      BY <1>0, AskedFacts, ConcatProperties DEF Buffers
    <2>2. toServer' \in Buffers
      BY <1>0, <1>7, <2>1 DEF Send, Asked
    <2>3. QED
      BY <1>7, <2>2 DEF Send, Buffers
  <1>8. ASSUME MeetToReceive PROVE UpperTyped'
    BY <1>8 DEF MeetToReceive
  <1>9. ASSUME OpenReceive PROVE UpperTyped'
    BY <1>9 DEF OpenReceive
  <1>10. ASSUME ServerRead PROVE UpperTyped'
    <2>1. Taken(toServer) \in Buffers /\ Left(toServer) \in Buffers
      BY <1>0, TakenFacts DEF Buffers
    <2>2. QED
      BY <1>10, <2>1 DEF ServerRead, Buffers
  <1>11. ASSUME Reply PROVE UpperTyped'
    <2>1. Echo(received) \in Buffers
      BY <1>0, EchoFacts DEF Buffers
    <2>2. toClient \o Echo(received) \in Buffers
      BY <1>0, <2>1, ConcatProperties DEF Buffers
    <2>3. toClient' \in Buffers
      BY <1>0, <1>11, <2>2 DEF Reply
    <2>4. QED
      BY <1>11, <2>3 DEF Reply, Buffers
  <1>12. ASSUME Receive PROVE UpperTyped'
    <2>1. Taken(toClient) \in Buffers /\ Left(toClient) \in Buffers
      BY <1>0, TakenFacts DEF Buffers
    <2>2. QED
      BY <1>12, <2>1 DEF Receive, Buffers
  <1>13. ASSUME Close PROVE UpperTyped'
    BY <1>13 DEF Close
  <1>14. ASSUME UNCHANGED upperVars PROVE UpperTyped'
    BY <1>14 DEF upperVars
  <1>15. QED
    BY <1>1, <1>2, <1>3, <1>4, <1>5, <1>6, <1>7, <1>8, <1>9, <1>10, <1>11, <1>12, <1>13, <1>14
    DEF UpperNext, ServerStep, ClientStep

LEMMA OneUnderWayInductive == UpperInv /\ [UpperNext]_upperVars => OneUnderWay'
  <1> SUFFICES ASSUME UpperInv, [UpperNext]_upperVars PROVE OneUnderWay'
    OBVIOUS
  <1> SUFFICES ASSUME ~full' PROVE OneUnderWay'
    BY DEF OneUnderWay
  <1>0. UpperTypeOK /\ UpperTyped /\ OneUnderWay
    BY DEF UpperInv, UpperTyped
  <1>a. Asked \in Buffers /\ Len(Asked) = length + 1 /\ Answer \in Buffers
        /\ Len(Answer) = length + 1
    BY <1>0, AskedFacts
  <1>b. toServer \in Buffers /\ toClient \in Buffers /\ received \in Buffers
        /\ length \in Int /\ TAM \in Int
    BY <1>0, TAMAssumption DEF UpperTypeOK, Buffers
  \* Only Type changes the line.
  <1>c. ASSUME line' = line, length' = length PROVE Asked' = Asked /\ Answer' = Answer
    BY <1>c DEF Asked, Answer, Bytes, Letters
  <1> USE DEF serverVars, clientVars, fifoVars
  <1>1. ASSUME Mkfifo PROVE OneUnderWay'
    BY <1>0, <1>1, <1>c DEF Mkfifo, OneUnderWay
  <1>2. ASSUME Type PROVE OneUnderWay'
    <2>1. length' < TAM - 1 /\ ~full
      <3>1. full' = (full \/ length' = TAM - 1)
        BY <1>2 DEF Type
      <3>2. ~full /\ length' # TAM - 1
        BY <3>1
      <3>3. length' \in 0..(TAM - 1)
        BY <1>2 DEF Type
      <3>4. QED
        BY <3>2, <3>3, TAMAssumption
    <2>2. toServer' = <<>> /\ toClient' = <<>> /\ spc' # "reply" /\ cpc' = "openSend"
      BY <1>0, <1>2, <2>1 DEF Type, OneUnderWay
    <2>3. QED
      BY <2>1, <2>2 DEF OneUnderWay
  <1>3. ASSUME Quit PROVE OneUnderWay'
    BY <1>0, <1>3, <1>c DEF Quit, OneUnderWay
  <1>4. ASSUME OpenSendFails PROVE OneUnderWay'
    BY <1>0, <1>4, <1>c DEF OpenSendFails, OneUnderWay
  <1>5. ASSUME MeetToSend PROVE OneUnderWay'
    BY <1>0, <1>5, <1>c DEF MeetToSend, OneUnderWay
  <1>6. ASSUME OpenSend PROVE OneUnderWay'
    BY <1>0, <1>6, <1>c DEF OpenSend, OneUnderWay
  <1>7. ASSUME Send PROVE OneUnderWay'
    <2>1. ~full /\ toServer = <<>> /\ toClient = <<>> /\ spc # "reply"
          /\ spc \in {"openWrite", "read", "dead"}
      BY <1>0, <1>7 DEF Send, OneUnderWay, UpperTyped
    <2>2. <<>> \o Asked = Asked
      BY <1>a, ConcatEmptySeq DEF Buffers
    <2>3. CASE spc = "dead"
      BY <1>0, <1>7, <1>c, <2>1, <2>3 DEF Send, OneUnderWay
    <2>4. CASE spc # "dead"
      <3>1. toServer' = Asked /\ cpc' = "openRecv"
        BY <1>7, <2>1, <2>2, <2>4 DEF Send, Asked
      <3>2. QED
        BY <1>0, <1>7, <1>c, <2>1, <2>4, <3>1 DEF Send, OneUnderWay
    <2>5. QED
      BY <2>3, <2>4
  <1>8. ASSUME MeetToReceive PROVE OneUnderWay'
    BY <1>0, <1>8, <1>c DEF MeetToReceive, OneUnderWay
  <1>9. ASSUME OpenReceive PROVE OneUnderWay'
    BY <1>0, <1>9, <1>c DEF OpenReceive, OneUnderWay
  <1>10. ASSUME ServerRead PROVE OneUnderWay'
    <2>1. ~full /\ toServer = Asked /\ toClient = <<>> /\ cpc \in {"openRecv", "recv"}
      BY <1>0, <1>10 DEF ServerRead, OneUnderWay
    <2>2. Len(Asked) < TAM
      BY <1>0, <1>a, <1>b, <2>1 DEF OneUnderWay
    <2>3. received' = Asked /\ toServer' = <<>>
      BY <1>10, <1>a, <2>1, <2>2, TakenWhole DEF ServerRead, Buffers
    <2>4. QED
      BY <1>0, <1>10, <1>c, <2>1, <2>3 DEF ServerRead, OneUnderWay
  <1>11. ASSUME Reply PROVE OneUnderWay'
    <2>1. /\ ~full /\ received = Asked /\ toServer = <<>> /\ toClient = <<>>
          /\ cpc \in {"openRecv", "recv"}
      BY <1>0, <1>11 DEF Reply, OneUnderWay
    <2>2. Echo(Asked) = Answer
      <3>1. line \in 1..MaxLines /\ length \in Nat
        BY <1>0, <2>1, TAMAssumption, MaxLinesAssumption DEF UpperTyped, UpperTypeOK
      <3>2. QED
        BY <3>1, EchoOfBytes DEF Asked, Answer
    <2>3. CASE cpc = "recv"
      <3>1. toClient' = <<>> \o Answer /\ spc' = "read"
        BY <1>11, <2>1, <2>2, <2>3 DEF Reply
      <3>2. toClient' = Answer
        BY <1>a, <3>1, ConcatEmptySeq DEF Buffers
      <3>3. QED
        BY <1>0, <1>11, <1>c, <2>1, <2>3, <3>1, <3>2 DEF Reply, OneUnderWay
    <2>4. CASE cpc = "openRecv"
      BY <1>0, <1>11, <1>c, <2>1, <2>4 DEF Reply, OneUnderWay
    <2>5. QED
      BY <2>1, <2>3, <2>4
  <1>12. ASSUME Receive PROVE OneUnderWay'
    <2>1. CASE toClient # <<>>
      <3>1. ~full /\ toClient = Answer /\ spc = "read" /\ toServer = <<>>
        BY <1>0, <1>12, <2>1 DEF Receive, OneUnderWay
      <3>2. Len(Answer) < TAM
        BY <1>0, <1>a, <1>b, <3>1 DEF OneUnderWay
      <3>3. lidos' = Answer /\ toClient' = <<>>
        BY <1>12, <1>a, <3>1, <3>2, TakenWhole DEF Receive, Buffers
      <3>4. QED
        BY <1>0, <1>12, <1>c, <3>1, <3>3 DEF Receive, OneUnderWay
    <2>2. CASE toClient = <<>>
      <3>1. ~full /\ spc = "dead" /\ toServer = <<>>
        BY <1>0, <1>12, <2>2 DEF Receive, OneUnderWay
      <3>2. Len(<<>>) < TAM /\ <<>> \in Buffers
        BY TAMAssumption DEF Buffers
      <3>3. lidos' = <<>> /\ toClient' = <<>>
        BY <1>12, <2>2, <3>2, TakenWhole DEF Receive, Buffers
      <3>4. QED
        BY <1>0, <1>12, <1>c, <3>1, <3>3 DEF Receive, OneUnderWay
    <2>3. QED
      BY <2>1, <2>2
  <1>13. ASSUME Close PROVE OneUnderWay'
    BY <1>0, <1>13, <1>c DEF Close, OneUnderWay
  <1>14. ASSUME UNCHANGED upperVars PROVE OneUnderWay'
    BY <1>0, <1>14, <1>c DEF upperVars, OneUnderWay
  <1>15. QED
    BY <1>1, <1>2, <1>3, <1>4, <1>5, <1>6, <1>7, <1>8, <1>9, <1>10, <1>11, <1>12, <1>13, <1>14
    DEF UpperNext, ServerStep, ClientStep

\* Whatever the lengths of the lines, what is written into the FIFOs ends in
\* NUL, and no buffer mixes lines.
Uppers(k) == (MaxLines + 1)..(MaxLines + k)

Apart ==
  /\ EndsInNUL(toServer) /\ Unmixed(toServer, 1..line) /\ Unmixed(received, 1..line)
  /\ EndsInNUL(toClient) /\ Unmixed(toClient, Uppers(line)) /\ Unmixed(lidos, Uppers(line))
  /\ Len(lidos) \in 0..(TAM - 1)

LEMMA ApartInductive == UpperTyped /\ Apart /\ [UpperNext]_upperVars => Apart'
  <1> SUFFICES ASSUME UpperTyped, Apart, [UpperNext]_upperVars PROVE Apart'
    OBVIOUS
  <1>0. /\ toServer \in Buffers /\ toClient \in Buffers /\ received \in Buffers
        /\ line \in 0..MaxLines /\ length \in Nat
        /\ cpc \notin {"prompt", "done"} => line \in 1..MaxLines
    BY TAMAssumption, MaxLinesAssumption DEF UpperTyped, UpperTypeOK, Buffers
  <1> USE DEF serverVars, clientVars, fifoVars
  <1>1. ASSUME UNCHANGED <<toServer, toClient, received, line, lidos>> PROVE Apart'
    BY <1>1 DEF Apart, EndsInNUL, Unmixed, Uppers
  <1>2. ASSUME Type PROVE Apart'
    <2>1. /\ line' = line + 1 /\ UNCHANGED <<toServer, toClient, received, lidos>>
          /\ 1..line \subseteq 1..line' /\ Uppers(line) \subseteq Uppers(line')
      BY <1>0, <1>2, MaxLinesAssumption DEF Type, Uppers
    <2>2. ASSUME NEW bytes, NEW C, NEW D, C \subseteq D, Unmixed(bytes, C)
          PROVE  Unmixed(bytes, D)
      BY <2>2 DEF Unmixed
    <2>3. Unmixed(toServer, 1..line') /\ Unmixed(received, 1..line')
      BY <2>1, <2>2 DEF Apart
    <2>4. Unmixed(toClient, Uppers(line')) /\ Unmixed(lidos, Uppers(line'))
      BY <2>1, <2>2 DEF Apart
    <2>5. QED
      BY <2>1, <2>3, <2>4 DEF Apart
  <1>3. ASSUME Send PROVE Apart'
    <2>1. CASE spc = "dead"
      BY <1>1, <1>3, <2>1 DEF Send
    <2>2. CASE spc # "dead"
      <3>1. /\ toServer' = toServer \o Bytes(Letters(line, length))
            /\ UNCHANGED <<toClient, received, line, lidos>>
        BY <1>3, <2>2 DEF Send
      <3>2. line \in 1..line /\ 1..line \subseteq Nat
        BY <1>0, <1>3 DEF Send
      <3>3. /\ Unmixed(Bytes(Letters(line, length)), 1..line)
            /\ EndsInNUL(Bytes(Letters(line, length)))
        BY <1>0, <3>2, UnmixedLetters
      <3>4. Bytes(Letters(line, length)) \in Buffers
        BY AskedFacts DEF UpperTyped, Asked
      <3>5. Unmixed(toServer', 1..line) /\ EndsInNUL(toServer')
        BY <1>0, <3>1, <3>3, <3>4, UnmixedConcat DEF Apart, Buffers
      <3>6. QED
        BY <3>1, <3>5 DEF Apart
    <2>3. QED
      BY <2>1, <2>2
  <1>4. ASSUME ServerRead PROVE Apart'
    <2>1. /\ received' = Taken(toServer) /\ toServer' = Left(toServer)
          /\ UNCHANGED <<toClient, line, lidos>>
      BY <1>4 DEF ServerRead
    <2>2. /\ Unmixed(Taken(toServer), 1..line) /\ Unmixed(Left(toServer), 1..line)
          /\ EndsInNUL(Left(toServer))
      BY <1>0, UnmixedTaken DEF Apart, Buffers
    <2>3. QED
      BY <2>1, <2>2 DEF Apart
  <1>5. ASSUME Reply PROVE Apart'
    <2>1. CASE cpc \in {"recv", "close"}
      <3>1. toClient' = toClient \o Echo(received) /\ UNCHANGED <<toServer, received, line, lidos>>
        BY <1>5, <2>1 DEF Reply
      <3>2. line \in 1..MaxLines
        BY <1>0, <2>1
      <3>3. Unmixed(Echo(received), Uppers(line)) /\ EndsInNUL(Echo(received))
        BY <1>0, <3>2, EchoUnmixed DEF Apart, Buffers, Uppers
      <3>4. Echo(received) \in Buffers
        BY <1>0, EchoFacts DEF Buffers
      <3>5. Unmixed(toClient', Uppers(line)) /\ EndsInNUL(toClient')
        BY <1>0, <3>1, <3>3, <3>4, UnmixedConcat DEF Apart, Buffers
      <3>6. QED
        BY <3>1, <3>5 DEF Apart
    <2>2. CASE cpc \notin {"recv", "close"}
      BY <1>1, <1>5, <2>2 DEF Reply
    <2>3. QED
      BY <2>1, <2>2
  <1>6. ASSUME Receive PROVE Apart'
    <2>1. /\ lidos' = Taken(toClient) /\ toClient' = Left(toClient)
          /\ UNCHANGED <<toServer, received, line>>
      BY <1>6 DEF Receive
    <2>2. /\ Unmixed(Taken(toClient), Uppers(line)) /\ Unmixed(Left(toClient), Uppers(line))
          /\ EndsInNUL(Left(toClient)) /\ Len(Taken(toClient)) \in 0..(TAM - 1)
      BY <1>0, UnmixedTaken DEF Apart, Buffers
    <2>3. QED
      BY <2>1, <2>2 DEF Apart
  <1>7. UNCHANGED <<toServer, toClient, received, line, lidos>>
          \/ Type \/ Send \/ ServerRead \/ Reply \/ Receive
    BY DEF UpperNext, ServerStep, ClientStep, upperVars, Mkfifo, Quit, OpenSendFails,
           MeetToSend, OpenSend, MeetToReceive, OpenReceive, Close
  <1>8. QED
    BY <1>1, <1>2, <1>3, <1>4, <1>5, <1>6, <1>7

LEMMA UpperAlways == Spec => [](UpperInv /\ Apart)
  <1>1. Init => UpperInv /\ Apart
    <2> SUFFICES ASSUME UpperInit PROVE UpperInv /\ Apart
      BY DEF Init
    <2>1. <<>> \in Buffers /\ 0 \in 0..MaxLines /\ 0 \in 0..(TAM - 1) /\ 0 < TAM - 1
      BY TAMAssumption, MaxLinesAssumption DEF Buffers
    <2>2. UpperTyped
      BY <2>1 DEF UpperInit, UpperTyped, UpperTypeOK, Buffers
    <2>3. OneUnderWay
      BY <2>1 DEF UpperInit, OneUnderWay
    <2>4. Apart
      <3>1. Len(<<>>) = 0 /\ 1..0 = {}
        OBVIOUS
      <3>2. \A C : Unmixed(<<>>, C) /\ EndsInNUL(<<>>)
        BY <3>1 DEF Unmixed, EndsInNUL
      <3>3. QED
        BY <2>1, <3>1, <3>2 DEF UpperInit, Apart
    <2>5. QED
      BY <2>2, <2>3, <2>4 DEF UpperInv
  <1>2. UpperInv /\ Apart /\ [Next]_labVars => (UpperInv /\ Apart)'
    BY Frame, UpperTypedInductive, OneUnderWayInductive, ApartInductive DEF UpperInv
  <1>3. QED
    BY <1>1, <1>2, PTL DEF Spec

\* What the client of LAB6/EX3 prints is the line it sent last in upper case,
\* whole and without a byte of an earlier answer, as long as every line fits
\* with its NUL into one read of the server; and letters of one line, all in
\* upper case, if not.
THEOREM AnswerIsTheLine == Spec => []AnswersTheLine
  <1>1. UpperInv /\ Apart => AnswersTheLine
    <2> SUFFICES ASSUME UpperInv, Apart, cpc = "close", lidos # <<>> PROVE AnswersTheLine
      BY DEF AnswersTheLine
    <2>0. /\ line \in 1..MaxLines /\ length \in Nat /\ lidos \in Buffers
          /\ MaxLines + line \in Nat \ {0}
      BY TAMAssumption, MaxLinesAssumption DEF UpperInv, UpperTyped, UpperTypeOK, Buffers
    <2>1. CASE ~full
      <3>1. lidos = Answer
        BY <2>1 DEF UpperInv, OneUnderWay
      <3>2. QED
        BY <2>0, <2>1, <3>1, StringOfBytes DEF Answer, AnswersTheLine
    <2>2. CASE full
      <3>1. MaxLines + 1 \in Uppers(line)
        BY <2>0, MaxLinesAssumption DEF Uppers
      <3>2. PICK c \in Uppers(line), n \in 0..Len(lidos) : StringIn(lidos) = Letters(c, n)
        BY <2>0, <3>1, StringUnmixed DEF Apart, Buffers
      <3>3. c - MaxLines \in 1..line /\ MaxLines + (c - MaxLines) = c /\ n \in 0..(TAM - 1)
        BY <2>0, <3>2, MaxLinesAssumption, TAMAssumption DEF Apart, Uppers
      <3>4. \E k \in 1..line, m \in 0..(TAM - 1) :
              StringIn(lidos) = Letters(MaxLines + k, m)
        BY <3>2, <3>3
      <3>5. QED
        BY <2>2, <3>4 DEF AnswersTheLine
    <2>3. QED
      BY <2>1, <2>2
  <1>2. QED
    BY <1>1, UpperAlways, PTL
----------------------------------------------------------------------------
(* LAB2/EX1.  waitpid(pids[i]) returns when the child of row i is reaped,  *)
(* or was before by a waitpid(-1), however many forks have failed.         *)

MatrixInv ==
  /\ MatrixTypeOK
  /\ \A i \in MatrixRows : pids[i] \in {-1, i}
  /\ \A i \in zombie \cup reaped : filled[i] = Cols
  /\ step = "fork" => \A i \in MatrixRows : i >= row => pids[i] = -1
  /\ step = "wait" => \A i \in MatrixRows : i < row /\ pids[i] # -1 => i \in reaped
  /\ step \in {"print", "end"} => Forked \subseteq reaped

LEMMA MatrixInductive == MatrixInv /\ [MatrixNext]_matrixVars => MatrixInv'
  <1> SUFFICES ASSUME MatrixInv, [MatrixNext]_matrixVars PROVE MatrixInv'
    OBVIOUS
  <1> USE MatrixAssumption DEF MatrixInv, MatrixTypeOK, MatrixRows, Forked
  <1>1. ASSUME ForkRow PROVE MatrixInv'
    BY <1>1 DEF ForkRow, NextRow
  <1>2. ASSUME WaitRow PROVE MatrixInv'
    <2>1. /\ pids' = pids /\ filled' = filled
          /\ zombie' \cup reaped' = zombie \cup reaped
          /\ zombie' \cap reaped' = {} /\ reaped \subseteq reaped'
      BY <1>2 DEF WaitRow
    <2>2. pids[row] # -1 => row \in reaped'
      <3>1. CASE pids[row] = -1
        BY <3>1
      <3>2. CASE pids[row] # -1
        <4>1. pids[row] = row
          BY <3>2
        <4>2. Awaited(pids[row]) = {row} \ reaped
          BY <3>2, <4>1 DEF Awaited
        <4>3. QED
          BY <1>2, <4>2 DEF WaitRow
      <3>3. QED
        BY <3>1, <3>2
    <2>3. CASE row < Rows - 1
      <3>1. row' = row + 1 /\ step' = "wait" /\ step = "wait" /\ row' \in MatrixRows
        BY <1>2, <2>3 DEF WaitRow, NextRow
      <3>2. \A i \in MatrixRows : i < row' => i < row \/ i = row
        BY <3>1
      <3>3. QED
        BY <2>1, <2>2, <3>1, <3>2
    <2>4. CASE ~(row < Rows - 1)
      <3>1. row' = 0 /\ step' = "print" /\ step = "wait" /\ row' \in MatrixRows
        BY <1>2, <2>4 DEF WaitRow, NextRow
      <3>2. \A i \in MatrixRows : i < row \/ i = row
        BY <2>4
      <3>3. QED
        BY <2>1, <2>2, <3>1, <3>2
    <2>5. QED
      BY <2>3, <2>4
  <1>3. ASSUME PrintSum PROVE MatrixInv'
    BY <1>3 DEF PrintSum
  <1>4. ASSUME NEW i \in MatrixRows, FillCell(i) PROVE MatrixInv'
    BY <1>4 DEF FillCell
  <1>5. ASSUME NEW i \in MatrixRows, RowEnds(i) PROVE MatrixInv'
    BY <1>5 DEF RowEnds, Running
  <1>6. ASSUME UNCHANGED matrixVars PROVE MatrixInv'
    BY <1>6 DEF matrixVars
  <1>7. QED
    BY <1>1, <1>2, <1>3, <1>4, <1>5, <1>6 DEF MatrixNext, SumStep, RowStep

LEMMA MatrixInitial == MatrixInit => MatrixInv
  BY MatrixAssumption DEF MatrixInit, MatrixInv, MatrixTypeOK, MatrixRows, Forked
----------------------------------------------------------------------------
(* LAB6/EX2 and LAB6/EX1.                                                  *)

\* Each child that has written is in the FIFO or has been read, once; the
\* parent reads when no child is left, and ends when the FIFO is empty.
FamilyInv ==
  /\ FamilyTypeOK
  /\ IsInjective(lidas \o queue)
  /\ ToSet(lidas \o queue) = {i \in Filhos : filho[i] = "ended"}
  /\ pai = "open" => \A i \in Filhos : filho[i] = "none"
  /\ pai \in {"read", "ended"} => \A i \in Filhos : filho[i] \in {"ended", "failed"}
  /\ pai = "ended" => queue = <<>>

LEMMA FamilyTyped == FamilyTypeOK /\ [FamilyNext]_familyVars => FamilyTypeOK'
  <1> SUFFICES ASSUME FamilyTypeOK, [FamilyNext]_familyVars PROVE FamilyTypeOK'
    OBVIOUS
  <1> USE DEF FamilyTypeOK
  <1>1. ASSUME OpenNonblocking PROVE FamilyTypeOK'
    BY <1>1 DEF OpenNonblocking
  <1>2. ASSUME NEW i \in Filhos, ForkFilho(i) PROVE FamilyTypeOK'
    BY <1>2 DEF ForkFilho
  <1>3. ASSUME WaitForBoth PROVE FamilyTypeOK'
    BY <1>3 DEF WaitForBoth
  <1>4. ASSUME ReadAll PROVE FamilyTypeOK'
    <2>1. lidas \o queue \in Seq(Filhos) /\ <<>> \in Seq(Filhos)
      BY ConcatProperties
    <2>2. QED
      BY <1>4, <2>1 DEF ReadAll
  <1>5. ASSUME NEW i \in Filhos, FilhoOpens(i) PROVE FamilyTypeOK'
    BY <1>5 DEF FilhoOpens
  <1>6. ASSUME NEW i \in Filhos, FilhoWrites(i) PROVE FamilyTypeOK'
    <2>1. Append(queue, i) \in Seq(Filhos)
      BY AppendProperties
    <2>2. QED
      BY <1>6, <2>1 DEF FilhoWrites
  <1>7. ASSUME UNCHANGED familyVars PROVE FamilyTypeOK'
    BY <1>7 DEF familyVars
  <1>8. QED
    BY <1>1, <1>2, <1>3, <1>4, <1>5, <1>6, <1>7 DEF FamilyNext, PaiStep, FilhoStep

LEMMA LineTypesInductive == LineTypeOK /\ [LineNext]_lineVars => LineTypeOK'
  <1> SUFFICES ASSUME LineTypeOK, [LineNext]_lineVars PROVE LineTypeOK'
    OBVIOUS
  <1> USE MaxInputAssumption DEF LineTypeOK
  <1>1. ASSUME NEW p \in Programs, Access(p) PROVE LineTypeOK'
    BY <1>1 DEF Access
  <1>2. ASSUME NEW p \in Programs, MakeFifo(p) PROVE LineTypeOK'
    BY <1>2 DEF MakeFifo
  <1>3. ASSUME OpenBoth PROVE LineTypeOK'
    BY <1>3 DEF OpenBoth
  <1>4. ASSUME WriteLine PROVE LineTypeOK'
    <2>1. input + 1 \in 1..MaxInput /\ input' = input + 1
      BY <1>4 DEF WriteLine
    <2>2. Append(flow, input + 1) \in Seq(1..MaxInput)
      BY <2>1, AppendProperties
    <2>3. input' \in 0..MaxInput /\ {made', old'} \subseteq BOOLEAN /\ output' = output
      BY <1>4, <2>1 DEF WriteLine
    <2>4. flow' \in Seq(1..MaxInput)
      BY <1>4, <2>2 DEF WriteLine
    <2>5. at' \in [Programs -> {"access", "mkfifo", "open", "loop", "failed", "done", "killed"}]
      BY <1>4 DEF WriteLine, Programs
    <2>6. QED
      BY <2>3, <2>4, <2>5
  <1>5. ASSUME EndInput PROVE LineTypeOK'
    BY <1>5 DEF EndInput, Programs
  <1>6. ASSUME ReadLines PROVE LineTypeOK'
    <2>1. PICK n \in 0..Len(flow) :
            /\ output' = output \o SubSeq(flow, 1, n)
            /\ flow' = SubSeq(flow, n + 1, Len(flow))
            /\ at' = IF n = 0 THEN [at EXCEPT !["reader"] = "done"] ELSE at
      BY <1>6 DEF ReadLines
    <2>2. /\ SubSeq(flow, 1, n) \in Seq(1..MaxInput)
          /\ SubSeq(flow, n + 1, Len(flow)) \in Seq(1..MaxInput)
      BY SubSeqProperties
    <2>3. output \o SubSeq(flow, 1, n) \in Seq(1..MaxInput)
      BY <2>2, ConcatProperties
    <2>4. QED
      BY <1>6, <2>1, <2>2, <2>3 DEF ReadLines, Programs
  <1>7. ASSUME UNCHANGED lineVars PROVE LineTypeOK'
    BY <1>7 DEF lineVars
  <1>8. QED
    BY <1>1, <1>2, <1>3, <1>4, <1>5, <1>6, <1>7 DEF LineNext, LineStep

LEMMA AppendOnce ==
  ASSUME NEW S, NEW s \in Seq(S), NEW e \in S, IsInjective(s), e \notin ToSet(s)
  PROVE  IsInjective(Append(s, e)) /\ ToSet(Append(s, e)) = ToSet(s) \cup {e}
  <1> DEFINE t == Append(s, e)
  <1>1. /\ Len(s) \in Nat /\ DOMAIN s = 1..Len(s) /\ DOMAIN t = 1..(Len(s) + 1)
        /\ \A j \in 1..Len(s) : t[j] = s[j]
        /\ t[Len(s) + 1] = e
    BY AppendProperties
  <1>2. \A j \in DOMAIN s : s[j] # e
    BY DEF ToSet
  <1> HIDE DEF t
  <1>3. \A j \in DOMAIN t : j \in DOMAIN s \/ j = Len(s) + 1
    BY <1>1
  <1>4. \A j, k \in DOMAIN t : t[j] = t[k] => j = k
    BY <1>1, <1>2, <1>3 DEF IsInjective
  <1>5. ToSet(t) = ToSet(s) \cup {e}
    BY <1>1, <1>3 DEF ToSet
  <1>6. QED
    BY <1>4, <1>5 DEF IsInjective, t

LEMMA FamilyInductive == FamilyInv /\ [FamilyNext]_familyVars => FamilyInv'
  <1> SUFFICES ASSUME FamilyInv, [FamilyNext]_familyVars PROVE FamilyInv'
    OBVIOUS
  <1>0. FamilyTypeOK /\ FamilyTypeOK'
    BY FamilyTyped DEF FamilyInv
  <1> DEFINE all == lidas \o queue
  <1>1. all \in Seq(Filhos) /\ queue \in Seq(Filhos) /\ lidas \in Seq(Filhos)
    BY <1>0, ConcatProperties DEF FamilyTypeOK
  <1> USE <1>0 DEF FamilyInv, FamilyTypeOK
  <1>2. ASSUME OpenNonblocking PROVE FamilyInv'
    BY <1>2 DEF OpenNonblocking
  <1>3. ASSUME NEW i \in Filhos, ForkFilho(i) PROVE FamilyInv'
    BY <1>3 DEF ForkFilho
  <1>4. ASSUME WaitForBoth PROVE FamilyInv'
    BY <1>4 DEF WaitForBoth
  <1>5. ASSUME ReadAll PROVE FamilyInv'
    <2>1. lidas' = all /\ queue' = <<>> /\ filho' = filho
      BY <1>5 DEF ReadAll
    <2>2. lidas' \o queue' = all
      BY <1>1, <2>1, ConcatEmptySeq
    <2>3. IsInjective(lidas' \o queue')
          /\ ToSet(lidas' \o queue') = {i \in Filhos : filho'[i] = "ended"}
      BY <2>1, <2>2
    <2>4. pai' \in {"read", "ended"} /\ pai = "read"
      BY <1>5 DEF ReadAll
    <2>5. QED
      BY <2>1, <2>3, <2>4
  <1>6. ASSUME NEW i \in Filhos, FilhoOpens(i) PROVE FamilyInv'
    BY <1>6 DEF FilhoOpens
  <1>7. ASSUME NEW i \in Filhos, FilhoWrites(i) PROVE FamilyInv'
    <2>1. /\ lidas' = lidas /\ queue' = Append(queue, i) /\ pai' = pai /\ filho[i] = "write"
          /\ filho' = [filho EXCEPT ![i] = "ended"]
      BY <1>7 DEF FilhoWrites
    <2>2. lidas' \o queue' = Append(all, i)
      <3>1. queue' = queue \o <<i>> /\ Append(all, i) = all \o <<i>>
        BY <1>1, <2>1, AppendIsConcat
      <3>2. <<i>> \in Seq(Filhos)
        OBVIOUS
      <3> HIDE DEF FamilyInv, FamilyTypeOK
      <3>3. QED
        BY <1>1, <2>1, <3>1, <3>2, ConcatAssociative
    <2>3. i \notin ToSet(all) /\ IsInjective(all)
          /\ ToSet(all) = {j \in Filhos : filho[j] = "ended"}
      BY <2>1
    <2>4. IsInjective(lidas' \o queue')
          /\ ToSet(lidas' \o queue') = {j \in Filhos : filho[j] = "ended"} \cup {i}
      <3> HIDE DEF all, FamilyInv, FamilyTypeOK
      <3>1. IsInjective(Append(all, i)) /\ ToSet(Append(all, i)) = ToSet(all) \cup {i}
        BY <1>1, <2>3, AppendOnce
      <3>2. QED
        BY <2>2, <2>3, <3>1
    <2>5. {j \in Filhos : filho'[j] = "ended"} = {j \in Filhos : filho[j] = "ended"} \cup {i}
      BY <2>1
    <2>6. pai' \notin {"open", "read", "ended"}
      BY <2>1
    <2>7. QED
      BY <2>4, <2>5, <2>6
  <1>8. ASSUME UNCHANGED familyVars PROVE FamilyInv'
    BY <1>8 DEF familyVars
  <1>9. QED
    BY <1>2, <1>3, <1>4, <1>5, <1>6, <1>7, <1>8 DEF FamilyNext, PaiStep, FilhoStep

\* The lines that have been printed, and then those in the FIFO, are the lines
\* that have been typed.  The reader is there as long as the writer, and ends
\* when the writer has and the FIFO is empty.
FlowInv ==
  /\ LineTypeOK
  /\ output \o flow = [j \in 1..input |-> j]
  /\ at["writer"] # "killed"
  /\ at["writer"] = "loop" => at["reader"] = "loop"
  /\ at["reader"] \notin {"loop", "done"} => at["writer"] \notin {"loop", "done"}
  /\ at["reader"] = "done" => at["writer"] = "done" /\ flow = <<>>

LEMMA FlowInductive == FlowInv /\ [LineNext]_lineVars => FlowInv'
  <1> SUFFICES ASSUME FlowInv, [LineNext]_lineVars PROVE FlowInv'
    OBVIOUS
  <1>0. LineTypeOK /\ LineTypeOK'
    BY LineTypesInductive DEF FlowInv
  <1>a. /\ at \in [Programs -> {"access", "mkfifo", "open", "loop", "failed", "done", "killed"}]
        /\ flow \in Seq(1..MaxInput) /\ output \in Seq(1..MaxInput) /\ input \in Nat
    BY <1>0, MaxInputAssumption DEF LineTypeOK
  <1> USE <1>0, <1>a DEF FlowInv, Programs
  <1>1. ASSUME NEW p \in Programs, Access(p) PROVE FlowInv'
    BY <1>1 DEF Access
  <1>2. ASSUME NEW p \in Programs, MakeFifo(p) PROVE FlowInv'
    BY <1>2 DEF MakeFifo
  <1>3. ASSUME OpenBoth PROVE FlowInv'
    BY <1>3 DEF OpenBoth
  <1>4. ASSUME WriteLine PROVE FlowInv'
    <2>1. /\ at' = at /\ flow' = Append(flow, input + 1) /\ output' = output
          /\ input' = input + 1 /\ input + 1 \in 1..MaxInput
      BY <1>4, MaxInputAssumption DEF WriteLine, LineTypeOK
    <2> DEFINE typed == [j \in 1..input |-> j]
    <2>2. output' \o flow' = Append(typed, input + 1)
      <3>1. /\ flow' = flow \o <<input + 1>>
            /\ Append(output \o flow, input + 1) = (output \o flow) \o <<input + 1>>
        <4>1. output \o flow \in Seq(1..MaxInput)
          BY ConcatProperties
        <4>2. QED
          BY <2>1, <4>1, AppendIsConcat
      <3>2. <<input + 1>> \in Seq(1..MaxInput)
        BY <2>1
      <3>3. (output \o flow) \o <<input + 1>> = output \o (flow \o <<input + 1>>)
        <4> DEFINE S == 1..MaxInput
        <4>1. output \in Seq(S) /\ flow \in Seq(S) /\ <<input + 1>> \in Seq(S)
          BY <3>2
        <4> HIDE DEF S, FlowInv
        <4>2. QED
          BY <4>1, ConcatAssociative
      <3>4. QED
        BY <2>1, <3>1, <3>3
    <2>3. Append(typed, input + 1) = [j \in 1..(input + 1) |-> j]
      <3> HIDE DEF FlowInv
      <3>1. typed \in Seq(Nat) /\ Len(typed) = input /\ input + 1 \in Nat
        OBVIOUS
      <3>2. [j \in 1..(input + 1) |-> j] \in Seq(Nat)
            /\ Len([j \in 1..(input + 1) |-> j]) = input + 1
        OBVIOUS
      <3>3. QED
        BY <3>1, <3>2, AppendProperties
    <2>4. QED
      BY <1>4, <2>1, <2>2, <2>3 DEF WriteLine
  <1>5. ASSUME EndInput PROVE FlowInv'
    BY <1>5 DEF EndInput
  <1>6. ASSUME ReadLines PROVE FlowInv'
    <2>1. PICK n \in 0..Len(flow) :
            /\ n > 0 \/ flow = <<>>
            /\ output' = output \o SubSeq(flow, 1, n)
            /\ flow' = SubSeq(flow, n + 1, Len(flow))
            /\ at' = IF n = 0 THEN [at EXCEPT !["reader"] = "done"] ELSE at
      BY <1>6 DEF ReadLines
    <2>2. /\ at["reader"] = "loop"
          /\ flow # <<>> \/ at["writer"] = "done"
          /\ input' = input
      BY <1>6 DEF ReadLines
    <2> DEFINE a == SubSeq(flow, 1, n)
               b == SubSeq(flow, n + 1, Len(flow))
    <2>3. Len(flow) \in Nat /\ n \in 0..Len(flow)
      BY <2>1
    <2>4. a \in Seq(1..MaxInput) /\ b \in Seq(1..MaxInput)
      <3> DEFINE S == 1..MaxInput
      <3>1. flow \in Seq(S)
        OBVIOUS
      <3> HIDE DEF S, FlowInv
      <3>2. \A j \in 1..Len(flow) : flow[j] \in S
        BY <3>1
      <3>3. \A j \in 1..n : j \in 1..Len(flow)
        BY <2>3
      <3>4. \A j \in (n + 1)..Len(flow) : j \in 1..Len(flow)
        BY <2>3
      <3>5. a \in Seq(S)
        <4>1. \A j \in 1..n : flow[j] \in S
          BY <3>2, <3>3
        <4>2. 1 \in Int /\ n \in Int
          BY <2>3
        <4>3. QED
          BY <4>1, <4>2, SubSeqProperties
      <3>6. b \in Seq(S)
        <4>1. \A j \in (n + 1)..Len(flow) : flow[j] \in S
          BY <3>2, <3>4
        <4>2. n + 1 \in Int /\ Len(flow) \in Int
          BY <2>3
        <4>3. QED
          BY <4>1, <4>2, SubSeqProperties
      <3>7. QED
        BY <3>5, <3>6 DEF S
    <2>5. a \o b = flow
      <3>1. SubSeq(flow, 1, n) \o SubSeq(flow, n + 1, Len(flow)) = SubSeq(flow, 1, Len(flow))
        <4> DEFINE S == 1..MaxInput
        <4>1. /\ flow \in Seq(S) /\ 1 \in 1..(Len(flow) + 1)
              /\ n \in (1 - 1)..Len(flow) /\ Len(flow) \in n..Len(flow)
          BY <2>3
        <4> HIDE DEF S, FlowInv
        <4>2. QED
          BY <4>1, ConcatAdjacentSubSeq
      <3>2. QED
        BY <3>1, SubSeqFull
    <2>6. output' \o flow' = output \o flow
      <3> HIDE DEF a, b, FlowInv
      <3>1. (output \o a) \o b = output \o (a \o b)
        BY <2>4, ConcatAssociative
      <3>2. output' = output \o a /\ flow' = b
        BY <2>1 DEF a, b
      <3>3. QED
        BY <2>5, <3>1, <3>2
    <2>7. CASE n = 0
      <3>1. flow = <<>> /\ at["writer"] = "done" /\ at' = [at EXCEPT !["reader"] = "done"]
        BY <2>1, <2>2, <2>7
      <3>2. flow' = <<>>
        BY <2>1, <2>7, <3>1
      <3>3. QED
        BY <2>2, <2>6, <3>1, <3>2
    <2>8. CASE n # 0
      BY <1>6, <2>1, <2>2, <2>6, <2>8 DEF ReadLines
    <2>9. QED
      BY <2>7, <2>8
  <1>7. ASSUME UNCHANGED lineVars PROVE FlowInv'
    BY <1>7 DEF lineVars
  <1>8. QED
    BY <1>1, <1>2, <1>3, <1>4, <1>5, <1>6, <1>7 DEF LineNext, LineStep

LEMMA SmallAlways == Spec => [](exercise \in Exercises /\ MatrixInv /\ FamilyInv /\ FlowInv)
  <1> DEFINE Inv == exercise \in Exercises /\ MatrixInv /\ FamilyInv /\ FlowInv
  <1>1. Init => Inv
    <2> SUFFICES ASSUME Init PROVE Inv
      OBVIOUS
    <2>1. FamilyTypeOK
      <3>1. <<>> \in Seq(Filhos)
        OBVIOUS
      <3>2. QED
        BY <3>1 DEF Init, FamilyInit, FamilyTypeOK
    <2>2. LineTypeOK
      BY MaxInputAssumption DEF Init, LineInit, LineTypeOK
    <2>3. FamilyInv
      <3>1. <<>> \o <<>> = <<>> /\ IsInjective(<<>>) /\ ToSet(<<>>) = {}
        BY DEF IsInjective, ToSet
      <3>2. lidas = <<>> /\ queue = <<>> /\ pai = "open" /\ \A i \in Filhos : filho[i] = "none"
        BY DEF Init, FamilyInit
      <3>3. QED
        BY <2>1, <3>1, <3>2 DEF FamilyInv
    <2>4. FlowInv
      <3>1. output \o flow = <<>> /\ [j \in 1..input |-> j] = <<>>
        BY DEF Init, LineInit
      <3>2. \A p \in Programs : at[p] = "access"
        BY DEF Init, LineInit
      <3>3. QED
        BY <2>2, <3>1, <3>2 DEF FlowInv, Programs
    <2>5. QED
      BY <2>3, <2>4, MatrixInitial DEF Init
  <1>2. Inv /\ [Next]_labVars => Inv'
    <2>1. [Next]_labVars => exercise' = exercise
      BY DEF Next, Runs, labVars
    <2>2. QED
      BY <2>1, Frame, MatrixInductive, FamilyInductive, FlowInductive
  <1>3. QED
    BY <1>1, <1>2, PTL DEF Spec

\* Every variable of the nine exercises stays in its type, the bounds of the
\* code's loops and buffers included.
THEOREM LabsTypeCorrect == Spec => []TypeOK
  <1>1. /\ exercise \in Exercises /\ MatrixInv /\ FamilyInv /\ FlowInv
        /\ WritersInv /\ ProductInv /\ ReadersInv /\ TradeInv /\ MonitorInv /\ UpperInv
        => TypeOK
    BY TradeTypes
    DEF TypeOK, MatrixInv, FamilyInv, FlowInv, WritersInv, WritersTyped, ProductInv, ProductTyped, ReadersInv,
        KinInv, TradeInv, MonitorInv, UpperInv, UpperTyped
  <1>2. QED
    BY <1>1, SmallAlways, WritersAlways, ProductAlways, ReadersAlways, TradeAlways,
       MonitorAlways, UpperAlways, PTL

\* The safe half of SumIsComplete: when the parent of LAB2/EX1 prints the sum
\* it has waited for every child it could fork, and all their rows are complete.
THEOREM PrintedSumIsComplete ==
  Spec => [](step \in {"print", "end"} =>
               reaped = Forked /\ \A i \in Forked : filled[i] = Cols)
  <1>1. MatrixInv => (step \in {"print", "end"} =>
                        reaped = Forked /\ \A i \in Forked : filled[i] = Cols)
    BY DEF MatrixInv, MatrixTypeOK
  <1>2. QED
    BY <1>1, SmallAlways, PTL

\* The safe half of FamilyReads: when the parent of LAB6/EX2 ends it has printed
\* the message of every child it could fork, once.
THEOREM FamilyIsRead ==
  Spec => [](pai = "ended" =>
               /\ IsInjective(lidas)
               /\ ToSet(lidas) = {i \in Filhos : filho[i] # "failed"})
  <1>1. FamilyInv => (pai = "ended" =>
                        /\ IsInjective(lidas)
                        /\ ToSet(lidas) = {i \in Filhos : filho[i] # "failed"})
    <2> SUFFICES ASSUME FamilyInv, pai = "ended"
                 PROVE  /\ IsInjective(lidas)
                        /\ ToSet(lidas) = {i \in Filhos : filho[i] # "failed"}
      OBVIOUS
    <2>1. lidas \o queue = lidas
      BY ConcatEmptySeq DEF FamilyInv, FamilyTypeOK
    <2>2. {i \in Filhos : filho[i] = "ended"} = {i \in Filhos : filho[i] # "failed"}
      BY DEF FamilyInv
    <2>3. QED
      BY <2>1, <2>2 DEF FamilyInv
  <1>2. QED
    BY <1>1, SmallAlways, PTL

\* The safe half of LinesArrive: the reader of LAB6/EX1 prints the lines in the
\* order in which they were typed, has printed all when it ends, and the writer
\* is never killed by SIGPIPE.
THEOREM LinesArriveInOrder ==
  Spec => [](/\ \A j \in DOMAIN output : output[j] = j
             /\ at["reader"] = "done" => Len(output) = input
             /\ at["writer"] # "killed")
  <1>1. FlowInv => /\ \A j \in DOMAIN output : output[j] = j
                   /\ at["reader"] = "done" => Len(output) = input
                   /\ at["writer"] # "killed"
    <2> SUFFICES ASSUME FlowInv
                 PROVE  /\ \A j \in DOMAIN output : output[j] = j
                        /\ at["reader"] = "done" => Len(output) = input
      BY DEF FlowInv
    <2> DEFINE S == 1..MaxInput
    <2>1. output \in Seq(S) /\ flow \in Seq(S) /\ input \in Nat
      BY MaxInputAssumption DEF FlowInv, LineTypeOK
    <2>2. /\ Len(output \o flow) = Len(output) + Len(flow)
          /\ \A j \in 1..(Len(output) + Len(flow)) :
               (output \o flow)[j] = IF j <= Len(output) THEN output[j] ELSE flow[j - Len(output)]
      <3> HIDE DEF S
      <3>1. QED
        BY <2>1, ConcatProperties
    <2>3. Len(output) \in Nat /\ Len(flow) \in Nat /\ DOMAIN output = 1..Len(output)
      BY <2>1
    <2>4. output \o flow = [j \in 1..input |-> j]
      BY DEF FlowInv
    <2>5. Len([j \in 1..input |-> j]) = input
      BY <2>1
    <2>6. Len(output) + Len(flow) = input
      BY <2>2, <2>4, <2>5
    <2>7. ASSUME NEW j \in DOMAIN output PROVE output[j] = j
      <3>1. j \in 1..input /\ j <= Len(output) /\ j \in 1..(Len(output) + Len(flow))
        BY <2>3, <2>6
      <3>2. QED
        BY <2>2, <2>4, <3>1
    <2>8. ASSUME at["reader"] = "done" PROVE Len(output) = input
      BY <2>3, <2>6, <2>8 DEF FlowInv
    <2>9. QED
      BY <2>7, <2>8
  <1>2. QED
    BY <1>1, SmallAlways, PTL
==============================================================================
