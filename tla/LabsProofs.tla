----------------------------- MODULE LabsProofs -----------------------------
(***************************************************************************)
(* Safety of the exercises of the labs.  Each has an inductive invariant   *)
(* over its own variables; a step of another exercise leaves them alone,   *)
(* so that every proof is about the next-state relation of one component   *)
(* and Frame carries it over to the behaviours of Labs.                    *)
(***************************************************************************)
EXTENDS Labs, FiniteSetTheorems, SequenceTheorems, TLAPS

LEMMA Frame ==
  [Next]_labVars =>
    /\ [WritersNext]_writerVars
    /\ [MonitorNext]_monitorVars
    /\ [UpperNext]_upperVars
    /\ [ReadersNext]_readersVars
    /\ [ProductNext]_productVars
    /\ [LineNext]_lineVars
    /\ [FamilyNext]_familyVars
    /\ [MatrixNext]_matrixVars
    /\ [TradeNext]_tradeVars
  BY DEF Next, Runs, labVars
----------------------------------------------------------------------------
(* LAB6/EX1.  Both programs look for the FIFO, and make it if it was not   *)
(* there when they looked.                                                 *)

Met == {"loop", "done", "killed"}

\* Who is about to make the FIFO did not find an old one; who failed to was
\* overtaken by the other program, which waits for it in open; a FIFO that is
\* not an old one was made by a program that has gone on; and a program gets
\* past open only with the other one.
LineInv ==
  /\ at \in [Programs -> {"access", "mkfifo", "open", "loop", "failed", "done", "killed"}]
  /\ old => made
  /\ \A p \in Programs : at[p] \in {"mkfifo", "failed"} => ~old
  /\ \A p, q \in Programs : at[p] = "failed" /\ q # p => at[q] = "open"
  /\ made /\ ~old => \E p \in Programs : at[p] \in Met \cup {"open"}
  /\ \A p, q \in Programs : at[p] \in Met => at[q] \in Met

LEMMA LineInvInductive == LineInv /\ [LineNext]_lineVars => LineInv'
  <1> SUFFICES ASSUME LineInv, [LineNext]_lineVars PROVE LineInv'
    OBVIOUS
  <1> USE DEF LineInv, Programs, Met
  <1>1. ASSUME NEW p \in Programs, Access(p) PROVE LineInv'
    BY <1>1 DEF Access
  <1>2. ASSUME NEW p \in Programs, MakeFifo(p) PROVE LineInv'
    BY <1>2 DEF MakeFifo
  <1>3. ASSUME OpenBoth PROVE LineInv'
    BY <1>3 DEF OpenBoth
  <1>4. ASSUME WriteLine PROVE LineInv'
    BY <1>4 DEF WriteLine
  <1>5. ASSUME EndInput PROVE LineInv'
    BY <1>5 DEF EndInput
  <1>6. ASSUME ReadLines PROVE LineInv'
    BY <1>6 DEF ReadLines
  <1>7. ASSUME UNCHANGED lineVars PROVE LineInv'
    BY <1>7 DEF lineVars
  <1>8. QED
    BY <1>1, <1>2, <1>3, <1>4, <1>5, <1>6, <1>7 DEF LineNext, LineStep

\* Of reader and writer of LAB6/EX1, started together, only one can find that
\* it must make the FIFO and then fail to, and none when the FIFO was there.
THEOREM OnlyOneFails == Spec => []OneMayFail
  <1>1. Init => LineInv
    BY DEF Init, LineInit, LineInv, Programs, Met
  <1>2. LineInv /\ [Next]_labVars => LineInv'
    BY Frame, LineInvInductive
  <1>3. LineInv => OneMayFail
    BY DEF LineInv, OneMayFail, Programs
  <1>4. QED
    BY <1>1, <1>2, <1>3, PTL DEF Spec
----------------------------------------------------------------------------
(* LAB7/EX3.  Two writers and a semaphore with SEM_UNDO.                   *)

Holds(w) == IF wpc[w] \in {"read", "write", "V"} THEN 1 ELSE 0

\* A writer in its loop has rounds left.
WritersTyped ==
  /\ WritersTypeOK
  /\ \A w \in Writers : wpc[w] \in {"set", "P", "read", "write", "V"} => round[w] < Rounds

\* Unless writer1 has set the semaphore while a writer was inside, what is to
\* be undone is exactly what the writers inside have taken; the writers inside
\* and the semaphore add up to 1; and a value that has been read is still there.
WritersCount ==
  ~clobbered =>
    /\ \A w \in Writers : semadj[w] = Holds(w)
    /\ semval + Holds(1) + Holds(2) = IF isSet THEN 1 ELSE 0
    /\ \A w \in Writers : wpc[w] = "write" => copy[w] = valor
    /\ valor = added

WritersInv == WritersTyped /\ WritersCount

LEMMA WritersTypedInductive == WritersTyped /\ [WritersNext]_writerVars => WritersTyped'
  <1> SUFFICES ASSUME WritersTyped, [WritersNext]_writerVars PROVE WritersTyped'
    OBVIOUS
  <1> USE RoundsAssumption, MaxStartsAssumption DEF WritersTyped, WritersTypeOK, MoveTo
  <1>0. \A w \in Writers : Amount(w) \in Nat
    BY DEF Amount
  <1>1. ASSUME NEW w \in Writers, Start(w) PROVE WritersTyped'
    BY <1>1 DEF Start
  <1>2. ASSUME setSemValue PROVE WritersTyped'
    BY <1>2 DEF setSemValue, Writers
  <1>3. ASSUME NEW w \in Writers, semaforoP(w) PROVE WritersTyped'
    BY <1>3 DEF semaforoP, MayEnter
  <1>4. ASSUME NEW w \in Writers, Read(w) PROVE WritersTyped'
    BY <1>4 DEF Read
  <1>5. ASSUME NEW w \in Writers, Write(w) PROVE WritersTyped'
    BY <1>0, <1>5 DEF Write
  <1>6. ASSUME NEW w \in Writers, semaforoV(w) PROVE WritersTyped'
    BY <1>6 DEF semaforoV
  <1>7. ASSUME NEW w \in Writers, Ends(w) PROVE WritersTyped'
    <2>1. Undone(w) \in Nat
      BY DEF Undone
    <2>2. QED
      BY <1>7, <2>1 DEF Ends
  <1>8. ASSUME UNCHANGED writerVars PROVE WritersTyped'
    BY <1>8 DEF writerVars
  <1>9. QED
    BY <1>1, <1>2, <1>3, <1>4, <1>5, <1>6, <1>7, <1>8
    DEF WritersNext, WriterStep, Exit, Kill

LEMMA WritersInvInductive == WritersInv /\ [WritersNext]_writerVars => WritersInv'
  <1> SUFFICES ASSUME WritersInv, [WritersNext]_writerVars PROVE WritersInv'
    OBVIOUS
  <1>0. WritersTyped /\ WritersTyped'
    BY WritersTypedInductive DEF WritersInv
  <1> SUFFICES WritersCount'
    BY <1>0 DEF WritersInv
  <1> USE <1>0 DEF WritersInv, WritersCount, WritersTyped, WritersTypeOK, MoveTo, Holds,
                   Writers
  <1>1. ASSUME NEW w \in Writers, Start(w) PROVE WritersCount'
    BY <1>1 DEF Start
  <1>2. ASSUME setSemValue PROVE WritersCount'
    BY <1>2 DEF setSemValue, Inside
  <1>3. ASSUME NEW w \in Writers, semaforoP(w) PROVE WritersCount'
    BY <1>3 DEF semaforoP, MayEnter
  <1>4. ASSUME NEW w \in Writers, Read(w) PROVE WritersCount'
    BY <1>4 DEF Read
  <1>5. ASSUME NEW w \in Writers, Write(w) PROVE WritersCount'
    BY <1>5 DEF Write, Amount
  <1>6. ASSUME NEW w \in Writers, semaforoV(w) PROVE WritersCount'
    BY <1>6 DEF semaforoV
  <1>7. ASSUME NEW w \in Writers, Ends(w) PROVE WritersCount'
    BY <1>7 DEF Ends, Undone
  <1>8. ASSUME UNCHANGED writerVars PROVE WritersCount'
    BY <1>8 DEF writerVars
  <1>9. QED
    BY <1>1, <1>2, <1>3, <1>4, <1>5, <1>6, <1>7, <1>8
    DEF WritersNext, WriterStep, Exit, Kill

LEMMA WritersAlways == Spec => []WritersInv
  <1>1. Init => WritersInv
    <2> SUFFICES ASSUME WritersInit PROVE WritersTyped /\ WritersCount
      BY DEF Init, WritersInv
    <2>1. \A w \in Writers : wpc[w] = "off" /\ semadj[w] = 0
      BY DEF WritersInit
    <2>2. WritersTyped
      <3>1. 0 \in 0..Rounds /\ 0 \in 0..MaxStarts /\ 0 \in Nat /\ 0 \in Int
        BY RoundsAssumption, MaxStartsAssumption
      <3>2. WritersTypeOK
        BY <3>1 DEF WritersInit, WritersTypeOK
      <3>3. QED
        BY <2>1, <3>2 DEF WritersTyped
    <2>3. \A w \in Writers : Holds(w) = 0
      BY <2>1 DEF Holds
    <2>4. WritersCount
      BY <2>1, <2>3 DEF WritersInit, WritersCount, Writers
    <2>5. QED
      BY <2>2, <2>4
  <1>2. WritersInv /\ [Next]_labVars => WritersInv'
    BY Frame, WritersInvInductive
  <1>3. QED
    BY <1>1, <1>2, PTL DEF Spec

LEMMA InsideCount == WritersTyped => Cardinality(Inside) = Holds(1) + Holds(2)
  <1> SUFFICES ASSUME WritersTyped PROVE Cardinality(Inside) = Holds(1) + Holds(2)
    OBVIOUS
  <1>1. CASE Holds(1) = 0 /\ Holds(2) = 0
    <2>1. Inside = {}
      BY <1>1 DEF Inside, Holds, Writers
    <2>2. QED
      BY <1>1, <2>1, FS_EmptySet
  <1>2. CASE Holds(1) = 1 /\ Holds(2) = 0
    <2>1. Inside = {1}
      BY <1>2 DEF Inside, Holds, Writers
    <2>2. Cardinality(Inside) = 1
      BY <2>1, FS_Singleton
    <2>3. QED
      BY <1>2, <2>2
  <1>3. CASE Holds(1) = 0 /\ Holds(2) = 1
    <2>1. Inside = {2}
      BY <1>3 DEF Inside, Holds, Writers
    <2>2. Cardinality(Inside) = 1
      BY <2>1, FS_Singleton
    <2>3. QED
      BY <1>3, <2>2
  <1>4. CASE Holds(1) = 1 /\ Holds(2) = 1
    <2>1. Inside = {1} \cup {2}
      BY <1>4 DEF Inside, Holds, Writers
    <2>2. IsFiniteSet({1}) /\ Cardinality({1}) = 1
      BY FS_Singleton
    <2>3. Cardinality({1} \cup {2}) = IF 2 \in {1} THEN 1 ELSE 1 + 1
      BY <2>2, FS_AddElement
    <2>4. QED
      BY <1>4, <2>1, <2>3
  <1>5. QED
    BY <1>1, <1>2, <1>3, <1>4 DEF Holds

\* While nobody has called setSemValue with a writer inside, the semaphore of
\* LAB7/EX3 and the writers between P and V add up to 1: at most one is inside,
\* and SEM_UNDO gives back what a killed writer has taken.
THEOREM SemaphoreAlwaysCounts == Spec => []SemaphoreCounts
  <1>1. WritersInv => SemaphoreCounts
    BY InsideCount DEF WritersInv, WritersCount, WritersTyped, WritersTypeOK, SemaphoreCounts, Holds
  <1>2. QED
    BY <1>1, WritersAlways, PTL

\* Under the same condition the shared integer of LAB7/EX3 is the sum of the
\* additions that were made, whatever the writers' interleaving and kills.
THEOREM AdditionsAreKept == Spec => []NoAdditionIsLost
  <1>1. WritersInv => NoAdditionIsLost
    BY DEF WritersInv, WritersCount, NoAdditionIsLost
  <1>2. QED
    BY <1>1, WritersAlways, PTL
----------------------------------------------------------------------------
(* LAB2/EX4.  Two children store values and numbers that the parent reads  *)
(* without a lock.                                                         *)

Testing == doing \in {"test1", "test2", "multiply"}

\* The parent has read the number of child c after its last product, and the
\* number that every product so far is compared with.
Noted(c) == doing # "last1" /\ (doing = "last2" => c = 1)
Level(c) == IF Noted(c) THEN last[c] ELSE cell[c].seq

\* A child stores the value of a round before its number, so that a number is
\* never ahead of its value, and at most one round behind.
CellsInv ==
  \A c \in Sons :
    /\ store[c] = "begin" => cell[c].val = turn[c] /\ cell[c].seq = turn[c]
    /\ store[c] = "val" => cell[c].val = turn[c] - 1 /\ cell[c].seq = turn[c] - 1
    /\ store[c] = "seq" => cell[c].val = turn[c] /\ cell[c].seq = turn[c] - 1
    /\ cell[c].seq <= cell[c].val /\ cell[c].val <= cell[c].seq + 1

\* While the parent multiplies, and until it has read a number again, the
\* number is larger than the one it knew; so are the values it has read.
ParentInv ==
  /\ Testing => Len(shown) < Products
  /\ \A c \in Sons :
       /\ last[c] <= cell[c].seq
       /\ doing = "test2" /\ c = 1 => last[c] < cell[c].seq
       /\ doing = "multiply" => last[c] < cell[c].seq
       /\ ~Noted(c) => last[c] < cell[c].seq
       /\ operand[c] # 0 =>
            doing = "multiply" /\ operand[c] > last[c] /\ operand[c] <= cell[c].seq + 1

\* The values of all products but the last are covered by the number the parent
\* knows, the last one is at most one round ahead of it.
ShownInv ==
  \A c \in Sons :
    /\ Len(shown) <= Level(c)
    /\ \A j \in DOMAIN shown :
         /\ shown[j][c] <= Level(c) + 1
         /\ j < Len(shown) => shown[j][c] <= Level(c)

ProductTyped == ProductTypeOK /\ CellsInv /\ ParentInv
ProductInv   == ProductTyped /\ ShownInv /\ ProductsAreFresh /\ NoValueThrice

\* The number of a child is 0 already when its program sets it to 0.
LEMMA BeginKeepsCells ==
  ASSUME NEW c \in Sons, ProductTyped, BeginRound(c)
  PROVE  cell' = cell
  <1> USE MaxRoundsAssumption DEF ProductTyped, ProductTypeOK, CellsInv, BeginRound
  <1>1. CASE turn[c] = 0
    <2>1. cell[c] = [cell[c] EXCEPT !.seq = 0]
      BY <1>1
    <2>2. QED
      BY <1>1, <2>1
  <1>2. QED
    BY <1>1

LEMMA ProductTypedInductive == ProductTyped /\ [ProductNext]_productVars => ProductTyped'
  <1> SUFFICES ASSUME ProductTyped, [ProductNext]_productVars PROVE ProductTyped'
    OBVIOUS
  <1> USE ProductsAssumption, MaxRoundsAssumption
      DEF ProductTyped, ProductTypeOK, CellsInv, ParentInv, Testing, Noted
  <1>1. ASSUME NEW c \in Sons, BeginRound(c) PROVE ProductTyped'
    <2>1. cell' = cell
      BY <1>1, BeginKeepsCells
    <2>2. turn[c] + 1 \in 0..MaxRounds
      BY <1>1 DEF BeginRound
    <2>3. ProductTypeOK'
      BY <1>1, <2>1, <2>2 DEF BeginRound
    <2>4. CellsInv' /\ ParentInv'
      BY <1>1, <2>1 DEF BeginRound
    <2>5. QED
      BY <2>3, <2>4
  <1>2. ASSUME NEW c \in Sons, Store(c) PROVE ProductTyped'
    <2>1. CASE store[c] = "val"
      <3>1. cell' = [cell EXCEPT ![c].val = turn[c]] /\ store' = [store EXCEPT ![c] = "seq"]
        BY <1>2, <2>1 DEF Store
      <3>2. ProductTypeOK' /\ CellsInv'
        BY <1>2, <2>1, <3>1 DEF Store
      <3>3. ParentInv'
        BY <1>2, <2>1, <3>1 DEF Store
      <3>4. QED
        BY <3>2, <3>3
    <2>2. CASE store[c] = "seq"
      <3>1. cell' = [cell EXCEPT ![c].seq = turn[c]] /\ store' = [store EXCEPT ![c] = "begin"]
        BY <1>2, <2>2 DEF Store
      <3>2. ProductTypeOK' /\ CellsInv'
        BY <1>2, <2>2, <3>1 DEF Store
      <3>3. ParentInv'
        BY <1>2, <2>2, <3>1 DEF Store
      <3>4. QED
        BY <3>2, <3>3
    <2>3. QED
      BY <1>2, <2>1, <2>2 DEF Store
  <1>3. ASSUME NEW c \in Sons, Compare(c) PROVE ProductTyped'
    BY <1>3 DEF Compare, Sons
  <1>4. ASSUME NEW c \in Sons, ReadOperand(c) PROVE ProductTyped'
    BY <1>4 DEF ReadOperand
  <1>5. ASSUME NEW c \in Sons, NoteSeq(c) PROVE ProductTyped'
    BY <1>5 DEF NoteSeq, Sons
  <1>6. ASSUME NEW c \in Sons, KillSon(c) PROVE ProductTyped'
    BY <1>6 DEF KillSon, Sons
  <1>7. ASSUME PrintProduct PROVE ProductTyped'
    <2>1. operand \in [Sons -> 1..MaxRounds]
      BY <1>7 DEF PrintProduct
    <2>2. shown' \in Seq([Sons -> 1..MaxRounds]) /\ Len(shown') = Len(shown) + 1
      BY <1>7, <2>1 DEF PrintProduct
    <2>3. Len(shown) \in Nat
      OBVIOUS
    <2>4. ProductTypeOK'
      BY <1>7, <2>2, <2>3 DEF PrintProduct
    <2>5. CellsInv' /\ ParentInv'
      BY <1>7 DEF PrintProduct
    <2>6. QED
      BY <2>4, <2>5
  <1>8. ASSUME UNCHANGED productVars PROVE ProductTyped'
    BY <1>8 DEF productVars
  <1>9. QED
    BY <1>1, <1>2, <1>3, <1>4, <1>5, <1>6, <1>7, <1>8 DEF ProductNext

\* No step but a product changes the products, and none lowers a level.
LEMMA LevelsRise ==
  ProductTyped /\ [ProductNext]_productVars /\ ~PrintProduct =>
    shown' = shown /\ \A c \in Sons : Level(c)' >= Level(c)
  <1> SUFFICES ASSUME ProductTyped, [ProductNext]_productVars, ~PrintProduct
               PROVE  shown' = shown /\ \A c \in Sons : Level(c)' >= Level(c)
    OBVIOUS
  <1> USE DEF ProductTyped, ProductTypeOK, CellsInv, ParentInv, Testing, Noted, Level
  <1> DEFINE Rise == shown' = shown /\ \A c \in Sons : Level(c)' >= Level(c)
  <1>1. ASSUME NEW c \in Sons, BeginRound(c) PROVE Rise
    <2>1. cell' = cell
      BY <1>1, BeginKeepsCells
    <2>2. QED
      BY <1>1, <2>1 DEF BeginRound
  <1>2. ASSUME NEW c \in Sons, Store(c) PROVE Rise
    <2>1. shown' = shown /\ last' = last /\ doing' = doing
      BY <1>2 DEF Store
    <2>2. cell'[c].seq >= cell[c].seq
      BY <1>2, MaxRoundsAssumption DEF Store
    <2>3. \A d \in Sons \ {c} : cell'[d] = cell[d]
      BY <1>2 DEF Store
    <2>4. \A d \in Sons : cell[d].seq \in Int /\ last[d] \in Int
      <3>1. \A d \in Sons : cell[d].seq \in 0..MaxRounds /\ last[d] \in 0..MaxRounds
        OBVIOUS
      <3>2. QED
        BY <3>1
    <2>5. ASSUME NEW d \in Sons PROVE cell'[d].seq >= cell[d].seq
      <3>1. CASE d = c
        BY <2>2, <3>1
      <3>2. CASE d # c
        <4>1. cell'[d].seq = cell[d].seq /\ cell[d].seq \in Int
          BY <2>3, <2>4, <3>2
        <4>2. QED
          BY <4>1
      <3>3. QED
        BY <3>1, <3>2
    <2>6. QED
      BY <2>1, <2>4, <2>5
  <1>3. ASSUME NEW c \in Sons, Compare(c) PROVE Rise
    BY <1>3 DEF Compare, Sons
  <1>4. ASSUME NEW c \in Sons, ReadOperand(c) PROVE Rise
    BY <1>4 DEF ReadOperand
  <1>5. ASSUME NEW c \in Sons, NoteSeq(c) PROVE Rise
    BY <1>5 DEF NoteSeq, Sons
  <1>6. ASSUME NEW c \in Sons, KillSon(c) PROVE Rise
    BY <1>6 DEF KillSon, Sons
  <1>7. ASSUME UNCHANGED productVars PROVE Rise
    BY <1>7 DEF productVars
  <1>8. QED
    BY <1>1, <1>2, <1>3, <1>4, <1>5, <1>6, <1>7 DEF ProductNext

\* What a new product adds: each operand is above the level of all products
\* before it, and at most one above the new level.
LEMMA ProductAdds ==
  ProductInv /\ PrintProduct =>
    /\ shown' = Append(shown, operand)
    /\ operand \in [Sons -> 1..MaxRounds]
    /\ \A c \in Sons : Level(c) < operand[c] /\ operand[c] <= Level(c)' + 1
                       /\ Level(c) < Level(c)'
  BY DEF ProductInv, ProductTyped, ProductTypeOK, CellsInv, ParentInv, PrintProduct, Level,
         Noted, Sons

LEMMA ProductInvInductive == ProductInv /\ [ProductNext]_productVars => ProductInv'
  <1> SUFFICES ASSUME ProductInv, [ProductNext]_productVars PROVE ProductInv'
    OBVIOUS
  <1>1. ProductTyped /\ ProductTyped'
    BY ProductTypedInductive DEF ProductInv
  <1>2. \A c \in Sons : Level(c) \in Int /\ Level(c)' \in Int
    BY <1>1, MaxRoundsAssumption DEF ProductTyped, ProductTypeOK, Level
  <1>3. shown \in Seq([Sons -> 1..MaxRounds]) /\ Len(shown) \in Nat
        /\ DOMAIN shown = 1..Len(shown)
    BY <1>1 DEF ProductTyped, ProductTypeOK
  <1>4. \A j \in DOMAIN shown : \A c \in Sons : shown[j][c] \in Int
    BY <1>3, MaxRoundsAssumption
  <1>5. CASE ~PrintProduct
    <2>1. shown' = shown /\ \A c \in Sons : Level(c)' >= Level(c)
      BY <1>1, <1>5, LevelsRise
    <2>2. ShownInv'
      BY <1>2, <1>3, <1>4, <2>1 DEF ProductInv, ShownInv
    <2>3. ProductsAreFresh' /\ NoValueThrice'
      BY <2>1 DEF ProductInv, ProductsAreFresh, NoValueThrice
    <2>4. QED
      BY <1>1, <2>2, <2>3 DEF ProductInv
  <1>6. CASE PrintProduct
    <2>1. /\ shown' = Append(shown, operand)
          /\ operand \in [Sons -> 1..MaxRounds]
          /\ \A c \in Sons : Level(c) < operand[c] /\ operand[c] <= Level(c)' + 1
                             /\ Level(c) < Level(c)'
      BY <1>6, ProductAdds
    <2>2. /\ Len(shown') = Len(shown) + 1
          /\ DOMAIN shown' = 1..(Len(shown) + 1)
          /\ shown'[Len(shown) + 1] = operand
          /\ \A j \in DOMAIN shown : shown'[j] = shown[j]
      BY <1>3, <2>1
    <2>3. \A c \in Sons : operand[c] \in Int
      BY <2>1, MaxRoundsAssumption
    <2>4. ShownInv'
      <3>1. ASSUME NEW c \in Sons
            PROVE  /\ Len(shown') <= Level(c)'
                   /\ \A j \in DOMAIN shown' :
                        /\ shown'[j][c] <= Level(c)' + 1
                        /\ j < Len(shown') => shown'[j][c] <= Level(c)'
        <4>1. /\ Len(shown) <= Level(c)
              /\ \A j \in DOMAIN shown : shown[j][c] <= Level(c) + 1
          BY DEF ProductInv, ShownInv
        <4>2. Level(c) < operand[c] /\ operand[c] <= Level(c)' + 1 /\ Level(c) < Level(c)'
          BY <2>1
        <4>3. Level(c) \in Int /\ Level(c)' \in Int /\ operand[c] \in Int
          BY <1>2, <2>3
        <4>4. Len(shown') <= Level(c)'
          BY <1>3, <2>2, <4>1, <4>2, <4>3
        <4>5. ASSUME NEW j \in DOMAIN shown' PROVE /\ shown'[j][c] <= Level(c)' + 1
                                                   /\ j < Len(shown') => shown'[j][c] <= Level(c)'
          <5>1. CASE j = Len(shown) + 1
            BY <1>3, <2>2, <4>2, <5>1
          <5>2. CASE j # Len(shown) + 1
            <6>1. j \in DOMAIN shown /\ shown'[j] = shown[j]
              BY <1>3, <2>2, <5>2
            <6>2. shown[j][c] \in Int /\ shown[j][c] <= Level(c) + 1
              BY <1>4, <4>1, <6>1
            <6>3. QED
              BY <4>2, <4>3, <6>1, <6>2
          <5>3. QED
            BY <5>1, <5>2
        <4>6. QED
          BY <4>4, <4>5
      <3>2. QED
        BY <3>1 DEF ShownInv
    <2>5. ProductsAreFresh'
      <3>1. ASSUME NEW k \in DOMAIN shown', NEW c \in Sons PROVE shown'[k][c] >= k
        <4>1. CASE k = Len(shown) + 1
          <5>1. Len(shown) <= Level(c) /\ Level(c) < operand[c]
            BY <2>1 DEF ProductInv, ShownInv
          <5>2. QED
            BY <1>2, <1>3, <2>2, <2>3, <4>1, <5>1
        <4>2. CASE k # Len(shown) + 1
          BY <1>3, <2>2, <4>2 DEF ProductInv, ProductsAreFresh
        <4>3. QED
          BY <4>1, <4>2
      <3>2. QED
        BY <3>1 DEF ProductsAreFresh
    <2>6. NoValueThrice'
      <3>1. ASSUME NEW j \in DOMAIN shown', NEW k \in DOMAIN shown', NEW c \in Sons, j < k
            PROVE  /\ shown'[j][c] <= shown'[k][c]
                   /\ j + 1 < k => shown'[j][c] < shown'[k][c]
        <4>1. j \in DOMAIN shown /\ shown'[j] = shown[j]
          BY <1>3, <2>2, <3>1
        <4>2. CASE k = Len(shown) + 1
          <5>1. shown'[k][c] = operand[c] /\ Level(c) < operand[c]
            BY <2>1, <2>2, <4>2
          <5>2. shown[j][c] <= Level(c) + 1 /\ (j < Len(shown) => shown[j][c] <= Level(c))
            BY <4>1 DEF ProductInv, ShownInv
          <5>3. j \in Int /\ (j + 1 < k => j < Len(shown))
            BY <1>3, <4>1, <4>2
          <5>4. shown[j][c] \in Int /\ Level(c) \in Int /\ operand[c] \in Int
            BY <1>2, <1>4, <2>3, <4>1
          <5>5. QED
            BY <4>1, <5>1, <5>2, <5>3, <5>4
        <4>3. CASE k # Len(shown) + 1
          <5>1. k \in DOMAIN shown /\ shown'[k] = shown[k]
            BY <1>3, <2>2, <4>3
          <5>2. QED
            BY <3>1, <4>1, <5>1 DEF ProductInv, NoValueThrice
        <4>4. QED
          BY <4>2, <4>3
      <3>2. ASSUME NEW j \in DOMAIN shown', NEW k \in DOMAIN shown', j + 1 < k PROVE j < k
        BY <2>2, <3>2, <1>3
      <3>3. QED
        BY <3>1, <3>2 DEF NoValueThrice
    <2>7. QED
      BY <1>1, <2>4, <2>5, <2>6 DEF ProductInv
  <1>7. QED
    BY <1>5, <1>6

LEMMA ProductAlways == Spec => []ProductInv
  <1>1. Init => ProductInv
    <2> SUFFICES ASSUME ProductInit PROVE ProductInv
      BY DEF Init
    <2>1. shown = <<>> /\ DOMAIN shown = {} /\ Len(shown) = 0
      BY DEF ProductInit
    <2>2. ProductTyped
      BY <2>1, ProductsAssumption, MaxRoundsAssumption
      DEF ProductInit, ProductTyped, ProductTypeOK, CellsInv, ParentInv, Testing, Noted
    <2>3. ShownInv /\ ProductsAreFresh /\ NoValueThrice
      BY <2>1 DEF ProductInit, ShownInv, ProductsAreFresh, NoValueThrice, Level, Noted
    <2>4. QED
      BY <2>2, <2>3 DEF ProductInv
  <1>2. ProductInv /\ [Next]_labVars => ProductInv'
    BY Frame, ProductInvInductive
  <1>3. QED
    BY <1>1, <1>2, PTL DEF Spec

\* The k-th product that the parent of LAB2/EX4 prints is made of values that
\* both children have stored in their k-th round or later, without any lock.
THEOREM ProductsStayFresh == Spec => []ProductsAreFresh
  BY ProductAlways, PTL DEF ProductInv

\* Products of LAB2/EX4 follow the order of a child's rounds, and one value
\* enters at most two of them.
THEOREM ValuesEnterTwiceAtMost == Spec => []NoValueThrice
  BY ProductAlways, PTL DEF ProductInv
----------------------------------------------------------------------------
(* LAB5/EX4.  A writer and two readers around one pipe.                    *)

\* Where the four processes can be, and which ends they have open.  The parent
\* forks the writer first and holds both ends until it has tried to fork all; a
\* writer that has not ended can write; and a reader that has not ended can
\* read.  So a reader finds the end of the pipe only when the writer is through,
\* and a writer finds no reader only if none could be forked.
KinInv ==
  /\ ReadersTypeOK
  /\ kin["parent"] \in {"writer", "r1", "r2", "close", "wait", "ended"}
  /\ \A p \in Family \ {"parent"} :
       kin[p] \in {"none", "close", "loop", "ended", "failed", "killed"}
  /\ kin["writer"] = "none" <=> kin["parent"] = "writer"
  /\ kin["r1"] = "none" <=> kin["parent"] \in {"writer", "r1"}
  /\ kin["r2"] = "none" <=> kin["parent"] \in {"writer", "r1", "r2"}
  /\ kin["parent"] \in {"writer", "r1", "r2", "close"} =>
       \A e \in {"r", "w"} : "parent" \in holders[e]
  /\ kin["writer"] \in {"close", "loop"} => "writer" \in holders["w"]
  /\ \A p \in Readers : kin[p] \in {"close", "loop"} => p \in holders["r"]
  /\ kin["writer"] = "ended" => wrote = Messages
  /\ kin["writer"] = "killed" => \A p \in Readers : kin[p] = "failed"
  /\ \A p \in Readers :
       /\ kin[p] # "killed"
       /\ kin[p] = "ended" => kin["writer"] \in {"ended", "failed"} /\ pipe = <<>>
  /\ kin["parent"] = "ended" =>
       \A p \in Family \ {"parent"} : kin[p] \in {"ended", "failed", "killed"}

\* The pipe holds the messages that have been written last, the others have
\* been read; and what the readers have printed are different messages that
\* have been read, the first one among them.
PrintedOnce ==
  /\ \A p, q \in Readers : \A j \in DOMAIN printed[p], k \in DOMAIN printed[q] :
       printed[p][j] = printed[q][k] => p = q /\ j = k
  /\ \A p \in Readers : \A j \in DOMAIN printed[p] : printed[p][j] \in taken
  /\ taken # {} => \E p \in Readers : \E j \in DOMAIN printed[p] : printed[p][j] = 1

PipeInv ==
  /\ Len(pipe) <= wrote
  /\ \A j \in 1..Len(pipe) : pipe[j] = wrote - Len(pipe) + j
  /\ taken = 1..(wrote - Len(pipe))

ReadersInv == KinInv /\ PipeInv /\ PrintedOnce

LEMMA KinInductive == KinInv /\ PipeInv /\ [ReadersNext]_readersVars => KinInv'
  <1> SUFFICES ASSUME KinInv, PipeInv, [ReadersNext]_readersVars PROVE KinInv'
    OBVIOUS
  <1> USE MessagesAssumption DEF KinInv, ReadersTypeOK, Family, Readers
  <1>1. ASSUME NEW p \in Family, ForkKin(p) PROVE KinInv'
    <2>1. CASE p = "writer"
      BY <1>1, <2>1 DEF ForkKin, Successor
    <2>2. CASE p = "r1"
      BY <1>1, <2>2 DEF ForkKin, Successor
    <2>3. CASE p = "r2"
      <3>1. /\ kin["parent"] = "r2"
            /\ kin' = [kin EXCEPT !["parent"] = "close", !["r2"] = "close"]
            /\ holders' = [e \in {"r", "w"} |-> holders[e] \cup {"r2"}]
            /\ UNCHANGED <<pipe, wrote, taken, printed>>
        BY <1>1, <2>3 DEF ForkKin, Successor
      <3>2. ReadersTypeOK'
        BY <3>1
      <3>3. QED
        BY <3>1, <3>2
    <2>4. p # "parent"
      BY <1>1 DEF ForkKin
    <2>5. QED
      BY <2>1, <2>2, <2>3, <2>4
  <1>11. ASSUME NEW p \in Family, ForkFails(p) PROVE KinInv'
    <2>1. p = "writer" \/ p = "r1" \/ p = "r2"
      BY <1>11 DEF ForkFails
    <2>2. /\ kin["parent"] = p
          /\ kin' = [kin EXCEPT !["parent"] = Successor(p), ![p] = "failed"]
          /\ UNCHANGED <<pipe, holders, wrote, taken, printed>>
      BY <1>11 DEF ForkFails
    <2>3. Successor("writer") = "r1" /\ Successor("r1") = "r2" /\ Successor("r2") = "close"
      BY DEF Successor
    <2>4. ReadersTypeOK'
      BY <2>1, <2>2, <2>3
    <2>5. QED
      BY <2>1, <2>2, <2>3, <2>4
  <1>2. ASSUME NEW p \in Family, CloseUnused(p) PROVE KinInv'
    BY <1>2 DEF CloseUnused, Unused
  <1>3. ASSUME WriteMessage PROVE KinInv'
    <2>1. CASE holders["r"] = {}
      <3>1. \A p \in Readers : kin[p] = "failed"
        BY <1>3, <2>1 DEF WriteMessage
      <3>2. QED
        BY <1>3, <2>1, <3>1 DEF WriteMessage, Ended
    <2>2. CASE holders["r"] # {}
      <3>1. pipe' = Append(pipe, wrote + 1) /\ wrote' = wrote + 1 /\ wrote + 1 \in 1..Messages
        BY <1>3, <2>2 DEF WriteMessage
      <3>2. pipe' \in Seq(1..Messages) /\ wrote' \in 0..Messages
        BY <3>1
      <3>3. QED
        BY <1>3, <2>2, <3>2 DEF WriteMessage
    <2>3. QED
      BY <2>1, <2>2
  <1>4. ASSUME WriterEnds PROVE KinInv'
    BY <1>4 DEF WriterEnds, Ended
  <1>5. ASSUME NEW p \in Readers, ReadMessages(p) PROVE KinInv'
    <2>1. Head(pipe) \in 1..Messages
      BY <1>5 DEF ReadMessages
    <2>2. ToSet(pipe) \subseteq 1..Messages
      BY DEF ToSet
    <2>3. printed' \in [Readers -> Seq(1..Messages)]
      <3>1. Append(printed[p], Head(pipe)) \in Seq(1..Messages)
        BY <2>1
      <3>2. QED
        BY <1>5, <3>1 DEF ReadMessages
    <2>4. taken' \subseteq 1..Messages /\ pipe' = <<>> /\ pipe' \in Seq(1..Messages)
      <3>1. pipe' = <<>> /\ taken' = taken \cup ToSet(pipe)
        BY <1>5 DEF ReadMessages
      <3>2. <<>> \in Seq(1..Messages)
        OBVIOUS
      <3>3. taken' \subseteq 1..Messages
        BY <2>2, <3>1
      <3>4. QED
        BY <3>1, <3>2, <3>3
    <2>5. UNCHANGED <<holders, kin, wrote>>
      BY <1>5 DEF ReadMessages
    <2>6. QED
      BY <2>3, <2>4, <2>5
  <1>6. ASSUME NEW p \in Readers, ReaderEnds(p) PROVE KinInv'
    BY <1>6 DEF ReaderEnds, Ended
  <1>7. ASSUME CloseBoth PROVE KinInv'
    BY <1>7 DEF CloseBoth, Ended
  <1>8. ASSUME WaitAll PROVE KinInv'
    BY <1>8 DEF WaitAll
  <1>9. ASSUME UNCHANGED readersVars PROVE KinInv'
    BY <1>9 DEF readersVars
  <1>10. QED
    BY <1>1, <1>2, <1>3, <1>4, <1>5, <1>6, <1>7, <1>8, <1>9, <1>11
    DEF ReadersNext, KinStep

\* Only two actions are about messages.
LEMMA MessagesMove ==
  KinInv /\ [ReadersNext]_readersVars =>
    \/ UNCHANGED <<pipe, wrote, taken, printed>>
    \/ /\ pipe' = Append(pipe, wrote + 1) /\ wrote' = wrote + 1
       /\ UNCHANGED <<taken, printed>>
    \/ \E p \in Readers : ReadMessages(p)
  BY DEF KinInv, ReadersNext, KinStep, readersVars, ForkKin, ForkFails, CloseUnused,
         WriteMessage, WriterEnds, ReaderEnds, CloseBoth, WaitAll

LEMMA PipeInductive ==
  KinInv /\ PipeInv /\ PrintedOnce /\ [ReadersNext]_readersVars => PipeInv' /\ PrintedOnce'
  <1> SUFFICES ASSUME KinInv, PipeInv, PrintedOnce, [ReadersNext]_readersVars
               PROVE  PipeInv' /\ PrintedOnce'
    OBVIOUS
  <1>1. /\ pipe \in Seq(1..Messages) /\ Len(pipe) \in Nat /\ DOMAIN pipe = 1..Len(pipe)
        /\ wrote \in Nat
        /\ printed \in [Readers -> Seq(1..Messages)]
    BY MessagesAssumption DEF KinInv, ReadersTypeOK
  <1>2. CASE UNCHANGED <<pipe, wrote, taken, printed>>
    BY <1>2 DEF PipeInv, PrintedOnce
  <1>3. CASE /\ pipe' = Append(pipe, wrote + 1) /\ wrote' = wrote + 1
             /\ UNCHANGED <<taken, printed>>
    <2>1. /\ Len(pipe') = Len(pipe) + 1
          /\ pipe'[Len(pipe) + 1] = wrote + 1
          /\ \A j \in 1..Len(pipe) : pipe'[j] = pipe[j]
      BY <1>1, <1>3
    <2>2. wrote' - Len(pipe') = wrote - Len(pipe)
      BY <1>1, <1>3, <2>1
    <2>3. ASSUME NEW j \in 1..Len(pipe') PROVE pipe'[j] = wrote' - Len(pipe') + j
      <3>1. CASE j = Len(pipe) + 1
        BY <1>1, <1>3, <2>1, <3>1
      <3>2. CASE j # Len(pipe) + 1
        <4>1. j \in 1..Len(pipe)
          BY <1>1, <2>1, <3>2
        <4>2. pipe[j] = wrote - Len(pipe) + j
          BY <4>1 DEF PipeInv
        <4>3. QED
          BY <2>1, <2>2, <4>1, <4>2
      <3>3. QED
        BY <3>1, <3>2
    <2>4. PipeInv'
      BY <1>1, <1>3, <2>1, <2>2, <2>3 DEF PipeInv
    <2>5. QED
      BY <1>3, <2>4 DEF PrintedOnce
  <1>4. ASSUME NEW p \in Readers, ReadMessages(p) PROVE PipeInv' /\ PrintedOnce'
    <2>1. /\ pipe # <<>> /\ pipe' = <<>> /\ wrote' = wrote
          /\ taken' = taken \cup ToSet(pipe)
          /\ printed' = [printed EXCEPT ![p] = Append(@, Head(pipe))]
      BY <1>4 DEF ReadMessages
    <2>2. Len(pipe) > 0 /\ Head(pipe) = pipe[1] /\ Len(pipe') = 0
      BY <1>1, <2>1
    <2> DEFINE first == wrote - Len(pipe) + 1
    <2>3. Head(pipe) = first /\ first \in 1..wrote /\ first \notin taken
      BY <1>1, <2>2 DEF PipeInv
    <2>4. ToSet(pipe) = first..wrote
      <3>1. ASSUME NEW m \in first..wrote PROVE m \in ToSet(pipe)
        <4>1. m - wrote + Len(pipe) \in 1..Len(pipe)
          BY <1>1
        <4>2. pipe[m - wrote + Len(pipe)] = m
          BY <1>1, <4>1 DEF PipeInv
        <4>3. QED
          BY <1>1, <4>1, <4>2 DEF ToSet
      <3>2. ASSUME NEW m \in ToSet(pipe) PROVE m \in first..wrote
        <4>1. PICK j \in 1..Len(pipe) : m = pipe[j]
          BY <1>1 DEF ToSet
        <4>2. QED
          BY <1>1, <4>1 DEF PipeInv
      <3>3. QED
        BY <3>1, <3>2
    <2>5. taken = 1..(first - 1)
      BY <1>1 DEF PipeInv
    <2>6. taken' = 1..wrote
      BY <1>1, <2>1, <2>3, <2>4, <2>5
    <2>7. PipeInv'
      BY <1>1, <2>1, <2>2, <2>6 DEF PipeInv
    <2> DEFINE n == Len(printed[p])
    <2>8. /\ n \in Nat /\ DOMAIN printed[p] = 1..n
          /\ DOMAIN printed'[p] = 1..(n + 1)
          /\ printed'[p][n + 1] = first
          /\ \A j \in 1..n : printed'[p][j] = printed[p][j]
      BY <1>1, <2>1, <2>3
    <2>9. \A q \in Readers \ {p} : printed'[q] = printed[q]
      BY <1>1, <2>1
    \* Every message printed after the step was printed before it, or is new.
    <2>10. ASSUME NEW q \in Readers, NEW j \in DOMAIN printed'[q]
           PROVE  \/ j \in DOMAIN printed[q] /\ printed'[q][j] = printed[q][j]
                  \/ q = p /\ j = n + 1 /\ printed'[q][j] = first
      BY <2>8, <2>9
    <2>11. \A q \in Readers : \A j \in DOMAIN printed[q] : printed[q][j] \in taken
      BY DEF PrintedOnce
    <2> HIDE DEF first, n
    <2>12. \A q, r \in Readers : \A j \in DOMAIN printed'[q], k \in DOMAIN printed'[r] :
             printed'[q][j] = printed'[r][k] => q = r /\ j = k
      BY <2>3, <2>10, <2>11 DEF PrintedOnce
    <2>13. \A q \in Readers : \A j \in DOMAIN printed'[q] : printed'[q][j] \in taken'
      BY <1>1, <2>1, <2>3, <2>6, <2>10, <2>11
    <2>14. \E q \in Readers : \E j \in DOMAIN printed'[q] : printed'[q][j] = 1
      <3>1. CASE taken = {}
        <4>1. first = 1
          <5>1. 1 \notin 1..(first - 1)
            BY <2>5, <3>1
          <5>2. QED
            BY <1>1, <2>3, <5>1
        <4>2. QED
          BY <2>8, <4>1
      <3>2. CASE taken # {}
        <4>1. PICK q \in Readers : \E j \in DOMAIN printed[q] : printed[q][j] = 1
          BY <3>2 DEF PrintedOnce
        <4>2. PICK j \in DOMAIN printed[q] : printed[q][j] = 1
          BY <4>1
        <4>3. j \in DOMAIN printed'[q] /\ printed'[q][j] = printed[q][j]
          <5>1. CASE q = p
            BY <2>8, <4>2, <5>1
          <5>2. CASE q # p
            BY <2>9, <4>2, <5>2
          <5>3. QED
            BY <5>1, <5>2
        <4>4. QED
          BY <4>2, <4>3
      <3>3. QED
        BY <3>1, <3>2
    <2>15. QED
      BY <2>7, <2>12, <2>13, <2>14 DEF PrintedOnce
  <1>5. QED
    BY <1>2, <1>3, <1>4, MessagesMove

LEMMA ReadersAlways == Spec => []ReadersInv
  <1>1. Init => ReadersInv
    <2> SUFFICES ASSUME ReadersInit PROVE ReadersInv
      BY DEF Init
    <2>1. pipe = <<>> /\ Len(pipe) = 0 /\ wrote = 0 /\ taken = {}
          /\ \A p \in Readers : printed[p] = <<>>
      BY DEF ReadersInit
    <2>2. KinInv
      BY MessagesAssumption DEF ReadersInit, KinInv, ReadersTypeOK, Family, Readers
    <2>3. PipeInv
      BY <2>1 DEF PipeInv
    <2>4. PrintedOnce
      BY <2>1 DEF PrintedOnce
    <2>5. QED
      BY <2>2, <2>3, <2>4 DEF ReadersInv
  <1>2. ReadersInv /\ [Next]_labVars => ReadersInv'
    BY Frame, KinInductive, PipeInductive DEF ReadersInv
  <1>3. QED
    BY <1>1, <1>2, PTL DEF Spec

\* SIGPIPE kills the writer of LAB5/EX4 only if no reader could be forked; and
\* when the parent ends, with a writer and a reader at least, every message has
\* been read, the first one printed, and none twice.
THEOREM EveryMessageIsRead == Spec => []MessagesAreRead
  <1>1. ReadersInv => MessagesAreRead
    <2> SUFFICES ASSUME ReadersInv PROVE MessagesAreRead
      OBVIOUS
    <2>1. kin["writer"] = "killed" => \A p \in Readers : kin[p] = "failed"
      BY DEF ReadersInv, KinInv
    <2>2. ASSUME kin["parent"] = "ended", kin["writer"] # "failed",
                 \E p \in Readers : kin[p] # "failed"
          PROVE  LET both == printed["r1"] \o printed["r2"]
                 IN taken = 1..Messages /\ 1 \in ToSet(both) /\ IsInjective(both)
      <3>1. wrote = Messages /\ pipe = <<>>
        BY <2>2 DEF ReadersInv, KinInv, Family, Readers
      <3>2. taken = 1..Messages /\ 1 \in taken
        BY <3>1, MessagesAssumption DEF ReadersInv, PipeInv
      <3>3. printed \in [Readers -> Seq(1..Messages)]
        BY DEF ReadersInv, KinInv, ReadersTypeOK
      <3> DEFINE a == printed["r1"]
                 b == printed["r2"]
      <3>4. a \in Seq(1..Messages) /\ b \in Seq(1..Messages)
        BY <3>3 DEF Readers
      <3>5. /\ DOMAIN a = 1..Len(a) /\ DOMAIN b = 1..Len(b)
            /\ Len(a) \in Nat /\ Len(b) \in Nat
            /\ DOMAIN (a \o b) = 1..(Len(a) + Len(b))
            /\ \A j \in 1..(Len(a) + Len(b)) :
                 (a \o b)[j] = IF j <= Len(a) THEN a[j] ELSE b[j - Len(a)]
        <4> HIDE DEF a, b
        <4>1. Len(a) \in Nat /\ Len(b) \in Nat /\ DOMAIN a = 1..Len(a) /\ DOMAIN b = 1..Len(b)
          BY <3>4
        <4>2. /\ Len(a \o b) = Len(a) + Len(b) /\ a \o b \in Seq(1..Messages)
              /\ \A j \in 1..(Len(a) + Len(b)) :
                   (a \o b)[j] = IF j <= Len(a) THEN a[j] ELSE b[j - Len(a)]
          BY <3>4, ConcatProperties
        <4>3. DOMAIN (a \o b) = 1..Len(a \o b)
          BY <4>2
        <4>4. QED
          BY <4>1, <4>2, <4>3
      <3>6. /\ \A j \in DOMAIN a, k \in DOMAIN a : a[j] = a[k] => j = k
            /\ \A j \in DOMAIN b, k \in DOMAIN b : b[j] = b[k] => j = k
            /\ \A j \in DOMAIN a, k \in DOMAIN b : a[j] # b[k]
            /\ (\E j \in DOMAIN a : a[j] = 1) \/ (\E j \in DOMAIN b : b[j] = 1)
        BY <3>2 DEF ReadersInv, PrintedOnce, Readers
      <3> HIDE DEF a, b
      <3>7. 1 \in ToSet(a \o b)
        <4>1. CASE \E j \in DOMAIN a : a[j] = 1
          BY <3>5, <4>1 DEF ToSet
        <4>2. ASSUME NEW j \in DOMAIN b, b[j] = 1 PROVE 1 \in ToSet(a \o b)
          <5>1. Len(a) + j \in DOMAIN (a \o b) /\ (a \o b)[Len(a) + j] = 1
            BY <3>5, <4>2
          <5>2. QED
            BY <5>1 DEF ToSet
        <4>3. QED
          BY <3>6, <4>1, <4>2
      <3>8. IsInjective(a \o b)
        BY <3>5, <3>6 DEF IsInjective
      <3>9. QED
        BY <3>2, <3>7, <3>8 DEF a, b
    <2>3. QED
      BY <2>1, <2>2 DEF MessagesAreRead
  <1>2. QED
    BY <1>1, ReadersAlways, PTL
=============================================================================
