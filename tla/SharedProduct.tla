---------------------------- MODULE SharedProduct ----------------------------
(***************************************************************************)
(* LAB2/EX4: two children store random values in shared memory, each with  *)
(* a sequence number; the parent prints the product when both numbers have *)
(* changed.  There is no lock.  A value is represented by its round.       *)
(***************************************************************************)
EXTENDS Integers, Sequences

CONSTANTS
  Products,   \* products printed by the parent (5 in the code)
  MaxRounds   \* bound on the rounds of a child, which are endless

ASSUME ProductsAssumption  == Products \in Nat \ {0}
ASSUME MaxRoundsAssumption == MaxRounds \in Nat

VARIABLES
  cell,     \* cell[c].val, cell[c].seq: the memory of child c
  turn,     \* turn[c]: its current round
  store,    \* store[c]: what it does next: "begin", store "val" or "seq", "dead"
  doing,    \* what the parent does next
  operand,  \* operand[c]: the value it has read, 0 if it has not
  last,     \* last[c]: the sequence number it has seen
  shown     \* the pairs of values it has multiplied

productVars == <<cell, turn, store, doing, operand, last, shown>>

Sons == {1, 2}

\* A child that could not be forked or executed is not there from the start;
\* the parent does not notice, and polls for ever.
ProductInit ==
  /\ cell = [c \in Sons |-> [val |-> 0, seq |-> 0]]
  /\ turn = [c \in Sons |-> 0]
  /\ store \in [Sons -> {"begin", "dead"}]
  /\ doing = "test1"
  /\ operand = [c \in Sons |-> 0]
  /\ last = [c \in Sons |-> 0]
  /\ shown = <<>>

\* ptr[1] = 0, and the next round.
BeginRound(c) ==
  /\ store[c] = "begin" /\ turn[c] < MaxRounds
  /\ turn' = [turn EXCEPT ![c] = @ + 1]
  /\ cell' = IF turn[c] = 0 THEN [cell EXCEPT ![c].seq = 0] ELSE cell
  /\ store' = [store EXCEPT ![c] = "val"]
  /\ UNCHANGED <<doing, operand, last, shown>>

\* Mutant: the number is stored before the value.
StoreSeqFirst(c) ==
  \/ /\ store[c] = "val"
     /\ cell' = [cell EXCEPT ![c].seq = turn[c]]
     /\ store' = [store EXCEPT ![c] = "seq"]
     /\ UNCHANGED <<turn, doing, operand, last, shown>>
  \/ /\ store[c] = "seq"
     /\ cell' = [cell EXCEPT ![c].val = turn[c]]
     /\ store' = [store EXCEPT ![c] = "begin"]
     /\ UNCHANGED <<turn, doing, operand, last, shown>>

Store(c) ==
  \/ /\ store[c] = "val"
     /\ cell' = [cell EXCEPT ![c].val = turn[c]]
     /\ store' = [store EXCEPT ![c] = "seq"]
     /\ UNCHANGED <<turn, doing, operand, last, shown>>
  \/ /\ store[c] = "seq"
     /\ cell' = [cell EXCEPT ![c].seq = turn[c]]
     /\ store' = [store EXCEPT ![c] = "begin"]
     /\ UNCHANGED <<turn, doing, operand, last, shown>>

\* The condition reads one number, and the other if that one has changed.
Compare(c) ==
  /\ doing = (IF c = 1 THEN "test1" ELSE "test2")
  /\ doing' = CASE cell[c].seq = last[c] -> "test1"
                [] cell[c].seq # last[c] /\ c = 1 -> "test2"
                [] OTHER -> "multiply"
  /\ UNCHANGED <<cell, turn, store, operand, last, shown>>

\* The operands are read in either order.
ReadOperand(c) ==
  /\ doing = "multiply" /\ operand[c] = 0
  /\ operand' = [operand EXCEPT ![c] = cell[c].val]
  /\ UNCHANGED <<cell, turn, store, doing, last, shown>>

PrintProduct ==
  /\ doing = "multiply" /\ \A c \in Sons : operand[c] # 0
  /\ shown' = Append(shown, operand)
  /\ operand' = [c \in Sons |-> 0]
  /\ doing' = "last1"
  /\ UNCHANGED <<cell, turn, store, last>>

\* Mutant: both numbers are taken from the first child.
NoteSeqOfFirst(c) ==
  /\ doing = (IF c = 1 THEN "last1" ELSE "last2")
  /\ last' = [last EXCEPT ![1] = cell[1].seq]
  /\ doing' = IF c = 1 THEN "last2" ELSE IF Len(shown) < Products THEN "test1" ELSE "kill1"
  /\ UNCHANGED <<cell, turn, store, operand, shown>>

\* The numbers are read again, after the values.
NoteSeq(c) ==
  /\ doing = (IF c = 1 THEN "last1" ELSE "last2")
  /\ last' = [last EXCEPT ![c] = cell[c].seq]
  /\ doing' = IF c = 1 THEN "last2" ELSE IF Len(shown) < Products THEN "test1" ELSE "kill1"
  /\ UNCHANGED <<cell, turn, store, operand, shown>>

KillSon(c) ==
  /\ doing = (IF c = 1 THEN "kill1" ELSE "kill2")
  /\ store' = [store EXCEPT ![c] = "dead"]
  /\ doing' = IF c = 1 THEN "kill2" ELSE "end"
  /\ UNCHANGED <<cell, turn, operand, last, shown>>

ProductNext ==
  \/ \E c \in Sons : BeginRound(c) \/ Store(c)
  \/ \E c \in Sons : Compare(c) \/ ReadOperand(c) \/ NoteSeq(c) \/ KillSon(c)
  \/ PrintProduct
----------------------------------------------------------------------------
ProductTypeOK ==
  /\ cell \in [Sons -> [val : 0..MaxRounds, seq : 0..MaxRounds]]
  /\ turn \in [Sons -> 0..MaxRounds]
  /\ store \in [Sons -> {"begin", "val", "seq", "dead"}]
  /\ doing \in {"test1", "test2", "multiply", "last1", "last2", "kill1", "kill2", "end"}
  /\ operand \in [Sons -> 0..MaxRounds]
  /\ last \in [Sons -> 0..MaxRounds]
  /\ shown \in Seq([Sons -> 1..MaxRounds]) /\ Len(shown) <= Products

\* The k-th product is made of values that both children have stored in their
\* k-th round or later: none is computed before its values are there.
ProductsAreFresh ==
  \A k \in DOMAIN shown : \A c \in Sons : shown[k][c] >= k

\* Products of a child's values follow the order of its rounds, and one value
\* enters at most two of them (two, if the parent reads it before its number).
NoValueThrice ==
  \A j, k \in DOMAIN shown : \A c \in Sons :
    /\ j < k => shown[j][c] <= shown[k][c]
    /\ j + 1 < k => shown[j][c] < shown[k][c]
============================================================================
