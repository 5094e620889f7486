-------------------------- MODULE SerialExecution ---------------------------
(***************************************************************************)
(* What the runtime promises: the database goes through the states of the  *)
(* log executed one transaction after the other, each of them at once.     *)
(* Transactions are YCSB's: a list of rows and, for each, whether it is    *)
(* written or read.                                                        *)
(***************************************************************************)
EXTENDS Integers, Sequences, Functions

CONSTANTS
  Rows,        \* the rows of the database
  Log,         \* the entries of the log: [indices, write_set]
  RowSize,     \* ROW_SIZE
  WriteSize,   \* WRITE_SIZE
  ByteMod      \* 256: payload and sum are bytes

VARIABLES
  db,          \* payload of every row
  executed     \* entries 1..executed have been executed

Payload == [1..RowSize -> 0..(ByteMod - 1)]

(* The sum of a row's bytes. *)
SumOf(p) == FoldFunction(+, 0, p)

(* memset of the first WRITE_SIZE bytes. *)
Memset(p, sum) == [j \in 1..RowSize |-> IF j <= WriteSize THEN sum ELSE p[j]]

(***************************************************************************)
(* TXN(_INDEX) for the rows of t from the i-th on, begun with the given    *)
(* sum: the rows that are read add up, in a byte, each row that is written *)
(* gets the sum so far.  The rows of a transaction are distinct.           *)
(***************************************************************************)
SumBefore(d, t, i, sum) ==
  LET before[j \in 1..Len(t.indices)] ==
        IF j <= i THEN sum
        ELSE IF t.write_set[j - 1] THEN before[j - 1]
        ELSE (before[j - 1] + SumOf(d[t.indices[j - 1]])) % ByteMod
  IN  before

RunFrom(d, t, i, sum) ==
  [r \in Rows |->
     LET writes == {j \in i..Len(t.indices) : t.indices[j] = r /\ t.write_set[j]}
     IN  IF writes = {} THEN d[r]
         ELSE Memset(d[r], SumBefore(d, t, i, sum)[CHOOSE j \in writes : TRUE])]

(* A whole transaction. *)
Execute(d, t) == RunFrom(d, t, 1, 0)

SerialInit == db \in [Rows -> Payload] /\ executed = 0

ExecuteNext ==
  /\ executed < Len(Log)
  /\ db' = Execute(db, Log[executed + 1])
  /\ executed' = executed + 1

SerialSpec == SerialInit /\ [][ExecuteNext]_<<db, executed>>

=============================================================================
