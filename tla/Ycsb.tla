------------------------------- MODULE Ycsb ---------------------------------
(***************************************************************************)
(* YCSB on the runtime: the Spawner's parse_and_process creates one        *)
(* behaviour per log entry on the cowns of its rows; a worker runs the     *)
(* lambda row by row, and counts it in its TxCounter at the end.           *)
(*                                                                         *)
(* The rows start with any contents: aligned_alloc_hpage_lazy, which       *)
(* allocates them under STORAGE_TIER, does not clear the memory.           *)
(***************************************************************************)
EXTENDS Integers, Sequences, SequencesExt

CONSTANTS Rows, Workers, Log, RowSize, WriteSize, ByteMod

(* ycsb/gen-log generates distinct keys, of rows that main has allocated. *)
ASSUME YcsbAssumption ==
  /\ Log \in Seq([indices : Seq(Rows), write_set : Seq(BOOLEAN)])
  /\ \A n \in 1..Len(Log) :
       /\ Len(Log[n].indices) = Len(Log[n].write_set)
       /\ \A i, j \in 1..Len(Log[n].indices) :
            i # j => Log[n].indices[i] # Log[n].indices[j]

VARIABLES
  spawned, cownsOf, joining, queue, running, finished,   \* the runtime's
  payload,     \* per row
  sum,         \* per worker, the lambda's sum
  index,       \* per worker, the row its lambda is at
  tx_cnt       \* per worker, TxCounter's tx_cnt

ycsbVars == <<payload, sum, index, tx_cnt>>
runtimeVars == <<spawned, cownsOf, joining, queue, running, finished>>
vars == <<runtimeVars, ycsbVars>>

INSTANCE Runtime WITH Cowns <- Rows, NumTxns <- Len(Log),
                      Whens <- {ToSet(Log[n].indices) : n \in 1..Len(Log)}

(* What a row is and what memset and a sum do to it. *)
S == INSTANCE SerialExecution WITH db <- payload, executed <- spawned

Init ==
  /\ RtInit
  /\ payload \in [Rows -> S!Payload]
  /\ sum = [w \in Workers |-> 0] /\ index = [w \in Workers |-> 0]
  /\ tx_cnt = [w \in Workers |-> 0]

(* parse_and_process: GET_COWN of every index, and the when. *)
ParseAndProcess ==
  /\ spawned < Len(Log)
  /\ Spawn(ToSet(Log[spawned + 1].indices))
  /\ UNCHANGED ycsbVars

Join(r) == Exchange(r) /\ UNCHANGED ycsbVars

(* A worker enters the lambda. *)
Enter(w, n) ==
  /\ Start(w, n)
  /\ sum' = [sum EXCEPT ![w] = 0]
  /\ index' = [index EXCEPT ![w] = 1]
  /\ UNCHANGED <<payload, tx_cnt>>

(* Mutant: sum is not the lambda's own, all that run at once add to one.   *)
TxnSharedSum(w) ==
  LET t == Log[running[w]]
      i == index[w]
      row == t.indices[i]
  IN  /\ running[w] # 0 /\ i <= Len(t.indices)
      /\ \/ /\ t.write_set[i]
            /\ payload' = [payload EXCEPT ![row] = S!Memset(@, sum[w])]
            /\ sum' = sum
         \/ /\ ~t.write_set[i]
            /\ sum' = [v \in Workers |-> (sum[w] + S!SumOf(payload[row])) % ByteMod]
            /\ payload' = payload
      /\ index' = [index EXCEPT ![w] = i + 1]
      /\ UNCHANGED <<tx_cnt, runtimeVars>>

(* TXN(_INDEX) on the row that the lambda is at: memset it, or add its     *)
(* bytes to sum, which is a byte.                                          *)
Txn(w) ==
  LET t == Log[running[w]]
      i == index[w]
      row == t.indices[i]
  IN  /\ running[w] # 0 /\ i <= Len(t.indices)
      /\ \/ /\ t.write_set[i]
            /\ payload' = [payload EXCEPT ![row] = S!Memset(@, sum[w])]
            /\ sum' = sum
         \/ /\ ~t.write_set[i]
            /\ sum' = [sum EXCEPT ![w] = (@ + S!SumOf(payload[row])) % ByteMod]
            /\ payload' = payload
      /\ index' = [index EXCEPT ![w] = i + 1]
      /\ UNCHANGED <<tx_cnt, runtimeVars>>

(* M_LOG_LATENCY counts the transaction; the lambda returns. *)
Leave(w) ==
  /\ running[w] # 0
  /\ index[w] > Len(Log[running[w]].indices)
  /\ tx_cnt' = [tx_cnt EXCEPT ![w] = @ + 1]
  /\ Finish(w)
  /\ UNCHANGED <<payload, sum, index>>

(* All have finished, and the workers look for work in vain. *)
Done == AllDone /\ UNCHANGED vars

Next ==
  \/ ParseAndProcess
  \/ \E r \in Rows : Join(r)
  \/ \E w \in Workers : (\E n \in Txns : Enter(w, n)) \/ Txn(w) \/ Leave(w)
  \/ Done

Spec == Init /\ [][Next]_vars

-----------------------------------------------------------------------------
(***************************************************************************)
(* The refinement: a transaction takes effect when it is spawned.  The     *)
(* abstract database is what the rows become when the workers run what is  *)
(* left of every spawned transaction, in the order of the log.             *)
(***************************************************************************)
WorkerOf(n) == CHOOSE w \in Workers : running[w] = n

Rest(d, n) ==
  IF n \in finished THEN d
  ELSE IF \E w \in Workers : running[w] = n
  THEN S!RunFrom(d, Log[n], index[WorkerOf(n)], sum[WorkerOf(n)])
  ELSE S!Execute(d, Log[n])

(* Per n, the rows when the rest of transactions 1 to n has been run. *)
After[n \in 0..Len(Log)] == IF n = 0 THEN payload ELSE Rest(After[n - 1], n)

Outcome == After[spawned]

Serial == INSTANCE SerialExecution WITH db <- Outcome, executed <- spawned

(* README: "given exactly the same input, it will produce the same output  *)
(* via parallel execution".  Whatever the workers' interleaving, the       *)
(* database goes through the states of a serial execution of the log, and  *)
(* when all have finished it is in the last of them.                       *)
Deterministic == Serial!SerialSpec

=============================================================================
