----------------------------- MODULE TxCounter ------------------------------
(***************************************************************************)
(* The workers' transaction counters, which Statistics sums up and whose   *)
(* latency logs Shutdown prints: a TxCounter per worker thread.            *)
(***************************************************************************)
EXTENDS Integers, FiniteSets, Functions

CONSTANTS
  Workers,     \* the worker_cnt threads that execute transactions
  NumTxns      \* RPC_LOG_SIZE: the transactions there are

VARIABLE
  tx_cnt       \* per worker, tx_cnt of its TxCounter

(* The transactions executed. *)
Executed == SumFunctionOnSet(tx_cnt, Workers)

=============================================================================
