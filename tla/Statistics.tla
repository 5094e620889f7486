----------------------------- MODULE Statistics -----------------------------
(***************************************************************************)
(* The throughput statistics: a worker's first transaction registers its   *)
(* TxCounter in counter_map, every transaction increments it, and the      *)
(* dispatching thread (Spawner::run or FileDispatcher::run) announces how  *)
(* many were executed every ANNOUNCE_THROUGHPUT_BATCH_SIZE dispatched      *)
(* ones.  It reads the map and the counters without the map's mutex, one   *)
(* counter after the other, while the workers go on.                       *)
(*                                                                         *)
(* operator[] of counter_map links a node with a null pointer and counts   *)
(* it in size(), and only then is &tx_cnt stored in it.  The dispatching   *)
(* thread sees these as separate steps.                                    *)
(***************************************************************************)
EXTENDS TxCounter

CONSTANTS
  AnnounceSize,    \* ANNOUNCE_THROUGHPUT_BATCH_SIZE
  BatchSizes,      \* the sizes of batches: 1 to MAX_BATCH
  InitRegistered,  \* what counter_registered may hold at first
  InitExecSum      \* what tx_exec_sum may hold at first

ASSUME StatisticsAssumption ==
  /\ IsFiniteSet(Workers) /\ AnnounceSize \in Nat /\ BatchSizes \subseteq Nat
  /\ NumTxns \in Nat
  /\ InitRegistered \subseteq BOOLEAN /\ InitExecSum \subseteq Nat

VARIABLES
  counter,             \* per worker, its TxCounter: "none"; "inserting", "null",
                       \* "stored" in the constructor; "mapped" after it
  st_pc,               \* the dispatching thread: "run", "sum", "print", "crashed"
  counter_registered,
  tx_count,            \* dispatched since the last announcement
  spawn_sum,           \* Spawner::tx_spawn_sum: dispatched
  tx_exec_sum, last_tx_exec_sum,
  unread, sum,         \* calc_tx_exec_sum: counters to be read, sum so far
  executed_before      \* auxiliary: the transactions executed when it began

workerVars == <<counter, tx_cnt>>
runVars == <<st_pc, counter_registered, tx_count, spawn_sum, tx_exec_sum,
             last_tx_exec_sum, unread, sum, executed_before>>
stVars == <<workerVars, runVars>>

(* The workers in a step of the constructor that holds the mutex. *)
Constructing == {w \in Workers : counter[w] \in {"inserting", "null", "stored"}}

(* The keys that size() counts: all but those about to be linked. *)
counter_map == {w \in Workers : counter[w] \in {"null", "stored", "mapped"}}

(* FileDispatcher's constructor sets both members the constants are about, *)
(* Spawner's sets neither.                                                 *)
StInit ==
  /\ counter = [w \in Workers |-> "none"] /\ tx_cnt = [w \in Workers |-> 0]
  /\ st_pc = "run" /\ tx_count = 0 /\ spawn_sum = 0 /\ last_tx_exec_sum = 0
  /\ counter_registered \in InitRegistered /\ tx_exec_sum \in InitExecSum
  /\ unread = {} /\ sum = 0 /\ executed_before = 0

-----------------------------------------------------------------------------
(* Workers. *)

(* A transaction for w to execute: dispatched, and in no other worker's    *)
(* constructor.                                                            *)
Pending == Executed + Cardinality(Constructing) < spawn_sum

(* TxCounter::instance() in w's first transaction: the constructor takes   *)
(* the mutex, and operator[] allocates a node and may rehash.              *)
EnterConstructor(w) ==
  /\ counter[w] = "none" /\ Pending
  /\ Constructing = {}
  /\ counter' = [counter EXCEPT ![w] = "inserting"]
  /\ UNCHANGED <<tx_cnt, runVars>>

(* The node is linked and counted, with a null pointer for its value. *)
LinkNode(w) ==
  /\ counter[w] = "inserting"
  /\ counter' = [counter EXCEPT ![w] = "null"]
  /\ UNCHANGED <<tx_cnt, runVars>>

(* &tx_cnt is stored in it. *)
StorePointer(w) ==
  /\ counter[w] = "null"
  /\ counter' = [counter EXCEPT ![w] = "stored"]
  /\ UNCHANGED <<tx_cnt, runVars>>

(* The constructor returns, and the transaction is counted. *)
LeaveConstructor(w) ==
  /\ counter[w] = "stored"
  /\ counter' = [counter EXCEPT ![w] = "mapped"]
  /\ tx_cnt' = [tx_cnt EXCEPT ![w] = @ + 1]
  /\ UNCHANGED runVars

Incr(w) ==
  /\ counter[w] = "mapped" /\ Pending
  /\ tx_cnt' = [tx_cnt EXCEPT ![w] = @ + 1]
  /\ UNCHANGED <<counter, runVars>>

Worker(w) ==
  \/ EnterConstructor(w) \/ LinkNode(w) \/ StorePointer(w) \/ LeaveConstructor(w)
  \/ Incr(w)

-----------------------------------------------------------------------------
(* The dispatching thread. *)

(* Mutant: the first worker in the map is taken for all of them. *)
TrackAny == counter_registered \/ counter_map # {}

(* track_worker_counter, called until it has succeeded. *)
Track == counter_registered \/ Cardinality(counter_map) = Cardinality(Workers)

(* A batch of n transactions is dispatched; when enough have been, the     *)
(* announcement begins, with a sum if all workers are known.               *)
DispatchBatch(n) ==
  /\ st_pc = "run" /\ spawn_sum + n <= NumTxns
  /\ counter_registered' = Track
  /\ spawn_sum' = spawn_sum + n
  /\ tx_count' = tx_count + n
  /\ \/ tx_count' < AnnounceSize /\ UNCHANGED <<st_pc, unread, sum, executed_before>>
     \/ tx_count' >= AnnounceSize /\ ~counter_registered'
        /\ st_pc' = "print" /\ UNCHANGED <<unread, sum, executed_before>>
     \/ tx_count' >= AnnounceSize /\ counter_registered'
        /\ st_pc' = "sum" /\ unread' = counter_map /\ sum' = 0
        /\ executed_before' = Executed
  /\ UNCHANGED <<tx_exec_sum, last_tx_exec_sum, workerVars>>

(* Mutant: a counter is added twice. *)
ReadCounterTwice(w) ==
  /\ st_pc = "sum" /\ w \in unread /\ counter[w] # "null"
  /\ sum' = sum + 2 * tx_cnt[w]
  /\ unread' = unread \ {w}
  /\ UNCHANGED <<st_pc, counter_registered, tx_count, spawn_sum, tx_exec_sum,
                 last_tx_exec_sum, executed_before, workerVars>>

(* calc_tx_exec_sum reads one more counter. *)
ReadCounter(w) ==
  /\ st_pc = "sum" /\ w \in unread /\ counter[w] # "null"
  /\ sum' = sum + tx_cnt[w]
  /\ unread' = unread \ {w}
  /\ UNCHANGED <<st_pc, counter_registered, tx_count, spawn_sum, tx_exec_sum,
                 last_tx_exec_sum, executed_before, workerVars>>

(* It comes to a node whose pointer has not been stored: reading through   *)
(* the null pointer ends the process.                                      *)
ReadNull(w) ==
  /\ st_pc = "sum" /\ w \in unread /\ counter[w] = "null"
  /\ st_pc' = "crashed"
  /\ UNCHANGED <<counter_registered, tx_count, spawn_sum, tx_exec_sum,
                 last_tx_exec_sum, unread, sum, executed_before, workerVars>>

EndSum ==
  /\ st_pc = "sum" /\ unread = {}
  /\ tx_exec_sum' = sum
  /\ st_pc' = "print"
  /\ UNCHANGED <<counter_registered, tx_count, spawn_sum, last_tx_exec_sum,
                 unread, sum, executed_before, workerVars>>

(* The rates tx_count and tx_exec_sum - last_tx_exec_sum are printed. *)
Announce ==
  /\ st_pc = "print"
  /\ st_pc' = "run"
  /\ tx_count' = 0
  /\ last_tx_exec_sum' = tx_exec_sum
  /\ UNCHANGED <<counter_registered, spawn_sum, tx_exec_sum, unread, sum,
                 executed_before, workerVars>>

(* All that are dispatched have been executed, or the process has ended. *)
Drained ==
  /\ \/ spawn_sum = NumTxns /\ Executed = NumTxns /\ st_pc = "run"
     \/ st_pc = "crashed"
  /\ UNCHANGED stVars

StNext ==
  \/ st_pc # "crashed" /\ \E w \in Workers : Worker(w)
  \/ \E n \in BatchSizes : DispatchBatch(n)
  \/ \E w \in Workers : ReadCounter(w) \/ ReadNull(w)
  \/ EndSum \/ Announce \/ Drained

StSpec == StInit /\ [][StNext]_stVars

-----------------------------------------------------------------------------
(* While calc_tx_exec_sum iterates over counter_map without the mutex, the *)
(* map does not grow: every worker's node is linked.  A constructor may    *)
(* still be running, but one at most, that of the worker linked last, and  *)
(* only its pointer may still be null.                                     *)
SumOnQuietMap ==
  st_pc = "sum" =>
    /\ counter_map = Workers
    /\ \A v, w \in Constructing : v = w

(* Though the counters are read one by one while they change, the sum is   *)
(* one that was right at some time during the summing: at least what had   *)
(* been executed when it began, at most what has been by now. It is never  *)
(* less than the sum before it, whose difference is what is printed and is *)
(* computed in unsigned numbers.                                           *)
SumWasRight ==
  st_pc = "print" /\ counter_registered =>
    /\ executed_before <= tx_exec_sum /\ tx_exec_sum <= Executed
    /\ last_tx_exec_sum <= tx_exec_sum

=============================================================================
