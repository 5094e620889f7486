------------------------------ MODULE Shutdown ------------------------------
(***************************************************************************)
(* The end of build_pipelines' lambda.  It sleeps, requests that the       *)
(* pipeline's threads be cancelled, prints the latencies the workers have  *)
(* logged, and returns.  The threads that are to be cancelled spin without *)
(* a cancellation point (the Spawner has one per announcement), and nobody *)
(* stops the workers: transactions are executed and logged until the       *)
(* process ends.  It ends when the lambda's locals are destroyed, because  *)
(* rpc_handler_thread is still joinable: ~thread calls std::terminate, and *)
(* the process aborts without writing out what stdio has buffered.         *)
(***************************************************************************)
EXTENDS TxCounter

CONSTANTS
  SampleRate,         \* SAMPLE_RATE
  TxCounterLogSize,   \* TX_COUNTER_LOG_SIZE: what log_arr reserves
  BufSize             \* values in a buffer of stdio

(* 1,000,000 requests, at most two in 10 logged, and room for 400,000 per  *)
(* worker.                                                                 *)
ASSUME ShutdownAssumption ==
  /\ IsFiniteSet(Workers)
  /\ NumTxns \in Nat /\ SampleRate \in Nat \ {0} /\ BufSize \in Nat \ {0}
  /\ TxCounterLogSize \in Nat
  /\ 2 * NumTxns + SampleRate <= SampleRate * (TxCounterLogSize + 1)

VARIABLES
  log_arr,       \* per worker, the number of latencies logged
  sh_pc,         \* the lambda: "sleep", "entry", "print", "aborted"
  unflushed,     \* entries of log_map the flush loop has not come to
  w_now,         \* the entry it prints, while sh_pc = "print"
  printed,       \* per worker, the values given to fprintf
  end,           \* end() of the vector being printed
  buffered,      \* values in stdio's buffer
  on_disk,       \* values in the latency log
  logged_before  \* auxiliary: log_arr when the flush loop began

lambdaVars == <<sh_pc, unflushed, w_now, printed, end, buffered, on_disk, logged_before>>
shVars == <<tx_cnt, log_arr, lambdaVars>>

Zero == [w \in Workers |-> 0]

ShInit ==
  /\ tx_cnt = Zero /\ log_arr = Zero /\ logged_before = Zero
  /\ sh_pc = "sleep" /\ unflushed = {} /\ w_now \in Workers /\ printed = Zero
  /\ end = 0 /\ buffered = 0 /\ on_disk = 0

(* Mutant: the latency of every transaction is logged. *)
SampleAlways(cnt) == TRUE

(* log_latency: one transaction in SAMPLE_RATE. *)
Sampled(cnt) == cnt % SampleRate = 0

(* The end of a worker's transaction.  log_latency looks at tx_cnt before  *)
(* the transaction is counted (M_LOG_LATENCY, TPC-C's Payment) or after it *)
(* (TPC-C's NewOrder).  A worker's first transaction inserts an entry into *)
(* log_map, which the flush loop may or may not meet.                      *)
Execute(w, cnt) ==
  /\ sh_pc # "aborted"
  /\ Executed < NumTxns
  /\ log_arr' = IF Sampled(cnt) THEN [log_arr EXCEPT ![w] = @ + 1] ELSE log_arr
  /\ tx_cnt' = [tx_cnt EXCEPT ![w] = @ + 1]
  /\ \/ unflushed' = unflushed
     \/ tx_cnt[w] = 0 /\ sh_pc # "sleep" /\ unflushed' = unflushed \cup {w}
  /\ UNCHANGED <<sh_pc, w_now, printed, end, buffered, on_disk, logged_before>>

(* The lambda wakes up and requests cancellation; the flush loop begins.   *)
(* A worker without a transaction so far is not in log_map.                *)
WakeUp ==
  /\ sh_pc = "sleep"
  /\ sh_pc' = "entry"
  /\ unflushed' = {w \in Workers : tx_cnt[w] > 0}
  /\ logged_before' = log_arr
  /\ UNCHANGED <<tx_cnt, log_arr, w_now, printed, end, buffered, on_disk>>

(* Mutant: the last value of a vector is not printed. *)
FlushEntryShort(w) ==
  /\ sh_pc = "entry" /\ w \in unflushed
  /\ w_now' = w
  /\ end' = log_arr[w] - 1
  /\ sh_pc' = "print"
  /\ UNCHANGED <<tx_cnt, log_arr, unflushed, printed, buffered, on_disk, logged_before>>

(* The loop over log_map comes to an entry; the loop over its vector       *)
(* fetches end() once.                                                     *)
FlushEntry(w) ==
  /\ sh_pc = "entry" /\ w \in unflushed
  /\ w_now' = w
  /\ end' = log_arr[w]
  /\ sh_pc' = "print"
  /\ UNCHANGED <<tx_cnt, log_arr, unflushed, printed, buffered, on_disk, logged_before>>

(* fprintf of one value; a full buffer is written to the file. *)
FlushValue ==
  /\ sh_pc = "print" /\ printed[w_now] < end
  /\ printed' = [printed EXCEPT ![w_now] = @ + 1]
  /\ IF buffered + 1 = BufSize
     THEN buffered' = 0 /\ on_disk' = on_disk + BufSize
     ELSE buffered' = buffered + 1 /\ on_disk' = on_disk
  /\ UNCHANGED <<tx_cnt, log_arr, sh_pc, unflushed, w_now, end, logged_before>>

(* Mutant: every worker's values go to a FILE of their own. *)
FlushNextReopens ==
  /\ sh_pc = "print" /\ printed[w_now] = end
  /\ unflushed' = unflushed \ {w_now}
  /\ sh_pc' = "entry" /\ buffered' = 0
  /\ UNCHANGED <<tx_cnt, log_arr, w_now, printed, end, on_disk, logged_before>>

FlushNext ==
  /\ sh_pc = "print" /\ printed[w_now] = end
  /\ unflushed' = unflushed \ {w_now}
  /\ sh_pc' = "entry"
  /\ UNCHANGED <<tx_cnt, log_arr, w_now, printed, end, buffered, on_disk, logged_before>>

(* The lambda's locals are destroyed. *)
Terminate ==
  /\ sh_pc = "entry" /\ unflushed = {}
  /\ sh_pc' = "aborted"
  /\ UNCHANGED <<tx_cnt, log_arr, unflushed, w_now, printed, end, buffered, on_disk,
                 logged_before>>

Aborted == sh_pc = "aborted" /\ UNCHANGED shVars

ShNext ==
  \/ \E w \in Workers : \E cnt \in {tx_cnt[w], tx_cnt[w] + 1} : Execute(w, cnt)
  \/ \E w \in Workers : FlushEntry(w)
  \/ WakeUp \/ FlushValue \/ FlushNext \/ Terminate \/ Aborted

ShSpec == ShInit /\ [][ShNext]_shVars

-----------------------------------------------------------------------------
(* The flush loop iterates over a vector that a worker may append to: that *)
(* is harmless only if the vector is never reallocated, that is, if no     *)
(* worker ever logs more than log_arr reserves.  A NewOrder that brings    *)
(* tx_cnt to a multiple of SAMPLE_RATE and the Payment after it are both   *)
(* logged, so it may be two transactions in SAMPLE_RATE.                   *)
NeverReallocated == \A w \in Workers : log_arr[w] <= TxCounterLogSize

(* When the lambda ends, it has printed every latency that was logged      *)
(* before the flush loop began, and none that was not logged.              *)
LoggedArePrinted ==
  sh_pc = "aborted" =>
    \A w \in Workers : logged_before[w] <= printed[w] /\ printed[w] <= log_arr[w]

(* "flush latency logs": the lambda neither flushes nor closes the file    *)
(* before the process aborts, but of what was logged before the flush loop *)
(* began, less than one of stdio's buffers is missing from the file.       *)
LossIsOneBuffer ==
  sh_pc = "aborted" =>
    SumFunctionOnSet(logged_before, Workers) - on_disk < BufSize

=============================================================================
