--------------------------- MODULE FileDispatcher ---------------------------
(***************************************************************************)
(* The dispatcher of builds without CORE_PIPE (and with RPC_LATENCY): one  *)
(* thread that waits for requests, prepares the cown_ptrs of a batch of    *)
(* log entries and dispatches them.  Three cursors walk the log: idx       *)
(* decides when to rewind, prepare_proc_read_head where to prepare and     *)
(* read_head what to dispatch.  (prepare_parse_read_head only prefetches.) *)
(* RPCHandler delivers requests.                                           *)
(***************************************************************************)
EXTENDS Integers

CONSTANTS
  Count,         \* count: the entries of the log
  MaxBatch,      \* MAX_BATCH
  RpcLogSize,    \* RPC_LOG_SIZE
  WordMod        \* 2^64, where size_t and uint64_t wrap

(* The generators write logs of 1,000,000 entries. *)
ASSUME FdAssumption ==
  /\ Count \in Nat /\ MaxBatch \in Nat \ {0} /\ MaxBatch <= Count
  /\ RpcLogSize \in Nat
  /\ WordMod \in Nat /\ Count + MaxBatch < WordMod

VARIABLES
  recvd_req_cnt,           \* requests RPCHandler has stamped and counted
  pc,                      \* "top", "prepare", "dispatch", "done"
  i,                       \* counter of the loop dispatch_batch is in
  look_ahead,              \* size of the batch; uninitialized at first
  idx,
  prepare_proc_read_head,
  read_head,
  handled_req_cnt,
  cown_ptrs,               \* positions whose cown_ptrs are filled in
  txn_log_id,              \* requests dispatched
  tx_spawn_sum             \* batches dispatched, but for the last

fdVars == <<pc, i, look_ahead, idx, prepare_proc_read_head, read_head,
            handled_req_cnt, cown_ptrs, txn_log_id, tx_spawn_sum>>
vars == <<recvd_req_cnt, fdVars>>

Init ==
  /\ recvd_req_cnt = 0
  /\ pc = "top" /\ i = 0 /\ look_ahead \in 0..(WordMod - 1) /\ idx = 0
  /\ prepare_proc_read_head = 0 /\ read_head = 0 /\ handled_req_cnt = 0
  /\ cown_ptrs = {} /\ txn_log_id = 0 /\ tx_spawn_sum = 0

(* RPCHandler stores an arrival time and counts the request. *)
Receive ==
  /\ recvd_req_cnt < RpcLogSize
  /\ recvd_req_cnt' = recvd_req_cnt + 1
  /\ UNCHANGED fdVars

Avail == recvd_req_cnt - handled_req_cnt

(* check_avail_cnts: what has arrived, at most MaxBatch. *)
DynBatch == IF Avail >= MaxBatch THEN MaxBatch ELSE Avail

(* Mutant: read_head is not rewound with the other two. *)
BeginBatchKeepsHead ==
  /\ pc = "top" /\ txn_log_id < RpcLogSize
  /\ Avail > 0
  /\ tx_spawn_sum' = (tx_spawn_sum + look_ahead) % WordMod
  /\ IF idx > Count - MaxBatch
     THEN idx' = 0 /\ prepare_proc_read_head' = 0
     ELSE UNCHANGED <<idx, prepare_proc_read_head>>
  /\ look_ahead' = DynBatch
  /\ i' = 0 /\ pc' = "prepare"
  /\ UNCHANGED <<read_head, recvd_req_cnt, handled_req_cnt, cown_ptrs, txn_log_id>>

(* run: count the last batch, enter dispatch_batch, rewind if the log may  *)
(* be too short for a full batch, and spin until there is a request.       *)
BeginBatch ==
  /\ pc = "top" /\ txn_log_id < RpcLogSize
  /\ Avail > 0
  /\ tx_spawn_sum' = (tx_spawn_sum + look_ahead) % WordMod
  /\ IF idx > Count - MaxBatch
     THEN idx' = 0 /\ prepare_proc_read_head' = 0 /\ read_head' = 0
     ELSE UNCHANGED <<idx, prepare_proc_read_head, read_head>>
  /\ look_ahead' = DynBatch
  /\ i' = 0 /\ pc' = "prepare"
  /\ UNCHANGED <<recvd_req_cnt, handled_req_cnt, cown_ptrs, txn_log_id>>

(* prepare_cowns of one entry. *)
PrepareCowns ==
  /\ pc = "prepare"
  /\ cown_ptrs' = cown_ptrs \cup {prepare_proc_read_head}
  /\ prepare_proc_read_head' = prepare_proc_read_head + 1
  /\ IF i + 1 < look_ahead THEN i' = i + 1 /\ pc' = pc ELSE i' = 0 /\ pc' = "dispatch"
  /\ UNCHANGED <<look_ahead, idx, read_head, handled_req_cnt, txn_log_id,
                 tx_spawn_sum, recvd_req_cnt>>

(* dispatch_one of one entry; after the last, the batch is handled. *)
DispatchOne ==
  /\ pc = "dispatch"
  /\ txn_log_id' = txn_log_id + 1
  /\ read_head' = read_head + 1
  /\ idx' = idx + 1
  /\ i' = i + 1
  /\ IF i + 1 < look_ahead
     THEN UNCHANGED <<pc, handled_req_cnt>>
     ELSE pc' = "top" /\ handled_req_cnt' = handled_req_cnt + look_ahead
  /\ UNCHANGED <<look_ahead, prepare_proc_read_head, cown_ptrs, tx_spawn_sum,
                 recvd_req_cnt>>

(* Mutant: the comparison of Spawner::run. *)
StopWhenExceeded ==
  /\ pc = "top" /\ txn_log_id > RpcLogSize
  /\ pc' = "done"
  /\ UNCHANGED <<i, look_ahead, idx, prepare_proc_read_head, read_head,
                 handled_req_cnt, cown_ptrs, txn_log_id, tx_spawn_sum,
                 recvd_req_cnt>>

(* run leaves its loop. *)
Stop ==
  /\ pc = "top" /\ txn_log_id >= RpcLogSize
  /\ pc' = "done"
  /\ UNCHANGED <<i, look_ahead, idx, prepare_proc_read_head, read_head,
                 handled_req_cnt, cown_ptrs, txn_log_id, tx_spawn_sum,
                 recvd_req_cnt>>

(* RPCHandler has delivered RPC_LOG_SIZE requests, and run has ended. *)
Finished == pc = "done" /\ recvd_req_cnt = RpcLogSize /\ UNCHANGED vars

Dispatcher == BeginBatch \/ PrepareCowns \/ DispatchOne \/ Stop

Next == Receive \/ Dispatcher \/ Finished

Spec == Init /\ [][Next]_vars

-----------------------------------------------------------------------------
(* The dispatcher's types, and the size of a batch it works on. *)
FdTypeOK ==
  /\ recvd_req_cnt \in Nat
  /\ pc \in {"top", "prepare", "dispatch", "done"} /\ i \in Nat
  /\ look_ahead \in 0..(WordMod - 1) /\ idx \in Nat
  /\ prepare_proc_read_head \in Nat /\ read_head \in Nat
  /\ handled_req_cnt \in Nat /\ cown_ptrs \subseteq Nat
  /\ txn_log_id \in Nat /\ tx_spawn_sum \in 0..(WordMod - 1)
  /\ pc \in {"prepare", "dispatch"} => look_ahead \in 1..MaxBatch

(* Whatever lap the dispatcher is in, the entry that dispatch_one reads    *)
(* was prepared, and its request has arrived: the cursors of the two loops *)
(* and the two counters stay together across rewinds.                      *)
FdPrepared ==
  pc = "dispatch" => read_head \in cown_ptrs /\ txn_log_id < recvd_req_cnt

(* Neither loop of dispatch_batch leaves the log. *)
FdInLog ==
  /\ pc = "prepare" => prepare_proc_read_head < Count
  /\ pc = "dispatch" => read_head < Count

=============================================================================
