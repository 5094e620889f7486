------------------------------ MODULE Pipeline ------------------------------
(***************************************************************************)
(* The dispatcher pipeline that build_pipelines starts in the CORE_PIPE +  *)
(* INDEXER build with RPC_LATENCY: four pinned threads,                    *)
(*                                                                         *)
(*   RPCHandler --avail_cnt--> Indexer --ring--> Prefetcher --ring--> Spawner *)
(*                                                                         *)
(* over one transaction log of Count entries that every stage walks with   *)
(* a cursor of its own.  RPCHandler stamps a request's arrival time and    *)
(* counts it; Indexer turns the count into batches and fills in the        *)
(* cown_ptrs of the log entries; Prefetcher touches them; Spawner          *)
(* dispatches them, one `when` per entry, to the runtime.                  *)
(*                                                                         *)
(* A cursor (read_head) and its counter (read_idx, idx) are reset and      *)
(* advanced together by a constant record size, so a position in the log   *)
(* is the counter.  Prefetching changes no state.                          *)
(***************************************************************************)
EXTENDS Integers, Sequences

CONSTANTS
  Count,                 \* read_count: the entries the log's header announces
  MaxBatch,              \* MAX_BATCH
  ChannelSizeIdxPref,    \* CHANNEL_SIZE_IDX_PREF
  ChannelSize,           \* CHANNEL_SIZE
  RpcLogSize,            \* RPC_LOG_SIZE: the requests RPCHandler ever emits
  WordMod                \* 2^32 (Indexer) and 2^64: where unsigned wraps

(* Both generators write logs of 1,000,000 entries, far more than a batch. *)
ASSUME PipelineAssumption ==
  /\ Count \in Nat /\ MaxBatch \in Nat \ {0} /\ MaxBatch <= Count
  /\ ChannelSizeIdxPref \in Nat \ {0} /\ ChannelSize \in Nat \ {0}
  /\ RpcLogSize \in Nat
  /\ WordMod \in Nat /\ Count + MaxBatch < WordMod

VARIABLES
  rpc_pc,          \* "stamp", "add": RPCHandler::run
  rpc_i,           \* RPCHandler's i
  log_arr,         \* the indices of log_arr that hold an arrival time
  avail_cnt,       \* the atomic request counter
  ix_pc,           \* "check", "prepare", "push": Indexer::run
  ix_batch,        \* Indexer's batch, uninitialized until the first check
  ix_i,            \* Indexer's loop counter
  read_idx,        \* Indexer's cursor
  handled_req_cnt, \* Indexer's handled_req_cnt
  cown_ptrs,       \* the log positions whose cown_ptrs prepare_cowns filled
  ring_idx_pref,   \* ring from Indexer to Prefetcher
  pf_pc,           \* "front", "push", "pop": Prefetcher::run
  pf_idx,          \* Prefetcher's cursor
  ring_pref_disp,  \* ring from Prefetcher to Spawner
  sp_pc,           \* "front", "dispatch", "pop": Spawner::run
  sp_i,            \* Spawner's loop counter
  sp_idx,          \* Spawner's cursor
  txn_log_id       \* Spawner's txn_log_id: the requests dispatched so far

rpcVars == <<rpc_pc, rpc_i, log_arr, avail_cnt>>
ixVars  == <<ix_pc, ix_batch, ix_i, read_idx, handled_req_cnt, cown_ptrs>>
pfVars  == <<pf_pc, pf_idx>>
spVars  == <<sp_pc, sp_i, sp_idx, txn_log_id>>
vars == <<rpcVars, ixVars, ring_idx_pref, pfVars, ring_pref_disp, spVars>>

(* Unsigned subtraction of machine words. *)
USub(a, b) == IF b <= a THEN a - b ELSE WordMod + a - b

(***************************************************************************)
(* A ring carries batch sizes.  The field end is auxiliary: the number of  *)
(* requests the Indexer had taken when it finished the batch.              *)
(***************************************************************************)
Batch == [sz : 1..MaxBatch, end : Nat]

Init ==
  /\ rpc_pc = "stamp" /\ rpc_i = 0 /\ log_arr = {} /\ avail_cnt = 0
  /\ ix_pc = "check" /\ ix_batch \in 0..(WordMod - 1) /\ ix_i = 0
  /\ read_idx = 0 /\ handled_req_cnt = 0 /\ cown_ptrs = {}
  /\ ring_idx_pref = <<>> /\ ring_pref_disp = <<>>
  /\ pf_pc = "front" /\ pf_idx = 0
  /\ sp_pc = "front" /\ sp_i = 0 /\ sp_idx = 0 /\ txn_log_id = 0

-----------------------------------------------------------------------------
(* RPCHandler: waiting for next_ts only decides when these steps happen.   *)

(* Mutant: the arrival time is stored at ++i. *)
RPCStampPreIncrement ==
  /\ rpc_pc = "stamp" /\ rpc_i < RpcLogSize
  /\ log_arr' = log_arr \cup {rpc_i + 1}
  /\ rpc_i' = rpc_i + 1
  /\ rpc_pc' = "add"
  /\ UNCHANGED <<avail_cnt, ixVars, ring_idx_pref, pfVars, ring_pref_disp, spVars>>

(* i++ and the store of the arrival time; no step once i reaches           *)
(* RPC_LOG_SIZE (the thread leaves its loop).                              *)
RPCStamp ==
  /\ rpc_pc = "stamp" /\ rpc_i < RpcLogSize
  /\ log_arr' = log_arr \cup {rpc_i}
  /\ rpc_i' = rpc_i + 1
  /\ rpc_pc' = "add"
  /\ UNCHANGED <<avail_cnt, ixVars, ring_idx_pref, pfVars, ring_pref_disp, spVars>>

RPCFetchAdd ==
  /\ rpc_pc = "add"
  /\ avail_cnt' = avail_cnt + 1
  /\ rpc_pc' = "stamp"
  /\ UNCHANGED <<rpc_i, log_arr, ixVars, ring_idx_pref, pfVars, ring_pref_disp, spVars>>

-----------------------------------------------------------------------------
(* Indexer.                                                                *)

(* Mutant: a batch takes everything that has arrived. *)
DynBatchUncapped(avail) == avail

(* The batch of check_avail_cnts: what has arrived, at most MaxBatch. *)
DynBatch(avail) == IF avail >= MaxBatch THEN MaxBatch ELSE avail

(* The wrap test, with the batch of the previous round. *)
IndexerRewind(idx, batch) == IF idx > USub(Count, batch) THEN 0 ELSE idx

(* The wrap test and the spin in check_avail_cnts until a request is there. *)
IndexerCheckAvail ==
  /\ ix_pc = "check"
  /\ avail_cnt - handled_req_cnt > 0
  /\ read_idx' = IndexerRewind(read_idx, ix_batch)
  /\ ix_batch' = DynBatch(avail_cnt - handled_req_cnt)
  /\ handled_req_cnt' = handled_req_cnt + DynBatch(avail_cnt - handled_req_cnt)
  /\ ix_i' = 0
  /\ ix_pc' = "prepare"
  /\ UNCHANGED <<cown_ptrs, rpcVars, ring_idx_pref, pfVars, ring_pref_disp, spVars>>

(* Mutant: the last entry of a batch is left out. *)
IndexerPrepareTooFew ==
  /\ ix_pc = "prepare"
  /\ cown_ptrs' = IF ix_i + 1 < ix_batch THEN cown_ptrs \cup {read_idx} ELSE cown_ptrs
  /\ read_idx' = read_idx + 1
  /\ ix_i' = ix_i + 1
  /\ ix_pc' = IF ix_i + 1 < ix_batch THEN "prepare" ELSE "push"
  /\ UNCHANGED <<ix_batch, handled_req_cnt, rpcVars, ring_idx_pref, pfVars,
                 ring_pref_disp, spVars>>

(* One prepare_cowns: the entry's cown_ptrs are filled in place. *)
IndexerPrepareCowns ==
  /\ ix_pc = "prepare"
  /\ cown_ptrs' = cown_ptrs \cup {read_idx}
  /\ read_idx' = read_idx + 1
  /\ ix_i' = ix_i + 1
  /\ ix_pc' = IF ix_i + 1 < ix_batch THEN "prepare" ELSE "push"
  /\ UNCHANGED <<ix_batch, handled_req_cnt, rpcVars, ring_idx_pref, pfVars,
                 ring_pref_disp, spVars>>

(* SPSCQueue::push spins while the ring is full. *)
IndexerPush ==
  /\ ix_pc = "push"
  /\ Len(ring_idx_pref) < ChannelSizeIdxPref
  /\ ring_idx_pref' = Append(ring_idx_pref, [sz |-> ix_batch, end |-> handled_req_cnt])
  /\ ix_pc' = "check"
  /\ UNCHANGED <<ix_batch, ix_i, read_idx, handled_req_cnt, cown_ptrs, rpcVars,
                 pfVars, ring_pref_disp, spVars>>

-----------------------------------------------------------------------------
(* Mutant: rewind only at the very end of the log. *)
RewindAtEnd(idx) == IF idx >= Count THEN 0 ELSE idx

(* Prefetcher and Spawner rewind alike, by MaxBatch.                       *)
Rewind(idx) == IF idx > USub(Count, MaxBatch) THEN 0 ELSE idx

(* Mutant: the Prefetcher rewinds by the batch at hand. *)
PrefetcherFrontOwnBatch ==
  /\ pf_pc = "front"
  /\ ring_idx_pref # <<>>
  /\ pf_idx' = (IF pf_idx > USub(Count, Head(ring_idx_pref).sz) THEN 0 ELSE pf_idx)
               + Head(ring_idx_pref).sz
  /\ pf_pc' = "push"
  /\ UNCHANGED <<rpcVars, ixVars, ring_idx_pref, ring_pref_disp, spVars>>

(* The wrap test, front() of the ring, and a prefetch_cowns per entry.     *)
PrefetcherFront ==
  /\ pf_pc = "front"
  /\ ring_idx_pref # <<>>
  /\ pf_idx' = Rewind(pf_idx) + Head(ring_idx_pref).sz
  /\ pf_pc' = "push"
  /\ UNCHANGED <<rpcVars, ixVars, ring_idx_pref, ring_pref_disp, spVars>>

(* Mutants: the Prefetcher forwards MAX_BATCH and not the batch it was     *)
(* given; it uses try_push, which drops the batch when the ring is full.   *)
PrefetcherPushMaxBatch ==
  /\ pf_pc = "push"
  /\ Len(ring_pref_disp) < ChannelSize
  /\ ring_pref_disp' = Append(ring_pref_disp,
                              [Head(ring_idx_pref) EXCEPT !.sz = MaxBatch])
  /\ pf_pc' = "pop"
  /\ UNCHANGED <<pf_idx, rpcVars, ixVars, ring_idx_pref, spVars>>

PrefetcherTryPush ==
  /\ pf_pc = "push"
  /\ ring_pref_disp' = IF Len(ring_pref_disp) < ChannelSize
                       THEN Append(ring_pref_disp, Head(ring_idx_pref))
                       ELSE ring_pref_disp
  /\ pf_pc' = "pop"
  /\ UNCHANGED <<pf_idx, rpcVars, ixVars, ring_idx_pref, spVars>>

(* SPSCQueue::push spins while the ring is full; the batch stays at the    *)
(* front of the other ring until it is pushed.                             *)
PrefetcherPush ==
  /\ pf_pc = "push"
  /\ Len(ring_pref_disp) < ChannelSize
  /\ ring_pref_disp' = Append(ring_pref_disp, Head(ring_idx_pref))
  /\ pf_pc' = "pop"
  /\ UNCHANGED <<pf_idx, rpcVars, ixVars, ring_idx_pref, spVars>>

PrefetcherPop ==
  /\ pf_pc = "pop"
  /\ ring_idx_pref' = Tail(ring_idx_pref)
  /\ pf_pc' = "front"
  /\ UNCHANGED <<pf_idx, rpcVars, ixVars, ring_pref_disp, spVars>>

-----------------------------------------------------------------------------
(* Spawner.  Once txn_log_id exceeds RPC_LOG_SIZE it leaves its loop.      *)
SpawnerFront ==
  /\ sp_pc = "front" /\ txn_log_id <= RpcLogSize
  /\ ring_pref_disp # <<>>
  /\ sp_idx' = Rewind(sp_idx)
  /\ sp_i' = 0
  /\ sp_pc' = "dispatch"
  /\ UNCHANGED <<txn_log_id, rpcVars, ixVars, ring_idx_pref, pfVars, ring_pref_disp>>

(* dispatch_one: read init_time at txn_log_id, then parse_and_process the  *)
(* entry under the cursor, which spawns its behaviour on its cown_ptrs.    *)
SpawnerDispatchOne ==
  /\ sp_pc = "dispatch"
  /\ txn_log_id' = txn_log_id + 1
  /\ sp_idx' = sp_idx + 1
  /\ sp_i' = sp_i + 1
  /\ sp_pc' = IF sp_i + 1 < Head(ring_pref_disp).sz THEN "dispatch" ELSE "pop"
  /\ UNCHANGED <<rpcVars, ixVars, ring_idx_pref, pfVars, ring_pref_disp>>

SpawnerPop ==
  /\ sp_pc = "pop"
  /\ ring_pref_disp' = Tail(ring_pref_disp)
  /\ sp_pc' = "front"
  /\ UNCHANGED <<sp_i, sp_idx, txn_log_id, rpcVars, ixVars, ring_idx_pref, pfVars>>

-----------------------------------------------------------------------------
(* RPCHandler is done and everything that arrived is dispatched: Indexer,  *)
(* Prefetcher and Spawner spin.  No other state may be without a step.     *)
Drained ==
  /\ rpc_pc = "stamp" /\ rpc_i >= RpcLogSize
  /\ ix_pc = "check" /\ avail_cnt = handled_req_cnt
  /\ pf_pc = "front" /\ ring_idx_pref = <<>>
  /\ sp_pc = "front" /\ ring_pref_disp = <<>>

Spin == Drained /\ UNCHANGED vars

RPC        == RPCStamp \/ RPCFetchAdd
Indexer    == IndexerCheckAvail \/ IndexerPrepareCowns \/ IndexerPush
Prefetcher == PrefetcherFront \/ PrefetcherPush \/ PrefetcherPop
Spawner    == SpawnerFront \/ SpawnerDispatchOne \/ SpawnerPop

Next == RPC \/ Indexer \/ Prefetcher \/ Spawner \/ Spin

(* Every stage is a pinned thread that spins on its core and never sleeps. *)
Fairness ==
  /\ WF_vars(RPC) /\ WF_vars(Indexer) /\ WF_vars(Prefetcher) /\ WF_vars(Spawner)

Spec == Init /\ [][Next]_vars
FairSpec == Spec /\ Fairness

-----------------------------------------------------------------------------
(***************************************************************************)
(* Properties.                                                             *)
(***************************************************************************)

(* The types of the threads' locals, of the counter and of the rings; the  *)
(* rings never hold more than their capacity and carry batches of 1 to     *)
(* MAX_BATCH requests.                                                     *)
TypeOK ==
  /\ rpc_pc \in {"stamp", "add"} /\ rpc_i \in Nat /\ log_arr \subseteq Nat
  /\ avail_cnt \in Nat
  /\ ix_pc \in {"check", "prepare", "push"} /\ ix_batch \in 0..(WordMod - 1)
  /\ ix_i \in Nat /\ read_idx \in Nat /\ handled_req_cnt \in Nat
  /\ cown_ptrs \subseteq Nat
  /\ ring_idx_pref \in Seq(Batch) /\ Len(ring_idx_pref) <= ChannelSizeIdxPref
  /\ pf_pc \in {"front", "push", "pop"} /\ pf_idx \in Nat
  /\ ring_pref_disp \in Seq(Batch) /\ Len(ring_pref_disp) <= ChannelSize
  /\ sp_pc \in {"front", "dispatch", "pop"} /\ sp_i \in Nat /\ sp_idx \in Nat
  /\ txn_log_id \in Nat

(* Whenever Spawner::dispatch_one reads the arrival time of request        *)
(* txn_log_id, RPCHandler has stored it: the time travels through log_arr, *)
(* the permission to read it through avail_cnt and two rings.              *)
StampedBeforeDispatch == sp_pc = "dispatch" => txn_log_id \in log_arr

(* When the Spawner has run a batch, it has dispatched exactly the         *)
(* requests the Indexer had taken when it formed the batch: the rings      *)
(* neither lose, repeat nor resize a batch.                                *)
BatchesConserved == sp_pc = "pop" => txn_log_id = Head(ring_pref_disp).end

(* Prefetcher and Spawner only touch entries of the log, because they      *)
(* rewind while a whole MAX_BATCH still fits.  The Indexer, which rewinds  *)
(* by the previous batch, leaves the log by at most MAX_BATCH - 1 entries. *)
EntryInLog ==
  /\ pf_idx <= Count
  /\ sp_pc = "dispatch" => sp_idx < Count
  /\ ix_pc = "prepare" => read_idx < Count + MaxBatch - 1

(* parse_and_process finds the cown_ptrs of its entry filled in, although  *)
(* Indexer and Spawner rewind their cursors at different places.  It is so *)
(* for the first two laps' worth of requests.                              *)
PreparedBeforeDispatch ==
  sp_pc = "dispatch" /\ txn_log_id < 2 * (Count - MaxBatch + 1)
    => sp_idx \in cown_ptrs

(* Which entries the log's end leaves out depends on where the batches     *)
(* fell.  Prefetcher and Spawner decide it apart from each other, at       *)
(* different times, and decide alike in every lap: whenever the Spawner    *)
(* has dispatched all that the Prefetcher has pushed, their cursors meet.  *)
CursorsMeet ==
  sp_pc = "front" /\ ring_pref_disp = <<>> /\ pf_pc # "push" => sp_idx = pf_idx

(* Back-pressure: the Indexer is never further ahead of the Spawner than   *)
(* the two rings and one batch of its own allow.                           *)
BackPressure ==
  handled_req_cnt - txn_log_id
    <= MaxBatch * (ChannelSizeIdxPref + ChannelSize + 1)

(* All RPC_LOG_SIZE requests that RPCHandler sends are eventually          *)
(* dispatched: the stages that spin on full and on empty rings never wait  *)
(* in a circle, and no request is lost.                                    *)
EveryRequestDispatched == <>(txn_log_id = RpcLogSize)

(* app/tpcc.cc: "Indexer: read db and in-place update cown_ptr": what      *)
(* parse_and_process dereferences has been updated by the Indexer.         *)
AlwaysPrepared == sp_pc = "dispatch" => sp_idx \in cown_ptrs

(* dispatcher.hpp, on the batch of the Indexer's rewind test:              *)
(* "// = MAX_BATCH", with which a whole batch fits before the log's end:   *)
(* every entry that prepare_cowns updates is an entry of the log.          *)
IndexerInLog == ix_pc = "prepare" => read_idx < Count

=============================================================================
