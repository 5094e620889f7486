------------------------------- MODULE Chain --------------------------------
(***************************************************************************)
(* The blockchain application on the whole system: requests arrive, the    *)
(* Indexer looks up the rows that an entry of the log names and stores     *)
(* their addresses in the entry, the Spawner makes a when of the addresses *)
(* it finds there, and the workers run the lambdas, which spin for the     *)
(* transaction's service time.  The module composes Pipeline and Runtime;  *)
(* what they share is the Spawner's thread, and the log's entries.         *)
(*                                                                         *)
(* A row is allocated at an address of its own, and its cown is there.     *)
(***************************************************************************)
EXTENDS Integers, Sequences, FiniteSets, Functions

CONSTANTS
  Count, MaxBatch, ChannelSizeIdxPref, ChannelSize, RpcLogSize, WordMod,
                 \* the pipeline's
  Workers,       \* the scheduler's threads
  Base,          \* what aligned_alloc_hpage returns
  NumResrc,      \* NUM_RESRC of Mixed, Nft and Dex
  NumAccounts,   \* NUM_ACCOUNTS
  MaxWrites,     \* Mixed::NUM_COWN, the last case of the switch
  TxnTypes,      \* the builds: what TxnType may be
  Log            \* per build, the entries 0..Count-1: [params, num_writes]

(* NUM_COWN, NUM_RESRC_COWN and NUM_RESRC of the transaction types. *)
NumCownOf(type) ==
  CASE type = "Mixed" -> MaxWrites [] type = "Nft" -> 2 [] type = "P2p" -> 2
    [] type = "Dex" -> 1

NumResrcCownOf(type) ==
  CASE type = "Mixed" -> MaxWrites [] type = "Nft" -> 1 [] type = "P2p" -> 0
    [] type = "Dex" -> 1

NumResrcOf(type) == IF type = "P2p" THEN 0 ELSE NumResrc

(* The cown_ptrs of an entry that prepare_cowns fills. *)
NumPtrs(type, entry) == IF type = "Mixed" THEN entry.num_writes ELSE NumCownOf(type)

(***************************************************************************)
(* Entries name rows from 1 on, as many as their type has cowns, and none  *)
(* of them twice; the log is long enough for every request to find its     *)
(* entry prepared (Pipeline's PreparedBeforeDispatch), and the Indexer     *)
(* stays within it.                                                        *)
(***************************************************************************)
ASSUME ChainAssumption ==
  /\ Count \in Nat /\ MaxBatch \in Nat \ {0} /\ MaxBatch <= Count
  /\ ChannelSizeIdxPref \in Nat \ {0} /\ ChannelSize \in Nat \ {0}
  /\ WordMod \in Nat /\ Count + MaxBatch < WordMod
  /\ RpcLogSize \in Nat
  /\ RpcLogSize <= Count /\ RpcLogSize <= 2 * (Count - MaxBatch + 1)
  /\ Base \in Nat \ {0} /\ NumResrc \in Nat /\ NumAccounts \in Nat
  /\ MaxWrites \in Nat \ {0} /\ IsFiniteSet(Workers)
  /\ TxnTypes \subseteq {"Mixed", "Nft", "P2p", "Dex"}
  /\ \A type \in TxnTypes, e \in 0..(Count - 1) :
       LET entry == Log[type][e] IN
       /\ entry.num_writes \in 0..MaxWrites
       /\ \A i \in 1..NumPtrs(type, entry) :
            entry.params[i] \in 1..(IF i <= NumResrcCownOf(type)
                                    THEN NumResrcOf(type) ELSE NumAccounts)
       /\ \A i, j \in 1..NumPtrs(type, entry) :
            i # j /\ (i <= NumResrcCownOf(type) <=> j <= NumResrcCownOf(type))
              => entry.params[i] # entry.params[j]

VARIABLES
  rpc_pc, rpc_i, log_arr, avail_cnt, ix_pc, ix_batch, ix_i, read_idx,
  handled_req_cnt, cown_ptrs, ring_idx_pref, pf_pc, pf_idx, ring_pref_disp,
  sp_pc, sp_i, sp_idx, txn_log_id,                        \* the pipeline's
  spawned, cownsOf, joining, queue, running, finished,    \* the runtime's
  T,         \* the build: TxnType
  ptrs,      \* per entry of the log, the contents of its field cown_ptrs
  tx_cnt,    \* per worker, TxCounter's tx_cnt
  entryOf,   \* auxiliary: per behaviour, the entry it executes; -1 before
  skipped    \* auxiliary: the entries whose dispatch made no when, in order

pipelineVars ==
  <<rpc_pc, rpc_i, log_arr, avail_cnt, ix_pc, ix_batch, ix_i, read_idx,
    handled_req_cnt, cown_ptrs, ring_idx_pref, pf_pc, pf_idx, ring_pref_disp,
    sp_pc, sp_i, sp_idx, txn_log_id>>
runtimeVars == <<spawned, cownsOf, joining, queue, running, finished>>
chainVars == <<T, ptrs, tx_cnt, entryOf, skipped>>
vars == <<pipelineVars, runtimeVars, chainVars>>

(* Rows are 1024 bytes apart, in one allocation. *)
Addresses == {Base + 1024 * k : k \in 0..(NumResrc + NumAccounts - 1)}

P == INSTANCE Pipeline
R == INSTANCE Runtime WITH Cowns <- Addresses, NumTxns <- RpcLogSize,
                           Whens <- SUBSET Addresses

-----------------------------------------------------------------------------
(* The tables.  A row is the table it is in and its key, an id less 1.     *)

(* Mutant: the users are put where the resources are. *)
RowAddrOneTable(type, row) == Base + 1024 * row.key

(* Where main and ChainGenerator put a row: the users after the resources. *)
RowAddr(type, row) ==
  IF row.table = "resource" THEN Base + 1024 * row.key
  ELSE Base + 1024 * NumResrcOf(type) + 1024 * row.key

(* The row that the i-th param of an entry names. *)
RowOf(type, entry, i) ==
  [table |-> IF i <= NumResrcCownOf(type) THEN "resource" ELSE "user",
   key |-> entry.params[i] - 1]

RowsOf(type, entry) == {RowOf(type, entry, i) : i \in 1..NumPtrs(type, entry)}

(* Mutant: prepare_cowns leaves out the last param. *)
PreparedPtrsShort(type, entry, old) ==
  [i \in 1..NumCownOf(type) |->
     IF i < NumPtrs(type, entry) THEN RowAddr(type, RowOf(type, entry, i)) ELSE old[i]]

(* prepare_cowns: get_row_addr(params[i] - 1)->get_base_addr(). *)
PreparedPtrs(type, entry, old) ==
  [i \in 1..NumCownOf(type) |->
     IF i <= NumPtrs(type, entry) THEN RowAddr(type, RowOf(type, entry, i)) ELSE old[i]]

-----------------------------------------------------------------------------
Init ==
  /\ P!Init /\ R!RtInit
  /\ T \in TxnTypes
  /\ ptrs = [e \in 0..(Count - 1) |-> [i \in 1..NumCownOf(T) |-> 0]]
  /\ tx_cnt = [w \in Workers |-> 0]
  /\ entryOf = [b \in 1..RpcLogSize |-> -1] /\ skipped = <<>>

(* RPCHandler and Prefetcher, which calls prefetch_cowns, change no entry. *)
Rpc == P!RPC /\ UNCHANGED <<runtimeVars, chainVars>>
Prefetch == P!Prefetcher /\ UNCHANGED <<runtimeVars, chainVars>>

(* The Indexer; prepare_cowns writes into the entry under its cursor. *)
Index ==
  /\ \/ /\ P!IndexerPrepareCowns
        /\ ptrs' = [ptrs EXCEPT ![read_idx] = PreparedPtrs(T, Log[T][read_idx], @)]
     \/ (P!IndexerCheckAvail \/ P!IndexerPush) /\ ptrs' = ptrs
  /\ UNCHANGED <<runtimeVars, T, tx_cnt, entryOf, skipped>>

(* parse_and_process. The switch over num_writes of a Mixed transaction    *)
(* has a case for each number of writes, 1 to 38, that makes a when of as  *)
(* many cowns; any other number of writes makes none. Nft, P2p and Dex     *)
(* have one when, of all their cowns.                                      *)
MixedCases(entry) == entry.num_writes \in 1..MaxWrites

HasWhen(type, entry) == type # "Mixed" \/ MixedCases(entry)

(* Mutant: the case for n writes takes one cown less when there are two. *)
CownsToTakeFewer(type, entry) ==
  1..(IF NumPtrs(type, entry) > 1 THEN NumPtrs(type, entry) - 1 ELSE 1)

CownsToTake(type, entry) == 1..NumPtrs(type, entry)

(* dispatch_one on the entry under the Spawner's cursor.  The when's       *)
(* exchanges are the Spawner's, too: it is here only once they are done.   *)
Dispatch ==
  LET entry == Log[T][sp_idx] IN
  /\ joining = {}
  /\ P!SpawnerDispatchOne
  /\ \/ /\ HasWhen(T, entry)
        /\ R!Spawn({ptrs[sp_idx][i] : i \in CownsToTake(T, entry)})
        /\ entryOf' = [entryOf EXCEPT ![spawned + 1] = sp_idx]
        /\ skipped' = skipped
     \/ /\ ~HasWhen(T, entry)
        /\ skipped' = Append(skipped, sp_idx)
        /\ UNCHANGED <<runtimeVars, entryOf>>
  /\ UNCHANGED <<T, ptrs, tx_cnt>>

Exchange(c) == R!Exchange(c) /\ UNCHANGED <<pipelineVars, chainVars>>

(* front and pop of the Spawner's ring. *)
SpawnerRing ==
  /\ joining = {}
  /\ P!SpawnerFront \/ P!SpawnerPop
  /\ UNCHANGED <<runtimeVars, chainVars>>

(* A worker enters a lambda, and spins for its service time. *)
Enter(w, b) == R!Start(w, b) /\ UNCHANGED <<pipelineVars, chainVars>>

(* Mutant: the transaction is counted when it is first to finish. *)
LeaveCountsFirst(w) ==
  /\ R!Finish(w)
  /\ tx_cnt' = IF finished = {} THEN [tx_cnt EXCEPT ![w] = @ + 1] ELSE tx_cnt
  /\ UNCHANGED <<pipelineVars, T, ptrs, entryOf, skipped>>

(* BODY and SPIN_RUN end in M_LOG_LATENCY, which counts the transaction. *)
Leave(w) ==
  /\ R!Finish(w)
  /\ tx_cnt' = [tx_cnt EXCEPT ![w] = @ + 1]
  /\ UNCHANGED <<pipelineVars, T, ptrs, entryOf, skipped>>

(* The pipeline is drained and all lambdas have returned. *)
AllExecuted ==
  /\ txn_log_id = RpcLogSize /\ P!Drained
  /\ joining = {} /\ finished = 1..spawned

Done == AllExecuted /\ UNCHANGED vars

Spawner == Dispatch \/ (\E c \in Addresses : Exchange(c)) \/ SpawnerRing
Worker(w) == (\E b \in 1..RpcLogSize : Enter(w, b)) \/ Leave(w)

Next == Rpc \/ Index \/ Prefetch \/ Spawner \/ (\E w \in Workers : Worker(w)) \/ Done

Spec == Init /\ [][Next]_vars

(* Four pinned threads that spin, and the scheduler's threads; lambdas     *)
(* return.                                                                 *)
FairSpec ==
  /\ Spec
  /\ WF_vars(Rpc) /\ WF_vars(Index) /\ WF_vars(Prefetch) /\ WF_vars(Spawner)
  /\ \A w \in Workers : WF_vars(Worker(w))

-----------------------------------------------------------------------------
(* The rows of behaviour b's entry. *)
Rows(b) == RowsOf(T, Log[T][entryOf[b]])

(* What the Spawner hands to the runtime is what the log asks for: the     *)
(* cowns of a behaviour are those of the rows that its entry's params      *)
(* name, although another thread has put the addresses into the entry and  *)
(* the two rewind their cursors at different places.                       *)
NamesItsRows ==
  \A b \in 1..spawned : cownsOf[b] = {RowAddr(T, row) : row \in Rows(b)}

(* Two requests wait for each other only if their entries share a row, a   *)
(* resource or a user: no two rows have their cown at the same address.    *)
ConflictsAreRows ==
  \A i, j \in 1..spawned : R!Conflict(i, j) => Rows(i) \cap Rows(j) # {}

(* README: "serializability and determinism": whatever the pipeline and    *)
(* the workers do, a request is not executed before, nor together with, an *)
(* earlier one that shares a row with it.                                  *)
RequestOrder ==
  \A i, j \in 1..spawned :
    /\ i < j /\ Rows(i) \cap Rows(j) # {}
    /\ j \in finished \/ \E w \in Workers : running[w] = j
    => i \in finished

(* The workers' counters add up to the behaviours that have returned: what *)
(* the statistics announce is what was executed.  In the end that is every *)
(* request but for those that make no when, and these are the Mixed ones   *)
(* that write nothing: no request is lost in a hole of the switch.         *)
ExecutedAreCounted ==
  /\ SumFunctionOnSet(tx_cnt, Workers) = Cardinality(finished)
  /\ AllExecuted => Cardinality(finished) + Len(skipped) = RpcLogSize
  /\ \A k \in 1..Len(skipped) : T = "Mixed" /\ Log[T][skipped[k]].num_writes = 0

(* Every request is dispatched, and every lambda that makes one returns.   *)
EveryRequestExecuted == <>AllExecuted

=============================================================================
