----------------------------- MODULE ChainProofs -----------------------------
(***************************************************************************)
(* The blockchain application on the whole system, for logs, batches,      *)
(* rings, tables and numbers of workers of any size.  Every step of Chain  *)
(* is a step of the pipeline or leaves it alone, and a step of the runtime *)
(* or leaves it alone, so that what PipelineProofs and RuntimeProofs prove *)
(* of the two holds of their composition.  What Chain adds is proved on    *)
(* top: the addresses that travel from the Indexer to the runtime through  *)
(* the entries of the log are those of the rows that the entries name.     *)
(***************************************************************************)
EXTENDS Chain, SumTheorems

PP == INSTANCE PipelineProofs
RP == INSTANCE RuntimeProofs WITH Cowns <- Addresses, NumTxns <- RpcLogSize,
                                  Whens <- SUBSET Addresses

Entries == 0..(Count - 1)

(* The addresses that the params of an entry stand for. *)
AddrsOf(type, entry) == {RowAddr(type, row) : row \in RowsOf(type, entry)}

(* What the Indexer has filled in is what the entry names. *)
PtrsInv ==
  /\ T \in TxnTypes
  /\ DOMAIN ptrs = Entries
  /\ cown_ptrs \subseteq Entries
  /\ \A e \in cown_ptrs : \A i \in 1..NumPtrs(T, Log[T][e]) :
       ptrs[e][i] = RowAddr(T, RowOf(T, Log[T][e], i))

(* The behaviours are those of entries that have been dispatched, and each *)
(* dispatch has made a behaviour or been skipped.                          *)
EntryInv ==
  /\ spawned \in Nat /\ spawned <= RpcLogSize
  /\ DOMAIN cownsOf = 1..RpcLogSize
  /\ DOMAIN entryOf = 1..RpcLogSize
  /\ \A b \in 1..spawned :
       entryOf[b] \in Entries /\ cownsOf[b] = AddrsOf(T, Log[T][entryOf[b]])
  /\ skipped \in Seq(Entries)
  /\ spawned + Len(skipped) = txn_log_id

ChainIInv == PtrsInv /\ EntryInv

(* What the invariant takes from the pipeline: both cursors stay in the    *)
(* log, the Spawner dispatches what the Indexer has prepared, and no more  *)
(* than the requests there are.                                            *)
FromPipeline ==
  /\ txn_log_id \in Nat /\ read_idx \in Nat /\ sp_idx \in Nat
  /\ ix_pc = "prepare" => read_idx \in Entries
  /\ sp_pc = "dispatch" => sp_idx \in Entries /\ sp_idx \in cown_ptrs
  /\ sp_pc = "dispatch" => txn_log_id < RpcLogSize

-----------------------------------------------------------------------------
(* The constants of Chain are constants of Pipeline and of Runtime. *)
LEMMA PipelineAssumptionHolds == PP!PipelineAssumption
BY ChainAssumption

LEMMA RuntimeAssumptionHolds == RP!RuntimeAssumption
BY ChainAssumption

(* The pipeline does not notice what the runtime does: the Spawner's       *)
(* thread only waits for its exchanges.                                    *)
LEMMA ImplementsPipeline == Spec => PP!Spec
<1>1. Init => PP!Init
  BY DEF Init, P!Init, PP!Init
<1>2. [Next]_vars => [PP!Next]_(PP!vars)
  <2> SUFFICES ASSUME [Next]_vars PROVE PP!Next \/ UNCHANGED PP!vars
    OBVIOUS
  <2> USE DEF PP!vars, PP!rpcVars, PP!ixVars, PP!pfVars, PP!spVars,
              P!rpcVars, P!ixVars, P!pfVars, P!spVars
  <2>1. CASE UNCHANGED pipelineVars
    BY <2>1 DEF pipelineVars
  <2>2. CASE Rpc
    <3>1. PP!RPC
      BY <2>2 DEF Rpc, P!RPC, P!RPCStamp, P!RPCFetchAdd,
                  PP!RPC, PP!RPCStamp, PP!RPCFetchAdd
    <3> QED
      BY <3>1 DEF PP!Next
  <2>3. CASE Index
    <3>1. P!IndexerPrepareCowns \/ P!IndexerCheckAvail \/ P!IndexerPush
      BY <2>3 DEF Index
    <3>2. CASE P!IndexerPrepareCowns
      BY <3>2 DEF P!IndexerPrepareCowns, PP!IndexerPrepareCowns, PP!Indexer, PP!Next
    <3>3. CASE P!IndexerCheckAvail
      BY <3>3 DEF P!IndexerCheckAvail, PP!IndexerCheckAvail, PP!Indexer, PP!Next,
                  P!DynBatch, PP!DynBatch, P!IndexerRewind, PP!IndexerRewind,
                  P!USub, PP!USub
    <3>4. CASE P!IndexerPush
      BY <3>4 DEF P!IndexerPush, PP!IndexerPush, PP!Indexer, PP!Next
    <3> QED
      BY <3>1, <3>2, <3>3, <3>4
  <2>4. CASE Prefetch
    <3>1. PP!Prefetcher
      BY <2>4 DEF Prefetch, P!Prefetcher, P!PrefetcherFront, P!PrefetcherPush,
                  P!PrefetcherPop, PP!Prefetcher, PP!PrefetcherFront,
                  PP!PrefetcherPush, PP!PrefetcherPop, P!Rewind, PP!Rewind,
                  P!USub, PP!USub
    <3> QED
      BY <3>1 DEF PP!Next
  <2>5. CASE Dispatch
    <3>1. PP!SpawnerDispatchOne
      BY <2>5 DEF Dispatch, P!SpawnerDispatchOne, PP!SpawnerDispatchOne
    <3> QED
      BY <3>1 DEF PP!Next, PP!Spawner
  <2>6. ASSUME NEW c \in Addresses, Exchange(c) PROVE UNCHANGED pipelineVars
    BY <2>6 DEF Exchange
  <2>7. CASE SpawnerRing
    <3>1. PP!SpawnerFront \/ PP!SpawnerPop
      BY <2>7 DEF SpawnerRing, P!SpawnerFront, PP!SpawnerFront, P!SpawnerPop,
                  PP!SpawnerPop, P!Rewind, PP!Rewind, P!USub, PP!USub
    <3> QED
      BY <3>1 DEF PP!Next, PP!Spawner
  <2>8. ASSUME NEW w \in Workers, Worker(w) PROVE UNCHANGED pipelineVars
    BY <2>8 DEF Worker, Enter, Leave
  <2>9. CASE Done \/ UNCHANGED vars
    BY <2>1, <2>9 DEF Done, vars
  <2> QED
    BY <2>1, <2>2, <2>3, <2>4, <2>5, <2>6, <2>7, <2>8, <2>9 DEF Next, Spawner
<1> QED
  BY <1>1, <1>2, PTL DEF Spec, PP!Spec

(* What Chain needs of the pipeline. *)
LEMMA PipelineFacts == Spec => []FromPipeline
<1>1. PP!IInv /\ PP!StampedBeforeDispatch /\ PP!EntryInLog /\ PP!IndexerInLogOnce
        /\ PP!PreparedBeforeDispatch => FromPipeline
  <2> SUFFICES ASSUME PP!IInv, PP!StampedBeforeDispatch, PP!EntryInLog,
                      PP!IndexerInLogOnce, PP!PreparedBeforeDispatch
               PROVE  FromPipeline
    OBVIOUS
  <2>1. /\ txn_log_id \in Nat /\ read_idx \in Nat /\ sp_idx \in Nat
        /\ handled_req_cnt \in Nat /\ avail_cnt \in Nat /\ rpc_i \in Nat
    BY DEF PP!IInv, PP!TypeOK
  <2>2. /\ avail_cnt <= rpc_i /\ rpc_i <= RpcLogSize /\ handled_req_cnt <= avail_cnt
        /\ log_arr = 0..(rpc_i - 1)
    BY <2>1 DEF PP!IInv, PP!RpcInv
  <2>3. handled_req_cnt <= Count
    BY <2>1, <2>2, ChainAssumption
  <2>4. ix_pc = "prepare" => read_idx \in Entries
    BY <2>1, <2>3, ChainAssumption DEF PP!IndexerInLogOnce, Entries
  <2>5. sp_pc = "dispatch" => txn_log_id < RpcLogSize
    BY <2>1, <2>2, ChainAssumption DEF PP!StampedBeforeDispatch
  <2>6. sp_pc = "dispatch" => sp_idx \in Entries /\ sp_idx \in cown_ptrs
    BY <2>1, <2>5, ChainAssumption DEF PP!EntryInLog, Entries, PP!PreparedBeforeDispatch
  <2> QED
    BY <2>1, <2>4, <2>5, <2>6 DEF FromPipeline
<1> QED
  BY <1>1, ImplementsPipeline, PipelineAssumptionHolds, PP!Invariance,
     PP!StampedBeforeDispatchHolds, PP!EntryInLogHolds, PP!IndexerInLogOnceHolds,
     PP!PreparedBeforeDispatchHolds, PTL

-----------------------------------------------------------------------------
(* The rows that an entry names are in the tables: resources before users, *)
(* and users only where the type has accounts among its cowns.             *)
LEMMA RowsInTables ==
  ASSUME NEW type \in TxnTypes, NEW e \in Entries, NEW row \in RowsOf(type, Log[type][e])
  PROVE  /\ row.key \in Nat
         /\ row = [table |-> row.table, key |-> row.key]
         /\ \/ row.table = "resource" /\ row.key < NumResrcOf(type)
            \/ row.table = "user" /\ row.key < NumAccounts
         /\ NumResrcOf(type) \in 0..NumResrc
<1> DEFINE entry == Log[type][e]
<1>1. PICK i \in 1..NumPtrs(type, entry) : row = RowOf(type, entry, i)
  BY DEF RowsOf
<1>2. entry.params[i] \in 1..(IF i <= NumResrcCownOf(type)
                              THEN NumResrcOf(type) ELSE NumAccounts)
  BY ChainAssumption DEF Entries
<1>3. NumResrcOf(type) \in 0..NumResrc
  BY ChainAssumption DEF NumResrcOf
<1>4. /\ row.key = entry.params[i] - 1
      /\ row.table = IF i <= NumResrcCownOf(type) THEN "resource" ELSE "user"
      /\ row = [table |-> row.table, key |-> row.key]
  BY <1>1 DEF RowOf
<1>5. NumAccounts \in Nat
  BY ChainAssumption
<1> HIDE DEF entry
<1> QED
  BY <1>2, <1>3, <1>4, <1>5

(* A row's address is one of the allocation's, and no other row's. *)
LEMMA RowAddrInjective ==
  ASSUME NEW type \in TxnTypes, NEW e \in Entries, NEW f \in Entries,
         NEW r \in RowsOf(type, Log[type][e]), NEW s \in RowsOf(type, Log[type][f])
  PROVE  /\ RowAddr(type, r) \in Addresses
         /\ RowAddr(type, r) = RowAddr(type, s) => r = s
<1>1. /\ r.key \in Nat /\ s.key \in Nat /\ NumResrcOf(type) \in 0..NumResrc
      /\ r = [table |-> r.table, key |-> r.key]
      /\ s = [table |-> s.table, key |-> s.key]
      /\ \/ r.table = "resource" /\ r.key < NumResrcOf(type)
         \/ r.table = "user" /\ r.key < NumAccounts
      /\ \/ s.table = "resource" /\ s.key < NumResrcOf(type)
         \/ s.table = "user" /\ s.key < NumAccounts
  BY RowsInTables
<1>2. Base \in Nat /\ NumResrc \in Nat /\ NumAccounts \in Nat
  BY ChainAssumption
<1>3. RowAddr(type, r) \in Addresses
  <2> DEFINE k == IF r.table = "resource" THEN r.key ELSE NumResrcOf(type) + r.key
  <2>1. k \in 0..(NumResrc + NumAccounts - 1)
    BY <1>1, <1>2
  <2>2. RowAddr(type, r) = Base + 1024 * k
    BY <1>1, <1>2 DEF RowAddr
  <2> QED
    BY <2>1, <2>2 DEF Addresses
<1>4. RowAddr(type, r) = RowAddr(type, s) => r.key = s.key /\ r.table = s.table
  BY <1>1, <1>2 DEF RowAddr
<1> QED
  BY <1>1, <1>3, <1>4

(* A when of the cowns that prepare_cowns has put into the entry takes the *)
(* rows of the entry.                                                      *)
LEMMA TakesItsRows ==
  ASSUME PtrsInv, NEW e \in cown_ptrs
  PROVE  /\ {ptrs[e][i] : i \in CownsToTake(T, Log[T][e])} = AddrsOf(T, Log[T][e])
         /\ AddrsOf(T, Log[T][e]) \subseteq Addresses
<1> DEFINE entry == Log[T][e]
<1>1. T \in TxnTypes /\ e \in Entries
  BY DEF PtrsInv
<1>2. \A i \in 1..NumPtrs(T, entry) : ptrs[e][i] = RowAddr(T, RowOf(T, entry, i))
  BY DEF PtrsInv
<1>3. {ptrs[e][i] : i \in CownsToTake(T, entry)} = AddrsOf(T, entry)
  BY <1>2 DEF AddrsOf, RowsOf, CownsToTake
<1>4. AddrsOf(T, entry) \subseteq Addresses
  BY <1>1, RowAddrInjective DEF AddrsOf
<1> QED
  BY <1>3, <1>4

-----------------------------------------------------------------------------
LEMMA InitChainIInv == Init => ChainIInv
BY ChainAssumption DEF Init, ChainIInv, PtrsInv, EntryInv, Entries, P!Init, R!RtInit, R!Txns

(* prepare_cowns fills the entry under the Indexer's cursor, and no other. *)
LEMMA IndexStep == ChainIInv /\ FromPipeline /\ Index => ChainIInv'
<1> SUFFICES ASSUME ChainIInv, FromPipeline, Index PROVE ChainIInv'
  OBVIOUS
<1>1. UNCHANGED <<runtimeVars, T, entryOf, skipped, txn_log_id>>
  BY DEF Index, P!IndexerPrepareCowns, P!IndexerCheckAvail, P!IndexerPush, P!spVars
<1>2. EntryInv'
  BY <1>1 DEF ChainIInv, EntryInv, runtimeVars
<1>3. CASE UNCHANGED <<ptrs, cown_ptrs>>
  BY <1>1, <1>2, <1>3 DEF ChainIInv, PtrsInv
<1>4. CASE P!IndexerPrepareCowns
           /\ ptrs' = [ptrs EXCEPT ![read_idx] = PreparedPtrs(T, Log[T][read_idx], @)]
  <2>1. read_idx \in Entries /\ cown_ptrs' = cown_ptrs \cup {read_idx}
    BY <1>4 DEF FromPipeline, P!IndexerPrepareCowns
  <2>2. DOMAIN ptrs' = Entries /\ cown_ptrs' \subseteq Entries /\ T' = T /\ T \in TxnTypes
    BY <1>1, <1>4, <2>1 DEF ChainIInv, PtrsInv
  <2>3. ASSUME NEW e \in cown_ptrs', NEW i \in 1..NumPtrs(T, Log[T][e])
        PROVE  ptrs'[e][i] = RowAddr(T, RowOf(T, Log[T][e], i))
    <3>1. CASE e # read_idx
      BY <1>4, <2>1, <2>3, <3>1 DEF ChainIInv, PtrsInv
    <3>2. CASE e = read_idx
      <4>1. i \in 1..NumCownOf(T)
        <5>1. /\ Log[T][e].num_writes \in 0..MaxWrites /\ MaxWrites \in Nat
              /\ T \in {"Mixed", "Nft", "P2p", "Dex"}
          BY <2>1, <2>2, <3>2, ChainAssumption DEF Entries
        <5> QED
          BY <2>3, <5>1 DEF NumPtrs, NumCownOf
      <4>2. ptrs'[e] = PreparedPtrs(T, Log[T][e], ptrs[e])
        BY <1>4, <2>1, <3>2 DEF ChainIInv, PtrsInv
      <4> QED
        BY <2>3, <4>1, <4>2 DEF PreparedPtrs
    <3> QED
      BY <3>1, <3>2
  <2>4. PtrsInv'
    BY <2>2, <2>3 DEF PtrsInv
  <2> QED
    BY <1>2, <2>4 DEF ChainIInv
<1> QED
  BY <1>3, <1>4 DEF Index, P!IndexerCheckAvail, P!IndexerPush

(* dispatch_one makes a when of the rows of its entry, or none. *)
LEMMA DispatchStep ==
  ChainIInv /\ FromPipeline /\ Dispatch
    => /\ ChainIInv'
       /\ (\E cs \in SUBSET Addresses : RP!Spawn(cs)) \/ UNCHANGED RP!rtVars
<1> SUFFICES ASSUME ChainIInv, FromPipeline, Dispatch
             PROVE  /\ ChainIInv'
                    /\ \/ \E cs \in SUBSET Addresses : RP!Spawn(cs)
                       \/ UNCHANGED RP!rtVars
  OBVIOUS
<1> DEFINE entry == Log[T][sp_idx]
           cs == {ptrs[sp_idx][i] : i \in CownsToTake(T, entry)}
<1>1. /\ sp_pc = "dispatch" /\ txn_log_id' = txn_log_id + 1
      /\ UNCHANGED <<T, ptrs, cown_ptrs>>
  BY DEF Dispatch, P!SpawnerDispatchOne, P!ixVars
<1>2. /\ sp_idx \in Entries /\ sp_idx \in cown_ptrs
      /\ txn_log_id \in Nat /\ txn_log_id < RpcLogSize
  BY <1>1 DEF FromPipeline
<1>3. PtrsInv'
  BY <1>1 DEF ChainIInv, PtrsInv
<1>4. cs = AddrsOf(T, entry) /\ AddrsOf(T, entry) \subseteq Addresses
  BY <1>2, TakesItsRows DEF ChainIInv
<1>5. /\ spawned \in Nat /\ spawned <= RpcLogSize /\ Len(skipped) \in Nat
      /\ spawned + Len(skipped) = txn_log_id /\ RpcLogSize \in Nat
      /\ skipped \in Seq(Entries)
  BY ChainAssumption DEF ChainIInv, EntryInv
<1>6. CASE R!Spawn(cs) /\ entryOf' = [entryOf EXCEPT ![spawned + 1] = sp_idx]
             /\ skipped' = skipped
  <2>1. /\ spawned' = spawned + 1 /\ cownsOf' = [cownsOf EXCEPT ![spawned + 1] = cs]
        /\ spawned < RpcLogSize
    BY <1>6 DEF R!Spawn
  <2>2. \A b \in 1..spawned' :
          entryOf'[b] \in Entries /\ cownsOf'[b] = AddrsOf(T, Log[T][entryOf'[b]])
    <3> SUFFICES ASSUME NEW b \in 1..spawned'
                 PROVE  entryOf'[b] \in Entries /\ cownsOf'[b] = AddrsOf(T, Log[T][entryOf'[b]])
      OBVIOUS
    <3> HIDE DEF cs
    <3>1. CASE b = spawned + 1
      <4>1. entryOf'[b] = sp_idx /\ cownsOf'[b] = cs
        BY <1>5, <1>6, <2>1, <3>1 DEF ChainIInv, EntryInv
      <4> QED
        BY <1>2, <1>4, <4>1
    <3>2. CASE b # spawned + 1
      <4>1. b \in 1..spawned /\ entryOf'[b] = entryOf[b] /\ cownsOf'[b] = cownsOf[b]
        BY <1>5, <1>6, <2>1, <3>2 DEF ChainIInv, EntryInv
      <4> QED
        BY <4>1 DEF ChainIInv, EntryInv
    <3> QED
      BY <3>1, <3>2
  <2>3. /\ DOMAIN cownsOf' = 1..RpcLogSize /\ DOMAIN entryOf' = 1..RpcLogSize
        /\ spawned' \in Nat /\ spawned' <= RpcLogSize
        /\ skipped' \in Seq(Entries) /\ spawned' + Len(skipped') = txn_log_id'
    BY <1>1, <1>5, <1>6, <2>1 DEF ChainIInv, EntryInv
  <2>4. EntryInv'
    BY <1>1, <2>2, <2>3 DEF EntryInv
  <2>5. RP!Spawn(cs)
    BY <1>6 DEF R!Spawn, RP!Spawn
  <2> QED
    BY <1>3, <1>4, <2>4, <2>5 DEF ChainIInv
<1>7. CASE skipped' = Append(skipped, sp_idx) /\ UNCHANGED <<runtimeVars, entryOf>>
  <2>1. skipped' \in Seq(Entries) /\ Len(skipped') = Len(skipped) + 1
    BY <1>2, <1>5, <1>7
  <2>2. EntryInv'
    BY <1>1, <1>5, <1>7, <2>1 DEF ChainIInv, EntryInv, runtimeVars
  <2>3. UNCHANGED RP!rtVars
    BY <1>7 DEF runtimeVars, RP!rtVars
  <2> QED
    BY <1>3, <2>2, <2>3 DEF ChainIInv
<1> QED
  BY <1>6, <1>7 DEF Dispatch

(* The other steps leave entries, pointers and the cowns of behaviours. *)
LEMMA OtherSteps ==
  ASSUME ChainIInv, Next, ~Index, ~Dispatch
  PROVE  ChainIInv'
<1> DEFINE Same == /\ UNCHANGED <<T, ptrs, cown_ptrs, spawned, cownsOf, entryOf>>
                   /\ UNCHANGED <<skipped, txn_log_id>>
<1>1. Same
  <2> USE DEF chainVars, runtimeVars, pipelineVars
  <2>1. CASE Rpc
    BY <2>1 DEF Rpc, P!RPC, P!RPCStamp, P!RPCFetchAdd, P!ixVars, P!spVars
  <2>2. CASE Prefetch
    BY <2>2 DEF Prefetch, P!Prefetcher, P!PrefetcherFront, P!PrefetcherPush,
                P!PrefetcherPop, P!ixVars, P!spVars
  <2>3. ASSUME NEW c \in Addresses, Exchange(c) PROVE Same
    BY <2>3 DEF Exchange, R!Exchange
  <2>4. CASE SpawnerRing
    BY <2>4 DEF SpawnerRing, P!SpawnerFront, P!SpawnerPop, P!ixVars, P!spVars
  <2>5. ASSUME NEW w \in Workers, Worker(w) PROVE Same
    BY <2>5 DEF Worker, Enter, Leave, R!Start, R!Finish
  <2>6. CASE Done
    BY <2>6 DEF Done, vars
  <2> QED
    BY <2>1, <2>2, <2>3, <2>4, <2>5, <2>6 DEF Next, Spawner
<1> QED
  BY <1>1 DEF ChainIInv, PtrsInv, EntryInv

(* The inductive invariant of the composition, on top of the pipeline's. *)
THEOREM ChainInvariance == Spec => []ChainIInv
<1>1. ChainIInv /\ FromPipeline /\ [Next]_vars => ChainIInv'
  <2> SUFFICES ASSUME ChainIInv, FromPipeline, [Next]_vars PROVE ChainIInv'
    OBVIOUS
  <2>1. CASE Index
    BY <2>1, IndexStep
  <2>2. CASE Dispatch
    BY <2>2, DispatchStep
  <2>3. CASE Next /\ ~Index /\ ~Dispatch
    BY <2>3, OtherSteps
  <2>4. CASE UNCHANGED vars
    BY <2>4 DEF vars, pipelineVars, runtimeVars, chainVars, ChainIInv, PtrsInv, EntryInv
  <2> QED
    BY <2>1, <2>2, <2>3, <2>4
<1> QED
  BY <1>1, InitChainIInv, PipelineFacts, PTL DEF Spec

(* The runtime does not notice the pipeline: what dispatch_one spawns is a *)
(* when of the runtime's cowns.                                            *)
LEMMA ImplementsRuntime == Spec => RP!RtSpec
<1>1. Init => RP!RtInit
  BY DEF Init, R!RtInit, RP!RtInit, R!Txns, RP!Txns
<1>2. ChainIInv /\ FromPipeline /\ [Next]_vars => [RP!RtNext]_(RP!rtVars)
  <2> SUFFICES ASSUME ChainIInv, FromPipeline, [Next]_vars
               PROVE  RP!RtNext \/ UNCHANGED RP!rtVars
    OBVIOUS
  <2>1. CASE UNCHANGED runtimeVars
    BY <2>1 DEF runtimeVars, RP!rtVars
  <2>2. CASE Rpc \/ Index \/ Prefetch \/ SpawnerRing
    BY <2>1, <2>2 DEF Rpc, Index, Prefetch, SpawnerRing
  <2>3. CASE Dispatch
    BY <2>3, DispatchStep DEF RP!RtNext, RP!RtSpawner
  <2>4. ASSUME NEW c \in Addresses, Exchange(c) PROVE RP!RtNext
    <3>1. RP!Exchange(c)
      BY <2>4 DEF Exchange, R!Exchange, RP!Exchange
    <3> QED
      BY <3>1 DEF RP!RtNext, RP!RtSpawner
  <2>5. ASSUME NEW w \in Workers, NEW b \in 1..RpcLogSize, Enter(w, b) PROVE RP!RtNext
    <3>1. RP!Start(w, b)
      BY <2>5 DEF Enter, R!Start, RP!Start, R!Ready, RP!Ready
    <3> QED
      BY <3>1 DEF RP!RtNext, RP!RtWorker, RP!Txns
  <2>6. ASSUME NEW w \in Workers, Leave(w) PROVE RP!RtNext
    <3>1. RP!Finish(w)
      BY <2>6 DEF Leave, R!Finish, RP!Finish
    <3> QED
      BY <3>1 DEF RP!RtNext, RP!RtWorker
  <2>7. CASE Done \/ UNCHANGED vars
    BY <2>1, <2>7 DEF Done, vars
  <2> QED
    BY <2>2, <2>3, <2>4, <2>5, <2>6, <2>7 DEF Next, Spawner, Worker
<1> QED
  BY <1>1, <1>2, ChainInvariance, PipelineFacts, PTL DEF Spec, RP!RtSpec

-----------------------------------------------------------------------------
(* parse_and_process spawns on the rows that the params of its entry name, *)
(* through pointers that another thread has stored in the entry.           *)
THEOREM NamesItsRowsHolds == Spec => []NamesItsRows
<1>1. ChainIInv => NamesItsRows
  BY DEF ChainIInv, EntryInv, NamesItsRows, AddrsOf, Rows
<1> QED
  BY <1>1, ChainInvariance, PTL

(* No two rows of the tables have their cown at one address, so that       *)
(* requests only wait for requests whose entries share a row.              *)
THEOREM ConflictsAreRowsHolds == Spec => []ConflictsAreRows
<1>1. ChainIInv => ConflictsAreRows
  <2> SUFFICES ASSUME ChainIInv, NEW i \in 1..spawned, NEW j \in 1..spawned,
                      R!Conflict(i, j)
               PROVE  Rows(i) \cap Rows(j) # {}
    BY DEF ConflictsAreRows
  <2>1. PICK a : a \in cownsOf[i] /\ a \in cownsOf[j]
    BY DEF R!Conflict
  <2>2. /\ T \in TxnTypes /\ entryOf[i] \in Entries /\ entryOf[j] \in Entries
        /\ cownsOf[i] = AddrsOf(T, Log[T][entryOf[i]])
        /\ cownsOf[j] = AddrsOf(T, Log[T][entryOf[j]])
    BY DEF ChainIInv, PtrsInv, EntryInv
  <2>3. PICK r \in Rows(i), s \in Rows(j) : a = RowAddr(T, r) /\ a = RowAddr(T, s)
    BY <2>1, <2>2 DEF AddrsOf, Rows
  <2>4. r = s
    <3>1. /\ r \in RowsOf(T, Log[T][entryOf[i]]) /\ s \in RowsOf(T, Log[T][entryOf[j]])
          /\ RowAddr(T, r) = RowAddr(T, s)
      BY <2>3 DEF Rows
    <3>2. T \in TxnTypes /\ entryOf[i] \in Entries /\ entryOf[j] \in Entries
      BY <2>2
    <3>3. RowAddr(T, r) = RowAddr(T, s) => r = s
      BY ONLY <3>1, <3>2, RowAddrInjective
    <3> QED
      BY <3>1, <3>3
  <2> QED
    BY <2>3, <2>4
<1> QED
  BY <1>1, ChainInvariance, PTL

(* Requests that share a row are executed one after the other, in the      *)
(* order in which the Spawner dispatched them.                             *)
THEOREM RequestOrderHolds == Spec => []RequestOrder
<1>1. ChainIInv /\ RP!SpawnOrder => RequestOrder
  <2> SUFFICES ASSUME ChainIInv, RP!SpawnOrder, NEW i \in 1..spawned, NEW j \in 1..spawned,
                      i < j, Rows(i) \cap Rows(j) # {},
                      j \in finished \/ \E w \in Workers : running[w] = j
               PROVE  i \in finished
    BY DEF RequestOrder
  <2>1. cownsOf[i] = AddrsOf(T, Log[T][entryOf[i]]) /\ cownsOf[j] = AddrsOf(T, Log[T][entryOf[j]])
    BY DEF ChainIInv, EntryInv
  <2>2. PICK r : r \in Rows(i) /\ r \in Rows(j)
    OBVIOUS
  <2>3. RowAddr(T, r) \in cownsOf[i] /\ RowAddr(T, r) \in cownsOf[j]
    BY <2>1, <2>2 DEF AddrsOf, Rows
  <2>4. RP!Conflict(i, j)
    BY <2>3 DEF RP!Conflict
  <2>5. i \in RP!Txns /\ j \in RP!Txns
    BY ChainAssumption DEF ChainIInv, EntryInv, RP!Txns
  <2> QED
    BY <2>4, <2>5 DEF RP!SpawnOrder
<1> QED
  BY <1>1, ChainInvariance, ImplementsRuntime, RuntimeAssumptionHolds,
     RP!SpawnOrderHolds, PTL

-----------------------------------------------------------------------------
(* The counters: a worker counts what it finishes, and the only entries    *)
(* without a when are Mixed ones that write nothing.                       *)
CountInv ==
  /\ tx_cnt \in [Workers -> Nat]
  /\ SumFunctionOnSet(tx_cnt, Workers) = Cardinality(finished)
  /\ \A k \in 1..Len(skipped) : T = "Mixed" /\ Log[T][skipped[k]].num_writes = 0

(* Nothing is counted at first. *)
LEMMA InitCountInv == Init => CountInv
<1> SUFFICES ASSUME Init PROVE CountInv
  OBVIOUS
<1>1. tx_cnt = [w \in Workers |-> 0] /\ finished = {} /\ skipped = <<>>
  BY DEF Init, R!RtInit
<1>2. PICK f : f = tx_cnt
  OBVIOUS
<1>3. SumFunctionOnSet(f, Workers) = 0
  BY <1>1, <1>2, SumZero, ChainAssumption
<1>4. Cardinality(finished) = 0
  BY <1>1, FS_EmptySet
<1> QED
  BY <1>1, <1>2, <1>3, <1>4 DEF CountInv

(* A lambda returns: its behaviour has not finished before. *)
LEMMA LeaveCounts ==
  ASSUME CountInv, RP!RtIInv, NEW w \in Workers, Leave(w)
  PROVE  CountInv'
<1>1. PICK b : b = running[w]
  OBVIOUS
<1>2. /\ tx_cnt' = [tx_cnt EXCEPT ![w] = @ + 1] /\ finished' = finished \cup {b}
      /\ UNCHANGED <<T, skipped>> /\ b # 0
  BY <1>1 DEF Leave, R!Finish
<1>3. b \notin finished
  BY <1>1, <1>2 DEF RP!RtIInv, RP!RunInv
<1>4. IsFiniteSet(finished)
  <2>1. finished \subseteq 1..RpcLogSize
    BY DEF RP!RtIInv, RP!RtTypeOK, RP!Txns
  <2>2. IsFiniteSet(1..RpcLogSize)
    BY ChainAssumption, FS_Interval
  <2> QED
    BY <2>1, <2>2, FS_Subset
<1>5. Cardinality(finished') = Cardinality(finished) + 1
  <2>1. PICK F : F = finished
    OBVIOUS
  <2>2. Cardinality(F \cup {b}) = Cardinality(F) + 1
    BY <1>3, <1>4, <2>1, FS_AddElement
  <2> QED
    BY <1>2, <2>1, <2>2
<1>6. SumFunctionOnSet(tx_cnt', Workers) = SumFunctionOnSet(tx_cnt, Workers) + 1
  <2>1. PICK f, g : f = tx_cnt /\ g = tx_cnt'
    OBVIOUS
  <2>2. /\ f \in [Workers -> Nat] /\ g \in [Workers -> Nat] /\ Workers \in SUBSET Workers
        /\ g[w] = f[w] + 1 /\ \A x \in Workers : x # w => g[x] = f[x]
    BY <1>2, <2>1 DEF CountInv
  <2>3. IsFiniteSet(Workers) /\ w \in Workers
    BY ChainAssumption
  <2>4. SumFunctionOnSet(g, Workers) = SumFunctionOnSet(f, Workers) + 1
    BY ONLY <2>2, <2>3, SumCount
  <2> QED
    BY <2>1, <2>4
<1>7. tx_cnt' \in [Workers -> Nat]
  BY <1>2 DEF CountInv
<1> QED
  BY <1>2, <1>5, <1>6, <1>7 DEF CountInv

(* dispatch_one leaves out what has no case in the switch. *)
LEMMA DispatchCounts ==
  ASSUME CountInv, ChainIInv, FromPipeline, Dispatch
  PROVE  CountInv'
<1>1. UNCHANGED <<T, tx_cnt, finished>> /\ sp_pc = "dispatch"
  BY DEF Dispatch, R!Spawn, runtimeVars, P!SpawnerDispatchOne
<1>2. CASE skipped' = skipped
  BY <1>1, <1>2 DEF CountInv
<1>3. CASE skipped' = Append(skipped, sp_idx) /\ ~HasWhen(T, Log[T][sp_idx])
  <2>1. sp_idx \in Entries /\ T \in TxnTypes /\ skipped \in Seq(Entries)
    BY <1>1 DEF FromPipeline, ChainIInv, PtrsInv, EntryInv
  <2>2. T = "Mixed" /\ Log[T][sp_idx].num_writes = 0
    <3>1. Log[T][sp_idx].num_writes \in 0..MaxWrites
      BY <2>1, ChainAssumption DEF Entries
    <3> QED
      BY <1>3, <3>1, ChainAssumption DEF HasWhen, MixedCases
  <2>3. \A k \in 1..Len(skipped') :
          skipped'[k] = sp_idx \/ (k \in 1..Len(skipped) /\ skipped'[k] = skipped[k])
    BY <1>3, <2>1
  <2> QED
    BY <1>1, <2>2, <2>3 DEF CountInv
<1> QED
  BY <1>2, <1>3 DEF Dispatch

(* No other step counts, finishes or skips. *)
LEMMA OthersCountNothing ==
  ASSUME [Next]_vars, ~Dispatch, \A w \in Workers : ~Leave(w)
  PROVE  UNCHANGED <<T, tx_cnt, finished, skipped>>
<1> USE DEF chainVars, runtimeVars
<1>1. CASE Rpc \/ Prefetch \/ SpawnerRing
  BY <1>1 DEF Rpc, Prefetch, SpawnerRing
<1>2. CASE Index
  BY <1>2 DEF Index
<1>3. ASSUME NEW c \in Addresses, Exchange(c)
      PROVE  UNCHANGED <<T, tx_cnt, finished, skipped>>
  BY <1>3 DEF Exchange, R!Exchange
<1>4. ASSUME NEW w \in Workers, NEW b \in 1..RpcLogSize, Enter(w, b)
      PROVE  UNCHANGED <<T, tx_cnt, finished, skipped>>
  BY <1>4 DEF Enter, R!Start
<1>5. CASE Done \/ UNCHANGED vars
  BY <1>5 DEF Done, vars
<1> QED
  BY <1>1, <1>2, <1>3, <1>4, <1>5 DEF Next, Spawner, Worker

(* The workers' counters add up to what was executed, and in the end that  *)
(* is every request but for the Mixed ones that write nothing.             *)
THEOREM ExecutedAreCountedHolds == Spec => []ExecutedAreCounted
<1>1. CountInv /\ ChainIInv /\ FromPipeline /\ RP!RtIInv /\ [Next]_vars => CountInv'
  <2> SUFFICES ASSUME CountInv, ChainIInv, FromPipeline, RP!RtIInv, [Next]_vars
               PROVE  CountInv'
    OBVIOUS
  <2>1. CASE Dispatch
    BY <2>1, DispatchCounts
  <2>2. CASE \E w \in Workers : Leave(w)
    BY <2>2, LeaveCounts
  <2>3. CASE UNCHANGED <<T, tx_cnt, finished, skipped>>
    BY <2>3 DEF CountInv
  <2> QED
    BY <2>1, <2>2, <2>3, OthersCountNothing
<1>2. CountInv /\ ChainIInv => ExecutedAreCounted
  <2> SUFFICES ASSUME CountInv, ChainIInv, AllExecuted
               PROVE  Cardinality(finished) + Len(skipped) = RpcLogSize
    BY DEF CountInv, ExecutedAreCounted
  <2>1. PICK n \in Nat : n = spawned
    BY DEF ChainIInv, EntryInv
  <2>2. Cardinality(1..n) = n
    BY <2>1, FS_Interval
  <2>3. finished = 1..n
    BY <2>1 DEF AllExecuted
  <2> QED
    BY <2>1, <2>2, <2>3 DEF AllExecuted, ChainIInv, EntryInv
<1> QED
  BY <1>1, <1>2, InitCountInv, ChainInvariance, PipelineFacts, ImplementsRuntime,
     RuntimeAssumptionHolds, RP!RtInvariance, PTL DEF Spec

=============================================================================
