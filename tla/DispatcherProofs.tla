-------------------------- MODULE DispatcherProofs --------------------------
(***************************************************************************)
(* The safety of what FileDispatcher::run and the end of build_pipelines   *)
(* do: FileDispatcher for every log, batch size and number of requests,    *)
(* its throughput statistics and the flushing of the latency log for every *)
(* number of workers and transactions.                                     *)
(*                                                                         *)
(* FileDispatcher's properties speak of one step of dispatch_batch; the    *)
(* inductive invariant ties its cursors and counters together across the   *)
(* two loops and the rewind.  Statistics and Shutdown speak of sums over   *)
(* the workers' counters, which change while they are read.                *)
(***************************************************************************)
EXTENDS FileDispatcher, Statistics, Shutdown, SumTheorems

-----------------------------------------------------------------------------
(* FileDispatcher. *)

Requests ==
  /\ recvd_req_cnt <= RpcLogSize
  /\ txn_log_id = IF pc = "dispatch" THEN handled_req_cnt + i ELSE handled_req_cnt
  /\ pc \in {"prepare", "dispatch"} =>
       i < look_ahead /\ handled_req_cnt + look_ahead <= recvd_req_cnt
  /\ handled_req_cnt <= recvd_req_cnt

Cursors ==
  /\ idx = read_head
  /\ pc \in {"top", "done"} => prepare_proc_read_head = read_head /\ read_head <= Count
  /\ pc = "prepare" =>
       prepare_proc_read_head = read_head + i /\ read_head <= Count - MaxBatch
  /\ pc = "dispatch" =>
       /\ prepare_proc_read_head = read_head - i + look_ahead
       /\ read_head - i <= Count - MaxBatch

Filled == \A n \in read_head..(prepare_proc_read_head - 1) : n \in cown_ptrs

FdIInv == FdTypeOK /\ Requests /\ Cursors /\ Filled

-----------------------------------------------------------------------------
(* Nothing is taken, prepared or dispatched at first. *)
LEMMA FdInit == Init => FdIInv
  BY FdAssumption DEF Init, FdIInv, FdTypeOK, Requests, Cursors, Filled

(* A batch is never empty, never larger than MAX_BATCH and has arrived. *)
LEMMA DynBatchFacts ==
  ASSUME FdIInv, Avail > 0
  PROVE  DynBatch \in 1..MaxBatch /\ DynBatch <= recvd_req_cnt - handled_req_cnt
  BY FdAssumption DEF FdIInv, FdTypeOK, Avail, DynBatch

(* A batch begins where all cursors are, or at the start of the log. *)
LEMMA BeginBatchStep == FdIInv /\ BeginBatch => FdIInv'
<1> SUFFICES ASSUME FdIInv, BeginBatch PROVE FdIInv'
  OBVIOUS
<1> USE FdAssumption
<1>1. look_ahead' \in 1..MaxBatch /\ look_ahead' <= recvd_req_cnt - handled_req_cnt
  BY DynBatchFacts DEF BeginBatch
<1>2. FdTypeOK'
  <2>1. (tx_spawn_sum + look_ahead) % WordMod \in 0..(WordMod - 1)
    BY DEF FdIInv, FdTypeOK
  <2> QED
    BY <1>1, <2>1 DEF FdIInv, FdTypeOK, BeginBatch
<1>3. Requests'
  BY <1>1 DEF FdIInv, FdTypeOK, Requests, BeginBatch
<1>4. Cursors'
  BY DEF FdIInv, FdTypeOK, Cursors, BeginBatch
<1>5. Filled'
  BY DEF FdIInv, FdTypeOK, Cursors, Filled, BeginBatch
<1> QED
  BY <1>2, <1>3, <1>4, <1>5 DEF FdIInv

(* Preparing an entry moves only the preparing cursor. *)
LEMMA PrepareCownsStep == FdIInv /\ PrepareCowns => FdIInv'
<1> SUFFICES ASSUME FdIInv, PrepareCowns PROVE FdIInv'
  OBVIOUS
<1> USE FdAssumption
<1>1. FdTypeOK'
  BY DEF FdIInv, FdTypeOK, PrepareCowns
<1>2. Requests'
  BY DEF FdIInv, FdTypeOK, Requests, PrepareCowns
<1>3. Cursors'
  BY DEF FdIInv, FdTypeOK, Requests, Cursors, PrepareCowns
<1>4. Filled'
  BY DEF FdIInv, FdTypeOK, Filled, PrepareCowns
<1> QED
  BY <1>1, <1>2, <1>3, <1>4 DEF FdIInv

(* Dispatching an entry moves the other cursors towards it. *)
LEMMA DispatchOneStep == FdIInv /\ DispatchOne => FdIInv'
<1> SUFFICES ASSUME FdIInv, DispatchOne PROVE FdIInv'
  OBVIOUS
<1> USE FdAssumption
<1>1. FdTypeOK'
  BY DEF FdIInv, FdTypeOK, DispatchOne
<1>2. Requests'
  BY DEF FdIInv, FdTypeOK, Requests, DispatchOne
<1>3. Cursors'
  BY DEF FdIInv, FdTypeOK, Requests, Cursors, DispatchOne
<1>4. Filled'
  BY DEF FdIInv, FdTypeOK, Filled, DispatchOne
<1> QED
  BY <1>1, <1>2, <1>3, <1>4 DEF FdIInv

(* The other steps leave the cursors alone. *)
LEMMA OtherStep ==
  FdIInv /\ (Receive \/ Stop \/ UNCHANGED vars) => FdIInv'
<1> SUFFICES ASSUME FdIInv, Receive \/ Stop \/ UNCHANGED vars PROVE FdIInv'
  OBVIOUS
<1> USE FdAssumption DEF FdIInv, FdTypeOK, Requests, Cursors, Filled
<1>1. CASE Receive
  BY <1>1 DEF Receive, fdVars
<1>2. CASE Stop
  BY <1>2 DEF Stop
<1>3. CASE UNCHANGED vars
  BY <1>3 DEF vars, fdVars
<1> QED
  BY <1>1, <1>2, <1>3

(* The inductive invariant: cursors, counters and prepared entries. *)
THEOREM FdInvariance == Spec => []FdIInv
<1>1. FdIInv /\ [Next]_vars => FdIInv'
  BY BeginBatchStep, PrepareCownsStep, DispatchOneStep, OtherStep
     DEF Next, Dispatcher, Finished
<1> QED
  BY FdInit, <1>1, PTL DEF Spec

(* FileDispatcher's state keeps its types and works on legal batches,      *)
(* whatever look_ahead holds at first.                                     *)
THEOREM FdTypeCorrect == Spec => []FdTypeOK
<1>1. FdIInv => FdTypeOK
  BY DEF FdIInv
<1> QED
  BY <1>1, FdInvariance, PTL

(* dispatch_one only reads entries that prepare_cowns has filled in, for   *)
(* requests that have arrived.                                             *)
THEOREM FdPreparedHolds == Spec => []FdPrepared
<1>1. FdIInv => FdPrepared
  BY FdAssumption DEF FdIInv, FdTypeOK, Requests, Cursors, Filled, FdPrepared
<1> QED
  BY <1>1, FdInvariance, PTL

(* Neither loop of dispatch_batch leaves the log. *)
THEOREM FdInLogHolds == Spec => []FdInLog
<1>1. FdIInv => FdInLog
  BY FdAssumption DEF FdIInv, FdTypeOK, Requests, Cursors, FdInLog
<1> QED
  BY <1>1, FdInvariance, PTL

-----------------------------------------------------------------------------
(* Statistics: the members that FileDispatcher's constructor sets begin    *)
(* with what it sets them to.                                              *)

StTypeOK ==
  /\ counter \in [Workers -> {"none", "inserting", "null", "stored", "mapped"}]
  /\ tx_cnt \in [Workers -> Nat]
  /\ st_pc \in {"run", "sum", "print", "crashed"}
  /\ tx_exec_sum \in Nat /\ last_tx_exec_sum \in Nat
  /\ unread \in SUBSET Workers /\ sum \in Nat /\ executed_before \in Nat

(* Once as many nodes are in the map as there are workers, all are and     *)
(* stay there, and only then is anything summed.                           *)
Linked == {"null", "stored", "mapped"}

MapComplete ==
  /\ counter_registered \in BOOLEAN
  /\ counter_registered => \A w \in Workers : counter[w] \in Linked
  /\ st_pc = "sum" => counter_registered

(* The constructors exclude each other. *)
OneConstructs ==
  \A v, w \in Workers :
    v # w => counter[v] \in {"none", "mapped"} \/ counter[w] \in {"none", "mapped"}

MapInv == StTypeOK /\ MapComplete /\ OneConstructs

(* What is summed so far and what the other counters hold by now lies      *)
(* between what had been executed and what is; the sum announced last is   *)
(* not more than what had been executed.                                   *)
Counted == SumFunctionOnSet(tx_cnt, Workers)
ToRead == SumFunctionOnSet(tx_cnt, unread)

SumInv ==
  /\ tx_exec_sum <= Counted /\ last_tx_exec_sum <= tx_exec_sum
  /\ st_pc = "sum" =>
       /\ tx_exec_sum <= executed_before
       /\ executed_before <= sum + ToRead /\ sum + ToRead <= Counted
  /\ st_pc = "print" /\ counter_registered => executed_before <= tx_exec_sum

(* Nothing is registered at first. *)
LEMMA MapInit ==
  ASSUME InitRegistered = {FALSE}, StInit
  PROVE  MapInv
  BY StatisticsAssumption DEF StInit, MapInv, StTypeOK, MapComplete, OneConstructs

(* The map is complete when it has as many counters as there are workers. *)
LEMMA TrackIsRight ==
  ASSUME IsFiniteSet(Workers), MapInv, Track
  PROVE  \A w \in Workers : counter[w] \in Linked
<1>1. CASE counter_registered
  BY <1>1 DEF MapInv, MapComplete
<1>2. CASE Cardinality(counter_map) = Cardinality(Workers)
  <2>1. counter_map \subseteq Workers
    BY DEF counter_map
  <2>2. counter_map = Workers
    BY <1>2, <2>1, FS_Subset
  <2> QED
    BY <2>2 DEF counter_map, Linked
<1> QED
  <2>1. counter_registered \/ Cardinality(counter_map) = Cardinality(Workers)
    BY DEF Track
  <2> QED
    BY <1>1, <1>2, <2>1

(* What a worker's step does to its counter. *)
LEMMA WorkerSteps ==
  ASSUME NEW w, Worker(w)
  PROVE  /\ UNCHANGED runVars
         /\ UNCHANGED tx_cnt \/ tx_cnt' = [tx_cnt EXCEPT ![w] = @ + 1]
         /\ \/ counter' = counter
            \/ counter[w] = "none" /\ Constructing = {}
               /\ counter' = [counter EXCEPT ![w] = "inserting"]
            \/ counter[w] = "inserting" /\ counter' = [counter EXCEPT ![w] = "null"]
            \/ counter[w] = "null" /\ counter' = [counter EXCEPT ![w] = "stored"]
            \/ counter[w] = "stored" /\ counter' = [counter EXCEPT ![w] = "mapped"]
  BY DEF Worker, EnterConstructor, LinkNode, StorePointer, LeaveConstructor, Incr, runVars

(* No step of a worker or of the dispatching thread breaks it. *)
LEMMA MapStep ==
  ASSUME IsFiniteSet(Workers), MapInv, [StNext]_stVars
  PROVE  MapInv'
<1>0. StTypeOK /\ MapComplete /\ OneConstructs
  BY DEF MapInv
<1> USE DEF workerVars, runVars
<1>a. ASSUME UNCHANGED counter PROVE OneConstructs'
  BY <1>0, <1>a DEF OneConstructs
<1>1. CASE UNCHANGED stVars
  <2>1. StTypeOK' /\ UNCHANGED counter
    BY <1>0, <1>1 DEF StTypeOK, stVars
  <2>2. MapComplete'
    BY Zenon, <1>0, <1>1 DEF MapComplete, stVars
  <2> QED
    BY <1>a, <2>1, <2>2 DEF MapInv
<1>2. ASSUME NEW w \in Workers, Worker(w)
      PROVE  MapInv'
  <2>1. /\ UNCHANGED runVars
        /\ UNCHANGED tx_cnt \/ tx_cnt' = [tx_cnt EXCEPT ![w] = @ + 1]
        /\ \/ counter' = counter
           \/ counter[w] = "none" /\ Constructing = {}
              /\ counter' = [counter EXCEPT ![w] = "inserting"]
           \/ counter[w] = "inserting" /\ counter' = [counter EXCEPT ![w] = "null"]
           \/ counter[w] = "null" /\ counter' = [counter EXCEPT ![w] = "stored"]
           \/ counter[w] = "stored" /\ counter' = [counter EXCEPT ![w] = "mapped"]
    BY <1>2, WorkerSteps
  <2>2. StTypeOK'
    <3>1. tx_cnt' \in [Workers -> Nat]
      BY <1>0, <2>1 DEF StTypeOK
    <3>2. counter' \in [Workers -> {"none", "inserting", "null", "stored", "mapped"}]
      BY <1>0, <2>1 DEF StTypeOK
    <3> QED
      BY <1>0, <2>1, <3>1, <3>2 DEF StTypeOK
  <2>3. \A v \in Workers : counter[v] \in Linked => counter'[v] \in Linked
    BY <1>0, <2>1 DEF StTypeOK, Linked
  <2>4. MapComplete'
    BY Zenon, <1>0, <2>1, <2>3 DEF MapComplete
  <2>5. OneConstructs'
    <3>1. CASE UNCHANGED counter
      BY <1>a, <3>1
    <3>2. CASE Constructing = {}
      <4>1. \A v \in Workers : counter[v] \in {"none", "mapped"}
        BY <1>0, <3>2 DEF Constructing, StTypeOK
      <4>2. \A v \in Workers : v # w => counter'[v] = counter[v]
        BY <1>0, <2>1 DEF StTypeOK
      <4> QED
        BY <4>1, <4>2 DEF OneConstructs
    <3>3. CASE counter[w] \notin {"none", "mapped"}
      <4>1. \A v \in Workers : v # w => counter'[v] = counter[v] /\ counter[v] \in {"none", "mapped"}
        BY <1>0, <2>1, <3>3 DEF StTypeOK, OneConstructs
      <4> QED
        BY <4>1 DEF OneConstructs
    <3> QED
      BY <2>1, <3>1, <3>2, <3>3
  <2> QED
    BY <2>2, <2>4, <2>5 DEF MapInv
<1>3. ASSUME NEW n \in BatchSizes, DispatchBatch(n) PROVE MapInv'
  <2>1. Track => \A w \in Workers : counter[w] \in Linked
    BY TrackIsRight
  <2>2. Executed \in Nat /\ counter_map \in SUBSET Workers
    BY <1>0, SumPart DEF Executed, counter_map, StTypeOK
  <2>3. counter_registered' = Track /\ counter_registered' \in BOOLEAN
    BY Zenon, <1>3 DEF DispatchBatch, Track
  <2>4. \/ UNCHANGED <<unread, sum, executed_before>> /\ st_pc' \in {st_pc, "print"}
        \/ st_pc' = "sum" /\ unread' = counter_map /\ sum' = 0 /\ executed_before' = Executed
    BY Zenon, <1>3 DEF DispatchBatch
  <2>5. UNCHANGED <<counter, tx_cnt, tx_exec_sum, last_tx_exec_sum>>
    BY Zenon, <1>3 DEF DispatchBatch
  <2>6. st_pc = "run" /\ (st_pc' = "sum" => counter_registered')
    BY Zenon, <1>3 DEF DispatchBatch
  <2>7. StTypeOK'
    BY <1>0, <2>2, <2>4, <2>5 DEF StTypeOK
  <2>8. MapComplete'
    BY Zenon, <2>1, <2>3, <2>5, <2>6 DEF MapComplete
  <2> QED
    BY <1>a, <2>5, <2>7, <2>8 DEF MapInv
<1>4. ASSUME NEW w \in Workers, ReadCounter(w) PROVE MapInv'
  <2>1. sum' = sum + tx_cnt[w] /\ unread' = unread \ {w}
        /\ UNCHANGED <<st_pc, counter, tx_cnt, tx_exec_sum, last_tx_exec_sum, executed_before>>
    BY Zenon, <1>4 DEF ReadCounter
  <2>2. StTypeOK'
    BY <1>0, <2>1 DEF StTypeOK
  <2>3. MapComplete'
    BY Zenon, <1>0, <1>4 DEF MapComplete, ReadCounter
  <2> QED
    BY <1>a, <2>1, <2>2, <2>3 DEF MapInv
<1>5. CASE EndSum
  <2>1. tx_exec_sum' = sum /\ st_pc' = "print"
        /\ UNCHANGED <<counter, tx_cnt, last_tx_exec_sum, unread, sum, executed_before>>
    BY Zenon, <1>5 DEF EndSum
  <2>2. StTypeOK'
    BY <1>0, <2>1 DEF StTypeOK
  <2>3. MapComplete'
    BY Zenon, <1>0, <1>5 DEF MapComplete, EndSum
  <2> QED
    BY <1>a, <2>1, <2>2, <2>3 DEF MapInv
<1>6. CASE Announce
  <2>1. last_tx_exec_sum' = tx_exec_sum /\ st_pc' = "run"
        /\ UNCHANGED <<counter, tx_cnt, tx_exec_sum, unread, sum, executed_before>>
    BY Zenon, <1>6 DEF Announce
  <2>2. StTypeOK'
    BY <1>0, <2>1 DEF StTypeOK
  <2>3. MapComplete'
    BY Zenon, <1>0, <1>6 DEF MapComplete, Announce
  <2> QED
    BY <1>a, <2>1, <2>2, <2>3 DEF MapInv
<1>7. CASE Drained
  BY <1>1, <1>7 DEF Drained
<1>8. ASSUME NEW w \in Workers, ReadNull(w) PROVE MapInv'
  <2>1. st_pc' = "crashed"
        /\ UNCHANGED <<counter, tx_cnt, tx_exec_sum, last_tx_exec_sum, unread, sum,
                       executed_before>>
    BY Zenon, <1>8 DEF ReadNull
  <2>2. StTypeOK'
    BY <1>0, <2>1 DEF StTypeOK
  <2>3. MapComplete'
    BY Zenon, <1>0, <1>8, <2>1 DEF MapComplete, ReadNull
  <2> QED
    BY <1>a, <2>1, <2>2, <2>3 DEF MapInv
<1> QED
  BY <1>1, <1>2, <1>3, <1>4, <1>5, <1>6, <1>7, <1>8 DEF StNext

(* While calc_tx_exec_sum iterates over counter_map without its mutex, all *)
(* workers' nodes are linked, and at most one constructor is still to      *)
(* store its pointer.                                                      *)
THEOREM SumOnQuietMapHolds ==
  ASSUME InitRegistered = {FALSE}
  PROVE  StSpec => []SumOnQuietMap
<1>1. StInit => MapInv
  BY MapInit
<1>2. MapInv /\ [StNext]_stVars => MapInv'
  <2>1. IsFiniteSet(Workers)
    BY StatisticsAssumption
  <2> QED
    BY <2>1, MapStep
<1>3. MapInv => SumOnQuietMap
  <2> SUFFICES ASSUME MapInv, st_pc = "sum"
               PROVE  counter_map = Workers /\ \A v, w \in Constructing : v = w
    BY DEF SumOnQuietMap
  <2>1. counter_map = Workers
    BY DEF MapInv, MapComplete, Linked, counter_map
  <2>2. \A v, w \in Constructing : v = w
    BY DEF MapInv, OneConstructs, Constructing
  <2> QED
    BY <2>1, <2>2
<1> QED
  BY <1>1, <1>2, <1>3, PTL DEF StSpec

(* No step breaks the bounds of the sum. *)
LEMMA SumStep ==
  ASSUME IsFiniteSet(Workers), MapInv, MapInv', SumInv, [StNext]_stVars
  PROVE  SumInv'
<1>0. StTypeOK /\ Counted \in Nat /\ ToRead \in Nat
  BY SumPart DEF MapInv, StTypeOK, Counted, ToRead
<1>1. CASE UNCHANGED <<tx_cnt, runVars>>
  <2>1. UNCHANGED <<Counted, ToRead>>
    BY <1>1 DEF Counted, ToRead, runVars
  <2> QED
    BY <1>1, <2>1 DEF SumInv, runVars
<1>2. ASSUME NEW w \in Workers, Worker(w) PROVE SumInv'
  <2>1. UNCHANGED runVars
    BY <1>2, WorkerSteps
  <2>2. CASE tx_cnt' = [tx_cnt EXCEPT ![w] = @ + 1]
    <3>1. PICK f, g, U : f = tx_cnt /\ g = tx_cnt' /\ U = unread /\ U = unread'
      BY <2>1 DEF runVars
    <3>2. /\ f \in [Workers -> Nat] /\ g \in [Workers -> Nat] /\ U \in SUBSET Workers
          /\ g[w] = f[w] + 1 /\ \A x \in Workers : x # w => g[x] = f[x]
      BY <1>0, <2>2, <3>1 DEF StTypeOK
    <3>3. /\ SumFunctionOnSet(g, Workers) = SumFunctionOnSet(f, Workers) + 1
          /\ \/ SumFunctionOnSet(g, U) = SumFunctionOnSet(f, U)
             \/ SumFunctionOnSet(g, U) = SumFunctionOnSet(f, U) + 1
      <4>1. IsFiniteSet(Workers) /\ w \in Workers
        OBVIOUS
      <4> QED
        BY ONLY <3>2, <4>1, SumCount
    <3>4. Counted' = Counted + 1 /\ (ToRead' = ToRead \/ ToRead' = ToRead + 1)
      BY <3>1, <3>3 DEF Counted, ToRead
    <3>5. tx_exec_sum' <= Counted' /\ last_tx_exec_sum' <= tx_exec_sum'
      BY <1>0, <2>1, <3>4 DEF SumInv, runVars, StTypeOK
    <3>6. st_pc = "sum" => executed_before' <= sum' + ToRead' /\ sum' + ToRead' <= Counted'
      BY <1>0, <2>1, <3>4 DEF SumInv, runVars, StTypeOK
    <3> QED
      BY Zenon, <2>1, <3>5, <3>6 DEF SumInv, runVars
  <2> QED
    BY <1>1, <1>2, <2>1, <2>2, WorkerSteps
<1>3. ASSUME NEW n \in BatchSizes, DispatchBatch(n) PROVE SumInv'
  <2>1. UNCHANGED <<tx_cnt, tx_exec_sum, last_tx_exec_sum>> /\ Counted' = Counted
    BY <1>3 DEF DispatchBatch, workerVars, Counted
  <2>2. \/ st_pc' = "run"
        \/ st_pc' = "print" /\ ~counter_registered'
        \/ st_pc' = "sum" /\ counter_registered' /\ unread' = counter_map /\ sum' = 0
           /\ executed_before' = Executed
    BY Zenon, <1>3 DEF DispatchBatch
  <2>3. CASE st_pc' = "sum"
    <3>1. \A w \in Workers : counter[w] \in Linked
      BY Zenon, <1>3, <2>2, <2>3 DEF MapInv, MapComplete, DispatchBatch, workerVars
    <3>2. unread' = Workers
      BY <2>2, <2>3, <3>1 DEF counter_map, Linked
    <3>3. ToRead' = Counted
      BY <2>1, <3>2 DEF Counted, ToRead
    <3>4. sum' = 0 /\ executed_before' = Counted
      BY <2>2, <2>3 DEF Counted, Executed
    <3> QED
      BY <1>0, <2>1, <2>3, <3>3, <3>4 DEF SumInv
  <2>4. CASE st_pc' = "run"
    BY <2>1, <2>4 DEF SumInv
  <2>5. CASE st_pc' = "print" /\ ~counter_registered'
    BY <2>1, <2>5 DEF SumInv
  <2> QED
    BY <2>2, <2>3, <2>4, <2>5
<1>4. ASSUME NEW w \in Workers, ReadCounter(w) PROVE SumInv'
  <2>1. /\ st_pc = "sum" /\ w \in unread /\ sum' = sum + tx_cnt[w] /\ unread' = unread \ {w}
        /\ UNCHANGED <<st_pc, tx_cnt, tx_exec_sum, last_tx_exec_sum, executed_before>>
    BY <1>4 DEF ReadCounter, workerVars
  <2>2. Counted' = Counted
    BY <2>1 DEF Counted
  <2>3. ToRead = tx_cnt[w] + ToRead'
    <3>1. PICK f, U : f = tx_cnt /\ f = tx_cnt' /\ U = unread /\ unread' = U \ {w}
      BY <2>1
    <3>2. IsFiniteSet(U) /\ w \in U /\ \A x \in U : f[x] \in Int
      BY <1>0, <2>1, <3>1, SumPart DEF StTypeOK
    <3>3. SumFunctionOnSet(f, U) = f[w] + SumFunctionOnSet(f, U \ {w})
      BY <3>2, SumRemove
    <3> QED
      BY <3>1, <3>3 DEF ToRead
  <2>4. ToRead' \in Nat /\ tx_cnt[w] \in Nat
    BY <1>0, SumPart DEF StTypeOK, MapInv, ToRead
  <2> QED
    BY <1>0, <2>1, <2>2, <2>3, <2>4 DEF SumInv, StTypeOK
<1>5. CASE EndSum
  <2>1. /\ st_pc = "sum" /\ unread = {} /\ tx_exec_sum' = sum /\ st_pc' = "print"
        /\ UNCHANGED <<tx_cnt, last_tx_exec_sum, executed_before>>
    BY <1>5 DEF EndSum, workerVars
  <2>2. Counted' = Counted /\ ToRead = 0
    BY <2>1, SumEmpty DEF Counted, ToRead
  <2> QED
    BY <1>0, <2>1, <2>2 DEF SumInv, StTypeOK
<1>6. CASE Announce
  <2>1. /\ st_pc' = "run" /\ last_tx_exec_sum' = tx_exec_sum
        /\ UNCHANGED <<tx_cnt, tx_exec_sum>>
    BY <1>6 DEF Announce, workerVars
  <2>2. Counted' = Counted
    BY <2>1 DEF Counted
  <2> QED
    BY <1>0, <2>1, <2>2 DEF SumInv, StTypeOK
<1>7. CASE Drained \/ UNCHANGED stVars
  BY <1>1, <1>7 DEF Drained, stVars, workerVars
<1>8. ASSUME NEW w \in Workers, ReadNull(w) PROVE SumInv'
  <2>1. st_pc' = "crashed" /\ UNCHANGED <<tx_cnt, tx_exec_sum, last_tx_exec_sum>>
    BY <1>8 DEF ReadNull, workerVars
  <2>2. Counted' = Counted
    BY <2>1 DEF Counted
  <2> QED
    BY <2>1, <2>2 DEF SumInv
<1> QED
  BY <1>2, <1>3, <1>4, <1>5, <1>6, <1>7, <1>8 DEF StNext

(* Though the counters are read one by one while they change, the sum      *)
(* announced is one that was right while it was made, and not less than    *)
(* the one announced before it.                                            *)
THEOREM SumWasRightHolds ==
  ASSUME InitRegistered = {FALSE}, InitExecSum = {0}
  PROVE  StSpec => []SumWasRight
<1>0. IsFiniteSet(Workers)
  BY StatisticsAssumption
<1>1. StInit => MapInv /\ SumInv
  <2> SUFFICES ASSUME StInit PROVE MapInv /\ SumInv
    OBVIOUS
  <2>1. MapInv
    BY MapInit
  <2>2. Counted \in Nat
    BY <1>0, <2>1, SumPart DEF MapInv, StTypeOK, Counted
  <2> QED
    BY <2>1, <2>2 DEF StInit, SumInv
<1>2. MapInv /\ SumInv /\ [StNext]_stVars => (MapInv /\ SumInv)'
  BY <1>0, MapStep, SumStep
<1>3. MapInv /\ SumInv => SumWasRight
  <2>1. Executed = Counted
    BY DEF Executed, Counted
  <2> QED
    BY <2>1 DEF SumInv, SumWasRight
<1> QED
  BY <1>1, <1>2, <1>3, PTL DEF StSpec

-----------------------------------------------------------------------------
(* Shutdown. *)

ShTypeOK ==
  /\ tx_cnt \in [Workers -> Nat] /\ log_arr \in [Workers -> Nat]
  /\ printed \in [Workers -> Nat] /\ logged_before \in [Workers -> Nat]
  /\ sh_pc \in {"sleep", "entry", "print", "aborted"}
  /\ unflushed \in SUBSET Workers /\ w_now \in Workers
  /\ end \in Nat /\ buffered \in Nat /\ on_disk \in Nat

(* n transactions have logged at most m latencies: two for each multiple   *)
(* of SAMPLE_RATE that tx_cnt has reached and left, one for the first.     *)
SampledOf(n, m) ==
  \E q \in Nat : /\ SampleRate * q <= n /\ n < SampleRate * q + SampleRate
                 /\ m <= 2 * q + (IF n = SampleRate * q THEN 0 ELSE 1)

Sampling ==
  /\ \A w \in Workers : SampledOf(tx_cnt[w], log_arr[w])
  /\ SumFunctionOnSet(tx_cnt, Workers) <= NumTxns

(* What the flush loop has left behind is printed as far as it was logged  *)
(* when the loop began; the vector that is printed ends where it did when  *)
(* the loop came to it, or further.                                        *)
Flushing ==
  /\ \A w \in Workers : printed[w] <= log_arr[w] /\ logged_before[w] <= log_arr[w]
  /\ \A w \in Workers \ unflushed : logged_before[w] <= printed[w]
  /\ sh_pc = "print" =>
       /\ printed[w_now] <= end /\ logged_before[w_now] <= end /\ end <= log_arr[w_now]
  /\ sh_pc = "aborted" => unflushed = {}

(* The values printed are in the file or in stdio's buffer. *)
Buffering ==
  /\ buffered < BufSize
  /\ SumFunctionOnSet(printed, Workers) = buffered + on_disk

ShIInv == ShTypeOK /\ Sampling /\ Flushing /\ Buffering

(* ShutdownAssumption, by the definition that the steps cite. *)
ShFacts ==
  /\ IsFiniteSet(Workers)
  /\ NumTxns \in Nat /\ SampleRate \in Nat \ {0} /\ BufSize \in Nat \ {0}
  /\ TxCounterLogSize \in Nat
  /\ 2 * NumTxns + SampleRate <= SampleRate * (TxCounterLogSize + 1)

LEMMA ShutdownFacts == ShFacts
  BY ShutdownAssumption DEF ShFacts

(* Multiplication by a positive number keeps the order. *)
LEMMA MultMonotone ==
  ASSUME NEW n \in Nat \ {0}, NEW a \in Int, NEW b \in Int
  PROVE  n * a \in Int /\ n * b \in Int /\ (a <= b => n * a <= n * b)
                                         /\ (a < b => n * a < n * b)
<1>1. n * a \in Int /\ n * b \in Int
  OBVIOUS
<1>2. a <= b => n * a <= n * b
  <2> SUFFICES ASSUME a <= b PROVE n * a <= n * b
    OBVIOUS
  <2>1. PICK d \in Nat : b = a + d
    <3>1. b - a \in Nat /\ b = a + (b - a)
      OBVIOUS
    <3> QED
      BY <3>1
  <2>2. n * b = n * a + n * d /\ n * d \in Nat
    BY <2>1
  <2> QED
    BY <1>1, <2>2
<1>3. a < b => n * a < n * b
  <2> SUFFICES ASSUME a < b PROVE n * a < n * b
    OBVIOUS
  <2>1. PICK d \in Nat \ {0} : b = a + d
    <3>1. b - a \in Nat \ {0} /\ b = a + (b - a)
      OBVIOUS
    <3> QED
      BY <3>1
  <2>2. n * b = n * a + n * d /\ n * d \in Nat \ {0}
    BY <2>1
  <2> QED
    BY <1>1, <2>2
<1> QED
  BY <1>1, <1>2, <1>3

(* The remainder is what the last multiple leaves. *)
LEMMA Remainder ==
  ASSUME NEW r \in Nat \ {0}, NEW n \in Nat, NEW q \in Nat,
         r * q <= n, n < r * q + r
  PROVE  n % r = n - r * q
<1> DEFINE d == n \div r
<1>1. d \in Int /\ n % r \in 0..(r - 1) /\ n = r * d + (n % r)
  OBVIOUS
<1>2. d = q
  <2>1. d + 1 <= q => r * (d + 1) <= r * q
    BY <1>1, MultMonotone
  <2>2. q + 1 <= d => r * (q + 1) <= r * d
    BY <1>1, MultMonotone
  <2>3. r * (d + 1) = r * d + r /\ r * (q + 1) = r * q + r
    BY <1>1
  <2>4. r * d \in Int /\ r * q \in Int
    BY <1>1
  <2> QED
    BY <1>1, <2>1, <2>2, <2>3, <2>4
<1> QED
  BY <1>1, <1>2

(* One more transaction keeps the proportion, whether log_latency looks at *)
(* tx_cnt before it is counted or after.                                   *)
LEMMA SampleStep ==
  ASSUME ShFacts, NEW n \in Nat, NEW m \in Nat, SampledOf(n, m),
         NEW cnt \in {n, n + 1}
  PROVE  SampledOf(n + 1, IF cnt % SampleRate = 0 THEN m + 1 ELSE m)
<1> DEFINE r == SampleRate
           k == IF cnt % r = 0 THEN m + 1 ELSE m
<1>0. r \in Nat \ {0}
  BY DEF ShFacts
<1>1. PICK q \in Nat : /\ r * q <= n /\ n < r * q + r
                       /\ m <= 2 * q + (IF n = r * q THEN 0 ELSE 1)
  BY DEF SampledOf
<1>2. r * q \in Nat /\ r * (q + 1) = r * q + r
  BY <1>0
<1>4. CASE n + 1 < r * q + r
  <2>1. cnt \in Nat /\ cnt % r = cnt - r * q
    <3>1. cnt \in Nat /\ r * q <= cnt /\ cnt < r * q + r
      BY <1>1, <1>2, <1>4
    <3> QED
      BY <1>0, <3>1, Remainder
  <2>2. k \in Nat /\ k <= 2 * q + 1
    BY <1>1, <1>2, <2>1
  <2>3. r * q <= n + 1 /\ n + 1 # r * q
    BY <1>1, <1>2
  <2> QED
    BY <1>4, <2>2, <2>3 DEF SampledOf
<1>5. CASE n + 1 = r * q + r
  <2>1. n + 1 = r * (q + 1) /\ n + 1 < r * (q + 1) + r /\ q + 1 \in Nat
    BY <1>0, <1>2, <1>5
  <2>2. k <= 2 * (q + 1)
    <3>1. CASE n = r * q
      BY <1>1, <3>1
    <3>2. CASE n # r * q
      BY <1>1, <3>2
    <3> QED
      BY <3>1, <3>2
  <2>3. r * (q + 1) <= n + 1 /\ k <= 2 * (q + 1) + (IF n + 1 = r * (q + 1) THEN 0 ELSE 1)
    BY <2>1, <2>2
  <2> QED
    BY <2>1, <2>3 DEF SampledOf
<1> QED
  BY <1>0, <1>1, <1>2, <1>4, <1>5

(* A worker without a transaction has logged nothing. *)
LEMMA NoneSampled ==
  ASSUME ShFacts, NEW m \in Nat, SampledOf(0, m)
  PROVE  m = 0
<1>0. SampleRate \in Nat \ {0}
  BY DEF ShFacts
<1>1. PICK q \in Nat : /\ SampleRate * q <= 0
                       /\ m <= 2 * q + (IF 0 = SampleRate * q THEN 0 ELSE 1)
  BY DEF SampledOf
<1>2. 1 <= q => SampleRate * 1 <= SampleRate * q
  BY <1>0, MultMonotone
<1>3. SampleRate * 1 = SampleRate /\ SampleRate * q \in Int /\ SampleRate * 0 = 0
  BY <1>0
<1>4. q = 0
  BY <1>0, <1>1, <1>2, <1>3
<1> QED
  BY <1>1, <1>3, <1>4

(* All counts are 0 at first. *)
LEMMA ShInitInv ==
  ASSUME ShFacts, ShInit
  PROVE  ShIInv
<1>1. ShTypeOK
  BY DEF ShInit, Zero, ShTypeOK
<1>2. SumFunctionOnSet(tx_cnt, Workers) = 0 /\ SumFunctionOnSet(printed, Workers) = 0
  <2>1. \A w \in Workers : tx_cnt[w] = 0 /\ printed[w] = 0
    BY DEF ShInit, Zero
  <2>2. PICK f, g : f = tx_cnt /\ g = printed
    OBVIOUS
  <2>3. IsFiniteSet(Workers)
    BY DEF ShFacts
  <2>4. SumFunctionOnSet(f, Workers) = 0 /\ SumFunctionOnSet(g, Workers) = 0
    BY <2>1, <2>2, <2>3, SumZero
  <2> QED
    BY <2>2, <2>4
<1>3. SampledOf(0, 0)
  <2>1. SampleRate * 0 = 0 /\ SampleRate \in Nat \ {0} /\ 0 \in Nat
    BY DEF ShFacts
  <2>2. SampleRate * 0 <= 0 /\ 0 < SampleRate * 0 + SampleRate
        /\ 0 <= 2 * 0 + (IF 0 = SampleRate * 0 THEN 0 ELSE 1)
    BY <2>1
  <2> QED
    BY <2>1, <2>2 DEF SampledOf
<1>4. Sampling
  BY <1>2, <1>3 DEF Sampling, ShInit, Zero, ShFacts
<1>5. Flushing
  BY DEF Flushing, ShInit, Zero
<1>6. Buffering
  BY <1>2 DEF Buffering, ShInit, ShFacts
<1> QED
  BY <1>1, <1>4, <1>5, <1>6 DEF ShIInv

(* A transaction is executed: logged perhaps, counted certainly. *)
LEMMA ShExecuteStep ==
  ASSUME ShFacts, ShIInv, NEW w \in Workers, NEW cnt \in {tx_cnt[w], tx_cnt[w] + 1},
         Execute(w, cnt)
  PROVE  ShIInv'
<1>0. ShTypeOK /\ Sampling /\ Flushing /\ Buffering /\ IsFiniteSet(Workers)
  BY DEF ShIInv, ShFacts
<1>1. /\ tx_cnt' = [tx_cnt EXCEPT ![w] = @ + 1]
      /\ log_arr' = IF cnt % SampleRate = 0 THEN [log_arr EXCEPT ![w] = @ + 1] ELSE log_arr
      /\ unflushed' = unflushed \/ unflushed' = unflushed \cup {w}
      /\ UNCHANGED <<sh_pc, w_now, printed, end, buffered, on_disk, logged_before>>
      /\ SumFunctionOnSet(tx_cnt, Workers) < NumTxns /\ sh_pc # "aborted"
  BY DEF Execute, Sampled, Executed
<1>2. ShTypeOK'
  BY <1>0, <1>1 DEF ShTypeOK
<1>3. \A v \in Workers : log_arr[v] <= log_arr'[v]
  BY <1>0, <1>1 DEF ShTypeOK
<1>4. \A v \in Workers : SampledOf(tx_cnt'[v], log_arr'[v])
  <2> SUFFICES ASSUME NEW v \in Workers PROVE SampledOf(tx_cnt'[v], log_arr'[v])
    OBVIOUS
  <2>1. tx_cnt[v] \in Nat /\ log_arr[v] \in Nat /\ SampledOf(tx_cnt[v], log_arr[v])
    BY <1>0 DEF ShTypeOK, Sampling
  <2>2. CASE v # w
    <3>1. tx_cnt'[v] = tx_cnt[v] /\ log_arr'[v] = log_arr[v]
      BY <1>0, <1>1, <2>2 DEF ShTypeOK
    <3> QED
      BY <2>1, <3>1
  <2>3. CASE v = w
    <3>1. tx_cnt'[v] = tx_cnt[v] + 1
          /\ log_arr'[v] = IF cnt % SampleRate = 0 THEN log_arr[v] + 1 ELSE log_arr[v]
      BY <1>0, <1>1, <2>3 DEF ShTypeOK
    <3>2. PICK n \in Nat, m \in Nat : n = tx_cnt[v] /\ m = log_arr[v]
      BY <2>1
    <3>3. SampledOf(n + 1, IF cnt % SampleRate = 0 THEN m + 1 ELSE m)
      <4>1. cnt \in {n, n + 1} /\ SampledOf(n, m)
        BY <2>1, <2>3, <3>2
      <4> QED
        BY <4>1, SampleStep
    <3> QED
      BY <3>1, <3>2, <3>3
  <2> QED
    BY <2>2, <2>3
<1>5. SumFunctionOnSet(tx_cnt', Workers) <= NumTxns
  <2>1. PICK f, g : f = tx_cnt /\ g = tx_cnt'
    OBVIOUS
  <2>2. /\ f \in [Workers -> Nat] /\ g \in [Workers -> Nat] /\ Workers \in SUBSET Workers
        /\ g[w] = f[w] + 1 /\ \A x \in Workers : x # w => g[x] = f[x]
    BY <1>0, <1>1, <2>1 DEF ShTypeOK
  <2>3. SumFunctionOnSet(g, Workers) = SumFunctionOnSet(f, Workers) + 1
        /\ SumFunctionOnSet(f, Workers) \in Nat
    <3>1. IsFiniteSet(Workers) /\ w \in Workers
      BY <1>0
    <3> QED
      BY ONLY <2>2, <3>1, SumCount, SumPart
  <2>4. SumFunctionOnSet(f, Workers) < NumTxns
    BY <1>1, <2>1
  <2> QED
    BY <2>1, <2>3, <2>4 DEF ShFacts
<1>6. Sampling'
  BY <1>4, <1>5 DEF Sampling
<1>7. Flushing'
  <2>1. \A v \in Workers : log_arr[v] \in Nat /\ log_arr'[v] \in Nat /\ printed[v] \in Nat
                            /\ logged_before[v] \in Nat
    BY <1>0, <1>2 DEF ShTypeOK
  <2>2. \A v \in Workers : printed'[v] <= log_arr'[v] /\ logged_before'[v] <= log_arr'[v]
    BY <1>0, <1>1, <1>3, <2>1 DEF Flushing
  <2>3. \A v \in Workers \ unflushed' : logged_before'[v] <= printed'[v]
    BY <1>0, <1>1 DEF Flushing
  <2>4. sh_pc' = "print" => end' <= log_arr'[w_now']
    BY <1>0, <1>1, <1>3, <2>1 DEF Flushing, ShTypeOK
  <2> QED
    BY <1>0, <1>1, <2>2, <2>3, <2>4 DEF Flushing
<1>8. Buffering'
  BY <1>0, <1>1 DEF Buffering
<1> QED
  BY <1>2, <1>6, <1>7, <1>8 DEF ShIInv

(* The flush loop begins: who is not in it has logged nothing. *)
LEMMA ShWakeUpStep ==
  ASSUME ShFacts, ShIInv, WakeUp
  PROVE  ShIInv'
<1>0. ShTypeOK /\ Sampling /\ Flushing /\ Buffering
  BY DEF ShIInv
<1>1. ShTypeOK'
  BY <1>0 DEF ShTypeOK, WakeUp
<1>2. Sampling'
  BY <1>0 DEF Sampling, WakeUp
<1>3. \A v \in Workers : tx_cnt[v] = 0 => log_arr[v] = 0
  BY <1>0, NoneSampled DEF ShTypeOK, Sampling
<1>4. Flushing'
  BY <1>0, <1>3 DEF Flushing, ShTypeOK, WakeUp
<1>5. Buffering'
  BY <1>0 DEF Buffering, WakeUp
<1> QED
  BY <1>1, <1>2, <1>4, <1>5 DEF ShIInv

(* The loop comes to an entry, or leaves one. *)
LEMMA ShEntryStep ==
  ASSUME ShFacts, ShIInv, (\E w \in Workers : FlushEntry(w)) \/ FlushNext \/ Terminate
  PROVE  ShIInv'
<1>0. ShTypeOK /\ Sampling /\ Flushing /\ Buffering
  BY DEF ShIInv
<1>1. UNCHANGED <<tx_cnt, log_arr, printed, buffered, on_disk, logged_before>>
  BY DEF FlushEntry, FlushNext, Terminate
<1>2. ShTypeOK'
  BY <1>0, <1>1 DEF ShTypeOK, FlushEntry, FlushNext, Terminate
<1>3. Sampling' /\ Buffering'
  BY <1>0, <1>1 DEF Sampling, Buffering
<1>4. Flushing'
  <2>1. ASSUME NEW w \in Workers, FlushEntry(w) PROVE Flushing'
    BY <1>0, <2>1 DEF Flushing, ShTypeOK, FlushEntry
  <2>2. CASE FlushNext
    BY <1>0, <2>2 DEF Flushing, ShTypeOK, FlushNext
  <2>3. CASE Terminate
    BY <1>0, <2>3 DEF Flushing, ShTypeOK, Terminate
  <2> QED
    BY <2>1, <2>2, <2>3
<1> QED
  BY <1>2, <1>3, <1>4 DEF ShIInv

(* A value is printed: it goes to the buffer, and a full one to the file. *)
LEMMA ShFlushValueStep ==
  ASSUME ShFacts, ShIInv, FlushValue
  PROVE  ShIInv'
<1>0. ShTypeOK /\ Sampling /\ Flushing /\ Buffering
  BY DEF ShIInv
<1>1. ShTypeOK'
  BY <1>0 DEF ShTypeOK, FlushValue, ShFacts
<1>2. Sampling'
  BY <1>0 DEF Sampling, FlushValue
<1>3. Flushing'
  BY <1>0 DEF Flushing, ShTypeOK, FlushValue
<1>4. SumFunctionOnSet(printed', Workers) = SumFunctionOnSet(printed, Workers) + 1
  <2>1. PICK f, g, w : f = printed /\ g = printed' /\ w = w_now
    OBVIOUS
  <2>2. /\ f \in [Workers -> Nat] /\ g \in [Workers -> Nat] /\ Workers \in SUBSET Workers
        /\ g[w] = f[w] + 1 /\ \A x \in Workers : x # w => g[x] = f[x]
    BY <1>0, <2>1 DEF ShTypeOK, FlushValue
  <2>3. SumFunctionOnSet(g, Workers) = SumFunctionOnSet(f, Workers) + 1
    <3>1. IsFiniteSet(Workers) /\ w \in Workers
      BY <1>0, <2>1 DEF ShFacts, ShTypeOK
    <3> QED
      BY ONLY <2>2, <3>1, SumCount
  <2> QED
    BY <2>1, <2>3
<1>5. Buffering'
  BY <1>0, <1>4 DEF Buffering, ShTypeOK, FlushValue, ShFacts
<1> QED
  BY <1>1, <1>2, <1>3, <1>5 DEF ShIInv

(* The inductive invariant of Shutdown. *)
LEMMA ShutdownInvariance == ShSpec => []ShIInv
<1>0. ShFacts
  BY ShutdownFacts
<1>1. ShInit => ShIInv
  BY <1>0, ShInitInv
<1>2. ShIInv /\ [ShNext]_shVars => ShIInv'
  <2> SUFFICES ASSUME ShIInv, [ShNext]_shVars PROVE ShIInv'
    OBVIOUS
  <2>1. CASE UNCHANGED shVars
    BY <2>1 DEF shVars, lambdaVars, ShIInv, ShTypeOK, Sampling, Flushing, Buffering
  <2>2. ASSUME NEW w \in Workers, NEW cnt \in {tx_cnt[w], tx_cnt[w] + 1}, Execute(w, cnt)
        PROVE  ShIInv'
    BY <1>0, <2>2, ShExecuteStep
  <2>3. CASE Aborted
    BY <2>1, <2>3 DEF Aborted
  <2> QED
    BY <1>0, <2>1, <2>2, <2>3, ShWakeUpStep, ShEntryStep, ShFlushValueStep DEF ShNext
<1> QED
  BY <1>1, <1>2, PTL DEF ShSpec

(* No worker logs more latencies than log_arr reserves: the vector that    *)
(* the flush loop iterates over is never reallocated.                      *)
THEOREM NeverReallocatedHolds == ShSpec => []NeverReallocated
<1>1. ShIInv => NeverReallocated
  <2> SUFFICES ASSUME ShIInv, NEW w \in Workers PROVE log_arr[w] <= TxCounterLogSize
    BY DEF NeverReallocated
  <2> DEFINE S == SumFunctionOnSet(tx_cnt, Workers)
  <2>0. ShFacts
    BY ShutdownFacts
  <2>1. PICK f : f = tx_cnt
    OBVIOUS
  <2>2. IsFiniteSet(Workers) /\ \A x \in Workers : f[x] \in Nat
    BY <2>0, <2>1 DEF ShFacts, ShIInv, ShTypeOK
  <2>3. f[w] \in Nat /\ f[w] <= SumFunctionOnSet(f, Workers) /\ SumFunctionOnSet(f, Workers) \in Nat
    BY <2>2, SumNat
  <2>4. tx_cnt[w] \in Nat /\ tx_cnt[w] <= NumTxns
    BY <2>0, <2>1, <2>3 DEF ShIInv, Sampling, ShFacts
  <2>5. PICK m \in Nat : m = log_arr[w]
    BY DEF ShIInv, ShTypeOK
  <2>6. PICK q \in Nat : /\ SampleRate * q <= tx_cnt[w]
                         /\ m <= 2 * q + (IF tx_cnt[w] = SampleRate * q THEN 0 ELSE 1)
    BY <2>5 DEF ShIInv, Sampling, SampledOf
  <2>7. /\ SampleRate * (2 * q) = 2 * (SampleRate * q) /\ SampleRate * q \in Nat
        /\ SampleRate * (2 * q + 1) = 2 * (SampleRate * q) + SampleRate
        /\ SampleRate * m \in Int /\ SampleRate * (TxCounterLogSize + 1) \in Int
    BY <2>0 DEF ShFacts
  <2>8. SampleRate * m < 2 * NumTxns + SampleRate
    <3>1. CASE tx_cnt[w] = SampleRate * q
      <4>1. SampleRate * m <= SampleRate * (2 * q)
        BY <2>0, <2>6, <3>1, MultMonotone DEF ShFacts
      <4> QED
        BY <2>0, <2>4, <2>7, <3>1, <4>1 DEF ShFacts
    <3>2. CASE tx_cnt[w] # SampleRate * q
      <4>1. m <= 2 * q + 1
        BY <2>6, <3>2
      <4>2. SampleRate * m <= SampleRate * (2 * q + 1)
        BY <2>0, <4>1, MultMonotone DEF ShFacts
      <4> QED
        BY <2>0, <2>4, <2>6, <2>7, <3>2, <4>2 DEF ShFacts
    <3> QED
      BY <3>1, <3>2
  <2>9. TxCounterLogSize + 1 <= m => SampleRate * (TxCounterLogSize + 1) <= SampleRate * m
    BY <2>0, MultMonotone DEF ShFacts
  <2> QED
    BY <2>0, <2>5, <2>7, <2>8, <2>9 DEF ShFacts
<1> QED
  BY <1>1, ShutdownInvariance, PTL

(* When the lambda ends, it has printed every latency logged before the    *)
(* flush loop began, and none that was not logged.                         *)
THEOREM LoggedArePrintedHolds == ShSpec => []LoggedArePrinted
<1>1. ShIInv => LoggedArePrinted
  BY DEF ShIInv, Flushing, LoggedArePrinted
<1> QED
  BY <1>1, ShutdownInvariance, PTL

(* Of what was logged before the flush loop began, less than one of        *)
(* stdio's buffers is missing from the file when the process aborts.       *)
THEOREM LossIsOneBufferHolds == ShSpec => []LossIsOneBuffer
<1>1. ShIInv => LossIsOneBuffer
  <2> SUFFICES ASSUME ShIInv, sh_pc = "aborted"
               PROVE  SumFunctionOnSet(logged_before, Workers) - on_disk < BufSize
    BY DEF LossIsOneBuffer
  <2>0. ShFacts
    BY ShutdownFacts
  <2>1. PICK f, g : f = logged_before /\ g = printed
    OBVIOUS
  <2>2. /\ IsFiniteSet(Workers)
        /\ \A x \in Workers : f[x] \in Int /\ g[x] \in Int /\ f[x] <= g[x]
    BY <2>0, <2>1 DEF ShFacts, ShIInv, ShTypeOK, Flushing
  <2>3. /\ SumFunctionOnSet(f, Workers) \in Int /\ SumFunctionOnSet(g, Workers) \in Int
        /\ SumFunctionOnSet(f, Workers) <= SumFunctionOnSet(g, Workers)
    BY ONLY <2>2, SumMonotone
  <2>4. SumFunctionOnSet(logged_before, Workers) = SumFunctionOnSet(f, Workers)
    BY <2>1
  <2>5. SumFunctionOnSet(g, Workers) = buffered + on_disk /\ buffered < BufSize
    BY <2>1 DEF ShIInv, Buffering
  <2> QED
    BY <2>0, <2>3, <2>4, <2>5 DEF ShFacts, ShIInv, ShTypeOK
<1> QED
  BY <1>1, ShutdownInvariance, PTL

=============================================================================
