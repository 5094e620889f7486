# DORADD storage in TLA+

This directory specifies, model-checks and proves the core of DORADD, a
deterministic parallel transaction runtime: a log of transactions is dispatched
by a pipeline of pinned threads to a concurrent-owner runtime (verona-rt) that
executes it on several workers, and the outcome must be the one of executing
the log serially. Paths below are relative to the repository's root.

- [The system](#the-system)
- [Modules](#modules)
- [Runs](#runs)
- [Bounds](#bounds)
- [Fairness](#fairness)
- [Proofs](#proofs)
- [Findings](#findings)
- [Only model-checked, not modelled](#only-model-checked-not-modelled)
- [Plan](#plan)

## The system

```
 RPCHandler --req_cnt--> Indexer --ring--> Prefetcher --ring--> Spawner
     |  (log_arr)          |                                      |
     +------- arrival times+------- cown_ptrs in the log -------->| when(cowns) << lambda
                                                                  v
                                             cown queues -> workers -> rows, TxCounter
```

| component | source | state | operations | what makes it correct |
|---|---|---|---|---|
| RPCHandler | `src/doradd/rpc_handler.hpp` | `i`, `log_arr`, the atomic `req_cnt` | wait for the next arrival, store its time, count it | an arrival time is stored before anyone can read it; with `RPC_LATENCY` at most `RPC_LOG_SIZE` requests |
| Indexer | `src/doradd/dispatcher.hpp` 253-329 | cursor, `handled_req_cnt`, `batch` | turn the count into a batch of 1 to `MAX_BATCH`, `prepare_cowns` per entry, push the batch size | takes every request once; fills in the `cown_ptrs` of every entry the Spawner will dispatch |
| Prefetcher | `dispatcher.hpp` 331-411 | cursor | front, prefetch, push, pop | forwards every batch unchanged |
| Spawner | `dispatcher.hpp` 413-582 | cursor, `txn_log_id`, statistics | front, prefetch, `dispatch_one` per entry, pop, announce | dispatches what the Indexer prepared, in the order of the log |
| SPSC rings | `rigtorp::SPSCQueue` (external) | at most `CHANNEL_SIZE` ints | push (spins when full), front, pop | bounded, first in first out |
| FileDispatcher | `dispatcher.hpp` 20-251 | one cursor per phase | the stages in one thread, for builds without `CORE_PIPE` | as above |
| verona-rt | external; `app/*.cc`, `app/atomic_exchange_profile.cpp` | a queue per cown, the workers | `when`, run, release | isolation, spawn order on conflicts, no deadlock |
| YCSB | `app/ycsb.cc`, `app/ycsb/` | rows | `prepare_cowns`, `prefetch_cowns`, `parse_and_process` | equal to serial execution of the log |
| TPC-C | `app/tpcc.cc`, `app/tpcc_macros.m4`, `app/tpcc/` | nine tables | NewOrder, Payment, loader | key hashes in range, orders complete, quantities legal |
| Chain | `app/chain.cc`, `app/chain/` | resources and users, one cown each | `prepare_cowns`, `parse_and_process` of Mixed, Nft, P2p, Dex | a request waits for the rows its entry names and no others, and is executed in order |
| statistics | `src/doradd/txcounter.hpp`, `dispatcher.hpp` | `counter_map`, `log_map`, a `tx_cnt` per worker | register, count, sample, announce | every transaction counted once; announced rates are real |
| shutdown | `src/doradd/pipeline.hpp` 149-185 | the four threads, the log file | cancel, flush, destroy | no lost sample |
| pipeline profile | `app/pipeline-profile/` | chain of cores with rings | run, terminate | cores stay in step, and all terminate |
| prefetch experiments | `app/prefetch/` | hash map; coroutines, their ring and frame allocator | insert, remove, three lookups of many values; interleaved binary searches | the variants agree; no search is lost |
| transaction profile | `app/txn_profile.cpp` | rows | variants of the YCSB transaction | the variants agree |
| arrivals, generators, huge pages, pinning | `src/misc/`, `app/*/gen-log/`, `hugepage.hpp`, `pin-thread.hpp` | - | random numbers, system calls | - |

Hard here:

- four threads walk one log with four cursors that are never compared: they
  agree only because they see the same batch sizes, and the rewind tests of the
  Indexer and of the other two stages differ;
- what a thread may read (an arrival time, a `cown_ptr` in the log) is handed
  over through a counter and two rings, never through a lock;
- rings are bounded, so a stage waits for the stage after it while it holds a
  batch of the stage before it;
- lambdas access rows without locks, on any worker, and join the queues of up
  to ten cowns one atomic exchange at a time;
- TPC-C's NewOrder lambdas insert into tables that are not cowns, under keys
  computed from ids, and race on the tables' row counters;
- the dispatching thread sums the workers' counters while they count, without
  the mutex that registration takes, and may take the map for complete while the
  last worker is still in its constructor;
- several members are read before they are written (`batch` in the Indexer,
  `counter_registered` and `tx_exec_sum` in the Spawner, `look_ahead` in
  FileDispatcher);
- nothing synchronises shutdown with the workers;
- the rows of an application lie in one allocation at offsets computed from ids,
  and a row's address is its cown: an overlap would not crash, it would make
  strangers wait for each other;
- the profile's cores count to their end separately, with rings between them on
  which a core spins;
- nanotest's scheduler is a ring that cannot tell full from empty, and a
  coroutine that suspends hands control to another one.

`PROJECT.json` lists these hazards line by line with the properties aimed at
each.

## Modules

- **`Pipeline`** - the four threads, the two rings and the counter, in the
  build `CORE_PIPE`, `INDEXER` (the one `app/CMakeLists.txt` selects) with
  `RPC_LATENCY`. One action per step that another thread can observe: the store
  of the arrival time and the `fetch_add` are two actions, so are the
  Prefetcher's push and pop; a `prepare_cowns` and a `dispatch_one` are one
  action each. A cursor (pointer plus index, advanced and reset together) is its
  index. `batch` starts with any machine word. Ring elements carry the batch
  size and, as an auxiliary field no action reads, the number of requests taken
  so far. Prefetching changes no state and only moves cursors. Unsigned
  subtraction wraps at `WordMod`.
- **`Runtime`** - cowns, behaviours, workers. `Spawn` is the `when` in
  `parse_and_process`, `Exchange(c)` the atomic exchange of a cown's last slot
  (of which `app/atomic_exchange_profile.cpp` 86-93 is a micro-benchmark), `Start`
  and `Finish` a worker entering and leaving a lambda. verona-rt is an empty
  submodule here, so these three are external. What a `when` names is the application's choice (`Whens`), made when
  it is spawned and kept in `cownsOf`; `MCRuntime` lets it be any of six sets.
- **`SerialExecution`** - the abstract specification: the database steps through
  the log, one whole transaction per step. What a transaction does is stated
  declaratively (each row written gets the sum of the rows read before it).
- **`Ycsb`** - the transaction of `app/ycsb.cc` executed row by row on
  `Runtime`, with the local `sum`, bytes that wrap, `memset` of the first
  `WRITE_SIZE` bytes and the worker's transaction counter. `Deterministic` is
  the refinement of `SerialExecution`: a transaction takes effect abstractly
  when it is spawned, and the abstract database is the concrete one with what is
  left of every spawned transaction applied in log order (`After`, a recursive
  function over the log, with `RunFrom` for a transaction that is half done).
  `MCYcsb` chooses the log.
- **`FileDispatcher`** - the dispatcher of builds without `CORE_PIPE`: one thread
  that prepares and dispatches a batch in two loops, with a cursor each and
  `idx` to decide when to rewind all of them. `look_ahead` starts with any
  machine word.
- **`TxCounter`** - the workers' counters, which the next two modules share.
- **`Statistics`** - a worker's registration in `counter_map` (the constructor of
  `TxCounter`, under the mutex), `incr`, and the dispatching thread's
  `track_worker_counter`, `calc_tx_exec_sum` (one counter per step, without the
  mutex) and announcements. For a reader without the mutex the registration is
  three steps: `operator[]` links a node with a null pointer, which `size()`
  counts from then on (`LinkNode`), `&tx_cnt` is stored in it (`StorePointer`), and
  the constructor returns. A sum that comes to a null pointer ends the process
  (`ReadNull`). `spawn_sum` is Spawner's `tx_spawn_sum`.
  `InitRegistered` and `InitExecSum` are what the members hold at first:
  FileDispatcher's constructor sets them, Spawner's does not.
- **`Shutdown`** - from the sleep at the end of `build_pipelines` to the abort of
  the process: workers that go on logging latencies, the flush loop over their
  vectors, stdio's buffer, and the destruction of a joinable thread. `log_latency`
  looks at `tx_cnt` before the transaction is counted (YCSB, Payment) or after it
  (`NEWORDER_END`), so `Execute` takes either count.
- **`MCDispatcher`** - `FileDispatcher`, `Statistics` and `Shutdown` side by side;
  `view` says which of them a behaviour is about.
- **`Tpcc`** - NewOrder and Payment on the runtime, with and without
  `WAREHOUSE_SPLIT` (in which a transaction is two behaviours). The rows a lambda
  names in its `when` change in one step, which `TpccIsolation` justifies; the
  inserts into the tables that grow are separate steps, and `cnt++` is a load
  and a store. Numeric columns are kept, text and prices left out (nothing reads
  them). Rows of the growing tables are the ids their keys are computed from.
  The loader is `Init`. A cown is the address of its row in the one allocation of
  `SINGLE_TABLE`, which `app/CMakeLists.txt` builds by default: the table's
  offset plus the row's hash key times its size. `MCTpcc` chooses the logs.
- **`Chain`** - the blockchain application on the whole system: it composes
  `Pipeline` (as `P`) and `Runtime` (as `R`), whose common part is the Spawner's
  thread and the log. The Indexer's `prepare_cowns` writes addresses into the
  entry's `cown_ptrs`; the Spawner's `dispatch_one` makes a `when` of the
  addresses it finds under its own cursor and joins their queues; workers run the
  lambdas, which spin and count. `T` is the build (`TxnType`). The switch over
  `num_writes` is `MixedCases` and `CownsToTake`: its 38 cases differ only in
  their number, which was compared mechanically for `GET_COWN`, `when` and the
  parameters of all of them. A `num_writes` above 38 is excluded by
  `ChainAssumption`: the arrays of an entry have that many places. `MCChain` chooses a log per build.
- **`ProfilePipeline`** - `app/pipeline-profile`: FirstCore, Workers and LastCore
  with a cursor and a termination count each, the rings between them, LastCore's
  reports, and main's joins.
- **`Nanotest`** - `app/prefetch/coro_bin_search`: main's loop over one of three
  algorithms. The state machine's frames and the coroutines advance one round of
  the search per step; the ring, the throttler and the frame allocator are as in
  `coro_infra.h`, and live on from one repetition to the next. `streams` is any
  number from 1 to `MaxStreams`, also one that fills the ring; `RingFits` says that
  it does not. `binarySearch` of
  `app/prefetch/bin_search` is here, too.
- **`HashMap`**, **`ValueSet`** - `fast_hash_map` with its buckets and three
  lookups of many values, and the abstract set it implements (`IsASet`).
- **`TxnProfile`** - the three bodies of `app/txn_profile.cpp` and the generator
  of their transactions, compared with `SerialExecution`'s transaction.
- **`MCExperiments`** - the four small programs side by side; `program` says which
  of them runs.
- **`PipelineProofs`**, **`RuntimeProofs`**, **`YcsbProofs`**, **`ChainProofs`**,
  **`TpccProofs`** - the theorems about the module each is named after;
  **`DispatcherProofs`** - about `FileDispatcher`, `Statistics` and `Shutdown`;
  **`ExperimentsProofs`** - about `Nanotest`, `HashMap` and `ProfilePipeline`;
  **`SumTheorems`** - lemmas about sums over finite sets, which they share.

Operators whose comment begins with *Mutant* are plausible slips in the code
(a dropped guard, an off-by-one, a missing reset). They are not used; swapping
one in for the definition it mutates makes a property of the runs fail.

## Runs

| run | checks | shows |
|---|---|---|
| `pipeline` | `TypeOK`, `StampedBeforeDispatch`, `BatchesConserved`, `EntryInLog`, `PreparedBeforeDispatch`, `CursorsMeet`, `EveryRequestDispatched` | Although the stages rewind independently, and the Indexer by another rule, every entry the Spawner dispatches within two laps has been prepared and every arrival time it reads has been written; Prefetcher and Spawner walk through the same entries of the log, and the Indexer leaves it by less than a batch; no batch is lost or resized in the rings, and every request is dispatched. Deadlock is checked: the only state without progress is the drained one. |
| `pipeline_prepared` | `AlwaysPrepared` (violated) | see Findings |
| `pipeline_indexer` | `IndexerInLog` (violated) | see Findings |
| `chain` | `NamesItsRows`, `ConflictsAreRows`, `RequestOrder`, `ExecutedAreCounted`, `EveryRequestExecuted` | From arrival to the lambda's return, in all four builds: what a request waits for is what its entry names, although another thread wrote the addresses; no two rows share a cown; conflicting requests execute in order; every request is executed and counted, but for those of Mixed that write nothing. |
| `runtime` | `Isolation`, `SpawnOrder`, `EveryTxnFinishes` | Whatever is spawned, joining queues one at a time neither deadlocks nor reorders conflicting behaviours. |
| `ycsb` | `Deterministic` | Parallel row-by-row execution implements serial execution, from any contents of the rows; lambdas without a common row run at the same time. |
| `dispatcher` | `FdPrepared`, `FdTerminates`; `SumOnQuietMap`, `SumWasRight`; `NeverReallocated`, `LoggedArePrinted`, `LossIsOneBuffer` | One thread with three cursors prepares what it dispatches in every lap and ends after exactly `RPC_LOG_SIZE` requests. With the members FileDispatcher's constructor sets, the unlocked sum begins when every worker's node is linked and at most the last one's constructor is still running, and it is a number that was right at some time while it was computed, never less than the one before it. The flush loop prints all that was logged before it began although workers go on logging, since their vectors never outgrow what they reserved; of that, the abort loses less than one buffer. |
| `tpcc` | `StockInRange`, `OrdersComplete`, `KeysInTable`, `ConflictsShareRows` | Two warehouses with remote stock: quantities stay between 10 and 100, no order is lost, keys stay in their tables, and transactions wait for each other only if they share a row. |
| `tpcc_split` | `CntAtMostInserted`, `YtdConsistent`, `SameOrderIds` | With `WAREHOUSE_SPLIT` and districts in parallel, order ids are those of the serial execution; in every state a warehouse and its districts have received the same payments, but for those whose other half is still to come; and the racing `cnt` never overtakes the inserts (it may fall behind them). |
| `tpcc_lines` | `OrderLinesKept` (violated) | see Findings |
| `experiments` | `SumIsRight`, `RingIsFaithful`, `FramesBounded`, `BinarySearchIsRight`, `NanotestTerminates`; `IsASet`; `ProfilesYcsb`; `InStep`, `NoBatchLeft`, `AllJoined` | The three algorithms of nanotest add up to the same sum, and as long as there are fewer coroutines than places the ring loses none and memory is bounded; the hash map is a set whichever lookup is used; the profiled bodies agree, also on a row named twice, and do what YCSB's transaction does; the profile's cores stay in step, leave no batch behind and are all joined. |
| `nanotest_streams` | `SumForAnyStreams` (violated) | see Findings |

`PreparedBeforeDispatch` is limited to the first `2 * (Count - MaxBatch + 1)`
requests, because beyond them it is false (`pipeline_prepared`). The shipped
constants (`RPC_LOG_SIZE` = log entries = 1,000,000, `MAX_BATCH` 4) are within
the limit.

## Bounds

- `Pipeline`: in `pipeline` a log of 7 entries with `MaxBatch` 3, rings of one
  batch and 10 requests, two shortest laps of 5. What matters is that batches of
  every size occur, that rings fill, and that all stages rewind at least once,
  each after laps of every length between `Count - MaxBatch + 1` and `Count`.
  `pipeline_indexer` uses the same values. The theorems hold for all values.
- `WordMod` stands for 2^32 and 2^64; it only has to exceed
  `Count + MaxBatch`, and every value below it occurs as the uninitialized
  `batch`.
- `Runtime`: every sequence of four `when`s out of six sets of three cowns, with
  two workers, so that a ring of pairwise conflicts, behaviours without cowns,
  on all of them and on one occur in every order. The safety theorems hold for
  all values.
- `Ycsb`: four transactions, three rows of two bytes of which one is written,
  bytes modulo 3, two workers, every initial contents. The first and the second
  transaction share no row, nor do the second and the fourth, or the third and
  the fourth, so two lambdas are in their bodies at once; the third conflicts
  with the first two, the fourth with the first. Two read a row and write
  another, one only writes, one only reads. Fewer bytes than two would
  not tell the written prefix from the rest; modulo 2 would lose the difference
  between adding and exclusive-or.
- `FileDispatcher`: 5 entries, batches of at most 3, 9 requests: two to three laps,
  of every possible length. The safety theorems hold for all values.
- `Statistics`: three workers (two that register while the third counts), 7
  transactions in batches of 1 or 2, an announcement every 2 or 3, so that some
  come before all workers are known, some after, and some while the last one
  registers.
- `Shutdown`: three workers, 7 transactions, one or two in three logged, vectors
  that reserve exactly what one worker may log (5), a buffer of three values. The
  shipped numbers (1,000,000 transactions, one or two in 10, 400,000 reserved)
  satisfy the same assumption with more room.
- `Tpcc`: logs of four or five transactions on two workers (in `tpcc_split` three
  NewOrders and two Payments, of two districts of one warehouse); two warehouses, or two to
  three districts of one; initial quantities 10 (the smallest) and 29 (from
  which two orders of 10 pass the restocking limit).
- `Chain`: four requests on a log of four entries with batches of at most 2, so
  that cursors may be rewound before the last request; rings of one batch; two
  resources and four users; two workers. Mixed writes two rows, none and one.
- `ProfilePipeline`: five cores, rings of 2, batches of 2 in a log of 5 (not a
  multiple), a termination count of 13 (not a multiple either) and a report after
  3 batches. The safety theorems hold for all values.
- `Nanotest`: 4 lookups with keys in, between and at the ends of 3 elements, in
  every combination, 1 to 4 streams, a ring of 4 handles, two repetitions: the
  ring wraps, the throttler meets its limit, frames are reused. `nanotest_streams`
  has a ring of 2 and 2 streams. `binarySearch` is
  evaluated for arrays of up to 6 elements.
- `HashMap`: four values in two buckets, queries of 1 and 5 values with a
  look-ahead of 2, so that the ring of hashes is overwritten and a batch is left
  incomplete.
- `TxnProfile`: two transactions of 3 rows out of 3, rows of 2 bytes of which one
  is written, every initial contents and every draw.

## Fairness

`Pipeline.Fairness` is weak fairness of each of the four threads: each is pinned
to a core of its own (`pin_thread` in `build_pipelines`) and busy-waits, so it
takes a step whenever it can. Only one thread consumes what another produces, so
weak fairness is enough. `RtFairness` is weak fairness of the Spawner and of
each worker, not of a particular behaviour: which ready behaviour a worker takes
is the scheduler's choice. Lambdas contain no loop that may run for ever and do
not block. `MCDispatcher.DpSpec` assumes weak fairness of RPCHandler and of the
dispatcher, which `build_pipelines` pins to a core each and which spin.
`Chain.FairSpec` is weak fairness of the four threads of the pipeline, where the
Spawner's includes the exchanges of its `when`, and of each worker.
`MCExperiments.Fairness` is weak fairness of nanotest, which is one thread that
never blocks, and in the pipeline profile of every core (pinned by
`runPipeline`, and spinning) and of main's joins. The other modules state no
liveness property and assume no fairness.

## Proofs

All proofs are checked by TLAPS for every value of the constants that satisfies
the modules' assumptions. The theorems about applications rest on those about the
parts below them: `ChainProofs` and `TpccProofs` first show that every step of the
application is a step of `Runtime` (and of `Pipeline`, for `Chain`) or leaves it
alone, and then use `RtIInv` and `IInv` as their own; `YcsbProofs` likewise.

Sums and recursive functions need induction over data. `NatSetInduction` in
`SumTheorems` is induction over the natural numbers for a set instead of a
predicate, proved from the well-foundedness of `<`. From it follow the equation
of `SumFunctionOnSet` (which the community modules define by a `CHOOSE` of a
recursive function: that one exists has to be shown first), what adding, removing
or changing one summand does, and the bounds of a sum. The recursive functions of
`Ycsb`, `SerialExecution` and `Nanotest` are treated the same way: their equation
has a solution, so they satisfy it, and what they compute follows by induction.

**Pipeline**, from `PipelineAssumption` (a log at least as long as a batch,
rings with room for one batch, words large enough for `Count + MaxBatch`). None
of the properties is inductive: each speaks of the Spawner, and what the Spawner
sees was decided by the Indexer several steps earlier. `IInv` adds

- `RpcInv`: which arrival times are stored, from `i` and `avail_cnt`;
- `IxInv`: the batch being prepared is between 1 and `MaxBatch`, although the
  first value of `batch` is arbitrary;
- `ChainInv`: the two rings hold adjacent intervals of request numbers, the
  first ring ending where the Indexer has got to, the second ending where the
  first begins, and starting where the Spawner is. The lemmas `ChainAppend` and
  `ChainTail` say what push and pop do to such a chain;
- `CursorInv`: before the first rewind a cursor equals the requests its stage
  has seen; later it is bounded by the log;
- `PrepareInv`: which entries have been prepared, from what the Indexer has
  taken.

There is one lemma per action. `Invariance` combines them, and `TypeCorrect`,
`StampedBeforeDispatchHolds`, `BatchesConservedHolds`, `EntryInLogHolds`,
`IndexerInLogOnceHolds`, `CursorsMeetHolds`, `PreparedBeforeDispatchHolds` and
`BackPressureHolds` follow.
`PreparedBeforeDispatchHolds` is the delicate one: `CursorInv` says that after
its first rewind the Spawner's cursor is at least a shortest lap behind its
request number, so within two shortest laps it stays on entries of the shortest
lap, and `PrepareInv` says that those are prepared in the first lap, before the
Spawner can get past them. `EntryInLogHolds` needs `IxCursorInv` besides: a
batch of the Indexer begins at an entry of the log, wherever it ends. `IndexerInLogOnceHolds` is the part of it that keeps the Indexer in
the log: at most as many requests as entries. `CursorsMeetHolds` needs `WalkInv`:
the cursor that the Prefetcher had after each batch in the ring is the one the
Spawner will have after it.

**Runtime**, from `RuntimeAssumption` (behaviours name cowns). `RtIInv` says
that the queue of a cown holds, in increasing order, exactly the unfinished
behaviours that name it and have joined it, and that a running behaviour is
first in all its queues. `IsolationHolds` and `SpawnOrderHolds` follow: the
head of a queue is unique and smallest.

**Ycsb**, from `YcsbAssumption` (the rows of a transaction are distinct rows of the
database). `DeterministicHolds` is the refinement of `SerialExecution` for any log,
any rows and any number of workers. `YcsbInv` says that behaviours name the rows
of their transactions, and that a lambda's locals are those of a running lambda.
A spawn is one abstract transaction. For every other step the abstract database,
`After`, must not change: a worker's step on one row changes `payload` and what is
left of its own transaction so that the two cancel out; that no other transaction
notices follows from `RtIInv`. Earlier conflicting transactions have finished,
later ones have not begun, and transactions without a common row commute.

**Chain**, from `ChainAssumption` (entries name different rows that exist; no more
requests than entries and than two shortest laps, within which
`PreparedBeforeDispatch` holds). `ChainIInv` adds `PtrsInv` (an entry that the
Indexer has prepared holds the addresses of the rows it names) and `EntryInv` (a
behaviour waits for the addresses of the rows of its entry, and every dispatch has
made a behaviour or been skipped). The pipeline's theorems supply that the Spawner
dispatches only prepared entries of the log. `NamesItsRowsHolds` follows;
`ConflictsAreRowsHolds` since different rows have different addresses, and
`RequestOrderHolds` from the runtime's `SpawnOrder`. `ExecutedAreCountedHolds`
adds `CountInv`: the workers' counters add up to the finished behaviours, and only
Mixed entries that write nothing were skipped.

**FileDispatcher**, from `FdAssumption`. `FdPrepared` relates the cursors of two
loops; `FdIInv` adds `Requests` (the requests dispatched are those of handled
batches and of the batch in progress, all of which arrived), `Cursors` (the
three cursors coincide between batches and differ by the loop's counter within
one, and a batch begins where a full one still fits) and `Filled` (the entries
of the batch in progress that are prepared so far). `FdTypeCorrect`,
`FdPreparedHolds` and `FdInLogHolds` follow.

**Statistics**, from `StatisticsAssumption` and, as hypotheses of the theorems,
from what FileDispatcher's constructor sets: `InitRegistered = {FALSE}`, and for
`SumWasRightHolds` also `InitExecSum = {0}`. Without them, as in Spawner, the
properties are false. `MapInv` says that once `counter_registered` holds all workers'
nodes are in the map, since a map of as many nodes as there are workers has all of
them, and that the mutex lets one constructor at most run. It does not say that all
constructors have returned, which is false (`ReadNull`). `SumInv` bounds the sum in progress: together with what the counters still to
be read hold by now, it lies between what had been executed when summing began and
what has been executed since.

**Shutdown**, from `ShutdownAssumption` (the vectors reserve what all requests
would log on one worker). `ShIInv` consists of `Sampling` (a worker has logged at most
two in `SAMPLE_RATE` of its transactions, and all have executed at most `NumTxns`), `Flushing` (what the loop has passed is printed as far as it was logged
when the loop began) and `Buffering` (what was printed is on disk or in the buffer,
which is never full). `NeverReallocatedHolds`, `LoggedArePrintedHolds` and
`LossIsOneBufferHolds` follow.

**Tpcc**, from `TpccAssumption` (the sizes are numbers, orders have at most 15 lines
of different items and 1 to 10 pieces, as the generator draws them).

- `TpccIsolation`: every step of `Tpcc` is a step of `Runtime` or leaves it alone,
  so lambdas that share a row never overlap, which is what makes one step per
  lambda's row updates faithful.
- `StockInRangeHolds`: the subtraction before the comparison never wraps and the
  restocking brings every quantity back to 10..100 (`RestockInRange` is the
  arithmetic).
- `ConflictsShareRowsHolds`: `RowAddrInjective` shows that the offsets of the tables
  and the hash keys in them keep all rows apart.
- `OrdersCompleteHolds`: `InsertsInv` says that what a lambda has yet to insert are
  an order, a new order and lines under the keys of an id that its district gave
  out; `OrdersInv` that every id given out is at its key or about to be. Below the
  limit different ids have different keys, so no insert replaces another's row.
- `KeysInTableHolds`, with the hypothesis `LogFits`: all order keys of the districts
  and one more per entry of the log fit the smallest table, that of new orders
  (whose size is computed from the smaller number of initial new orders), and there
  is an initial order, without which the key of an order line would be negative. It
  does not ask how the orders are distributed. With the shipped constants it is
  10 * 6840 + `Len(Log)` <= 1,422,000, so logs of up to 1,353,600 entries satisfy
  it, the generator's 1,000,000 included. Such a log has more orders of a district
  than keys reserved for it, so that districts replace each other's orders
  (see Findings), but no insert is outside its table. The argument: an id that a
  district gives out is at most the initial ones plus the entries of the log.
- `SameOrderIdsHolds`: `IdsInv` says that a district has given out as many ids as
  NewOrders of it have begun; by the runtime's `SpawnOrder` those are exactly the
  ones before the NewOrder in the log.
- `YtdConsistentHolds`: `WarehouseInv` and `DistrictsInv` say that a warehouse, and
  its districts together, have received the amounts of the entries whose payment
  has begun. The two sets differ by the entries of which one behaviour has begun and
  the other has not, and sums over them by those entries' amounts (`SumUnion` of
  `SumTheorems`).
- `CntAtMostInsertedHolds`: `CntInv` bounds `cnt` and also the values of it that
  interrupted `insert_row`s have read, which may be stale but only too small.

**Nanotest**, from `NanotestAssumption` (the sizes are numbers, the ring has a
place). The theorems say `RingFits => ...` for the coroutines: with `N` streams or
more they are false (`nanotest_streams`); the naive search and the state machine may
have any number. `algo` and `streams` never change (`ArgumentsStay`), so `RingFits`
is decided once. `NtInv` says that the ring holds every suspended coroutine once (`Scheduled`), who
may run at each point of the throttler (`Control`), and that the limit, the ring and
the running coroutine add up to `streams`, and the frames allocated to those in use
and on the free list (`Limits`). `RingIsFaithfulHolds` and `FramesBoundedHolds`
follow. `SumIsRightHolds` and `BinarySearchIsRightHolds` add `SumInv`: every live
frame still has its key in the part of the array left, or nowhere (`LiveSearch`,
`SmSearch`), and the lookups that were answered are counted right (`CoroCounts`,
`SmCounts`, `Totals`). `StepDoes` is one round of the search, `NaiveIsPresent` and
`BinarySearchDoes` the two loops, by induction over the rounds.

**HashMap**, from `HashMapAssumption`. `IsASetHolds` is the refinement of `ValueSet`.
`HmInv`: a value is in the bucket of its hash, and there once, so that a find may
look at one bucket and a remove take out one place. For the interleaved lookup, the
ring of hashes holds those of the next `look_ahead` values (`InWindow`,
`WindowMoves`), so every value is looked up under its own hash (`HashIsInRing`).

**ProfilePipeline**, from `ProfileAssumption`. `InStep` and `NoBatchLeft` compare
neighbours that never look at each other's counts. `PpInv` adds

- `Balance`: what core i has processed more than core i + 1 is in the ring
  between them or in their hands: `BATCH_SZ` per element of the ring, plus the
  batch that core i is about to push, less the one that core i + 1 has processed
  and not popped yet;
- `HoldsInput`: a core about to push or to pop has its batch still in its input
  ring, so that a pop never finds the ring empty;
- `StopsInTime`: no core has processed `TERMINATION_COUNT + BATCH_SZ` or more;
- `ReportBalance`: LastCore's batches are those of its reports and `tx_cnt`,
  which does not pass its limit.

`CoresInStep` follows since a ring holds at most `BUF_SZ`, and `RingsEmptied`
since the counts of two cores that have ended differ by less than a batch, so
that by `Balance` there is not one in the ring. `TypeCorrect`, `CursorsInLog` and
`ReportsAddUp` are parts of the invariant.

`RtTypeOK`, `FdTypeOK`, `FdInLog`, `BackPressure`, `PpTypeOK`, `CursorInLog` and
`ReportsCountBatches` are theorems that no run repeats.

## Findings

- `AlwaysPrepared` (`dispatcher.hpp` 311): the Indexer rewinds by the size of
  the previous batch, the Spawner by `MAX_BATCH`. Their cursors disagree after
  the first lap, and after two laps the Spawner can dispatch an entry whose
  `cown_ptrs` the Indexer has skipped. Without `RPC_LATENCY` RPCHandler never
  stops, so the third lap happens.
- `IndexerInLog` (`dispatcher.hpp` 319): for the same reason a batch larger than the
  previous one may begin where it no longer fits, and `prepare_cowns` writes up to
  `MAX_BATCH - 1` entries past the end of the log. With a log of 7 entries: six
  batches of 1, then one of 3. Line 307, `int batch; // = MAX_BATCH;`, has the value
  that would do. It takes more requests than entries (`IndexerInLogOnceHolds`), so
  a build with `RPC_LATENCY` and logs of 1,000,000 entries does not do it.
- `OrderLinesKept` (`app/tpcc.cc` 26): `INSERT_ORDER_LINE` passes the order's
  hash key where `OrderLine` expects the order id, so the district counts twice
  in the line's key and lines of different orders share a key, against "primary
  key: (w_id, d_id, o_id, number)" (`app/tpcc/tables.hpp` 108).
- `SumForAnyStreams` (`coro_infra.h` 18): the ring of 256 handles is full with 256
  streams, and then looks empty: coroutines are lost, and the sum is wrong, against
  the usage's "<streams>: 1 - whatever" (`nanotest.cpp` 87; 119-121 accept it). The
  frames of lost coroutines are never freed.

Seen while modelling, and not stated as a run:

- `dispatcher.hpp` 534 and 370: the cursors are rewound at the first batch
  boundary after `read_count - MAX_BATCH`, so where a log of as many entries as
  requests is rewound depends on how the arrivals were split into batches: up to
  `MAX_BATCH - 1` of the last entries may be replaced by the first ones.
  `README.md` line 5, "given exactly the same input, it will produce the same
  output", holds if the arrivals are part of the input.
- `dispatcher.hpp` 522: the Spawner leaves its loop only when `txn_log_id` exceeds
  `RPC_LOG_SIZE`, which as many requests never make it; the process ends in
  `Shutdown`'s `Terminate` all the same.
- `pipeline.hpp` 185: the lambda that prints "flush latency stats" neither flushes
  nor closes `res_log_fd` and ends by destroying joinable threads, which aborts
  the process with values in stdio's buffer; `LossIsOneBuffer` bounds them.
- `dispatcher.hpp` 474 and 481: `counter_map->size()` is read without the mutex and
  already counts the node of a worker whose constructor has not stored `&tx_cnt` yet
  (`txcounter.hpp` 60), so the sum may begin while the last worker registers, and
  read through its null pointer. It is `ReadNull` in `Statistics`; announcements are
  1,000,000 transactions apart, so it takes a worker that gets its first one late.
- `txcounter.hpp` 64: `log_map` is filled in the same way, and the flush loop at the
  end of `build_pipelines` reads it without the mutex.
- `tpcc.cc` 176: NewOrder counts before it logs, Payment after, so a NewOrder that
  brings `tx_cnt` to a multiple of `SAMPLE_RATE` and a Payment after it are both
  logged, up to two in `SAMPLE_RATE`; `NeverReallocated` allows for it.
- `hashmap.hpp` 94: `values.size() - look_ahead` wraps for a query shorter than
  `look_ahead`. `FindMultipleInterleave` is defined for the others only.
- `txn_profile.cpp` 55: a number drawn twice leaves a slot of the uninitialized
  array as it is, which may name a row twice (modelled) or none (not modelled).
- `core.hpp` 148: what LastCore prints as "txn/s" counts batches.
- `app/tpcc/entries.hpp` 151: a district has
  `INITIAL_ORDERS_PER_DISTRICT + MAX_ORDER_TRANSACTIONS` order keys, and a longer
  log (the shipped one has about 50,000 orders of a district, for 3,840 keys) runs
  into the next district's. `OrdersComplete` is stated below that limit; above it
  `KeysInTableHolds` still keeps the keys in the table.
- `dispatcher.hpp` 463-470: Spawner's constructor sets neither
  `counter_registered` nor `tx_exec_sum`, which FileDispatcher's does; the first
  announcement depends on them, and so does `SumOnQuietMap`.
- `dispatcher.hpp` 230: `tx_spawn_sum` adds `look_ahead` before the round sets it,
  so it lags a batch behind; the flow control that would read it, with
  `assert(tx_spawn_sum >= tx_exec_sum)` on line 198, is compiled out.

## Only model-checked, not modelled

Liveness (`EveryRequestDispatched`, `EveryTxnFinishes`, `FdTerminates`,
`EveryRequestExecuted`, `NanotestTerminates`, `AllJoined`) rests on fairness, which
is out of the prover's reach, and is checked by TLC only. So is `ProfilesYcsb`: it
compares three ways of folding a sequence with masks that are powers of two, and
its proof is still to be written. Every other property of the passing runs is also
proved. `AlwaysPrepared`, `IndexerInLog`, `OrderLinesKept` and `SumForAnyStreams` are false
(Findings).

Not modelled: floating-point arrival distributions and the offline log
generators (random numbers; the models take any arrival times and any log with
what the generators guarantee), huge pages and pinning (system calls; that each
thread has a core is the fairness above), prefetch instructions (no state),
`app/prefetch/arr_seq` and the benchmark drivers (loops that are timed), the
times that lambdas spin and that profiles log, and `app/chain/generic_macros.hpp`
(a vendored preprocessor library).

## Plan

In this order, the most important behaviour first:

1. `Pipeline`, `Runtime`, `SerialExecution`, `Ycsb` and their proofs (done).
2. `FileDispatcher`, `Statistics`, `Shutdown` and their proofs (done).
3. `Tpcc`: NewOrder, Payment, the hash keys, the tables' row counters, the
   loader, the addresses of `SINGLE_TABLE`, and the proofs (done); its refinement to
   serial execution is left.
4. `Chain`, which composes `Pipeline` and `Runtime`, and its proofs (done).
5. `ProfilePipeline`, `Nanotest`, `HashMap` and their proofs, `TxnProfile` (done).

Theorems to come: `ProfilesYcsb` of `TxnProfile`; that `Tpcc` implements a serial
execution of its log, of which `SameOrderIds`, `YtdConsistent` and `StockInRange`
are parts.
