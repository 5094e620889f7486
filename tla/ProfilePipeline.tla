--------------------------- MODULE ProfilePipeline --------------------------
(***************************************************************************)
(* The pipeline profile, app/pipeline-profile: what passing batches from   *)
(* core to core over rings costs, without a database.  runPipeline starts  *)
(* a FirstCore, NumWorkers Workers and a LastCore, each on a pinned thread *)
(* with a cursor of its own over one log of ReadCnt entries:               *)
(*                                                                         *)
(*   core 0 --ring 0--> core 1 --ring 1--> ... --ring NumWorkers--> last   *)
(*                                                                         *)
(* Every core works through the log batch by batch until it has processed  *)
(* TERMINATION_COUNT entries, and main joins the threads.  What a ring     *)
(* carries is always BATCH_SZ and nobody reads it, so a ring is the number *)
(* of its elements; read_head moves with cnt, which is reset with it.      *)
(* ReadTxn reads an entry and WriteTxn stores 1 in it, whichever core runs *)
(* them: the entries are not part of the state.                            *)
(***************************************************************************)
EXTENDS Integers

CONSTANTS
  NumWorkers,        \* runPipeline's cnt
  ReadCnt,           \* read_cnt: the entries of the log
  BatchSz,           \* BATCH_SZ
  BufSz,             \* BUF_SZ
  TerminationCount,  \* TERMINATION_COUNT
  PrintEvery         \* LastCore reports after this many batches: 1,000,000

ASSUME ProfileAssumption ==
  /\ NumWorkers \in Nat /\ ReadCnt \in Nat
  /\ BatchSz \in Nat \ {0} /\ BatchSz <= ReadCnt
  /\ BufSz \in Nat \ {0} /\ TerminationCount \in Nat
  /\ PrintEvery \in Nat

Last  == NumWorkers + 1
Cores == 0..Last
Rings == 0..NumWorkers    \* ring i leads from core i to core i + 1

VARIABLES
  pc,             \* per core, "loop", "push" or "pop"
  cnt,            \* per core, its cursor in the log
  processed_cnt,  \* per core
  ring,           \* per ring, the elements in it
  tx_cnt,         \* LastCore's tx_cnt
  reports,        \* auxiliary: the reports LastCore has printed
  joined          \* main has joined the threads of the cores below this one

ppVars == <<pc, cnt, processed_cnt, ring, tx_cnt, reports, joined>>

PpInit ==
  /\ pc = [c \in Cores |-> "loop"]
  /\ cnt = [c \in Cores |-> 0]
  /\ processed_cnt = [c \in Cores |-> 0]
  /\ ring = [i \in Rings |-> 0]
  /\ tx_cnt = 0 /\ reports = 0
  /\ joined = 0

(* Mutant: a core that takes from a ring counts the batch in front of it.  *)
TerminateAhead(c) ==
  processed_cnt[c] + (IF c > 0 THEN BatchSz ELSE 0) >= TerminationCount

Terminate(c) == processed_cnt[c] >= TerminationCount

(* The head of dispatch_batch: back to read_top when no batch fits. *)
Rewind(n) == IF n > ReadCnt - BatchSz THEN 0 ELSE n

(* LastCore counts its batches, and starts over after a report. *)
CountBatch ==
  /\ tx_cnt' = IF tx_cnt >= PrintEvery THEN 0 ELSE tx_cnt + 1
  /\ reports' = IF tx_cnt >= PrintEvery THEN reports + 1 ELSE reports

(* Mutant: a core does not look at its input ring before it dispatches. *)
DispatchUnasked(c) ==
  /\ pc[c] = "loop" /\ ~Terminate(c)
  /\ cnt' = [cnt EXCEPT ![c] = Rewind(@) + BatchSz]
  /\ processed_cnt' = [processed_cnt EXCEPT ![c] = @ + BatchSz]
  /\ pc' = [pc EXCEPT ![c] = IF c < Last THEN "push" ELSE "pop"]
  /\ UNCHANGED <<ring, tx_cnt, reports, joined>>

(* front() of the input ring, which FirstCore has not, and dispatch_batch. *)
DispatchBatch(c) ==
  /\ pc[c] = "loop" /\ ~Terminate(c)
  /\ c > 0 => ring[c - 1] > 0
  /\ cnt' = [cnt EXCEPT ![c] = Rewind(@) + BatchSz]
  /\ processed_cnt' = [processed_cnt EXCEPT ![c] = @ + BatchSz]
  /\ pc' = [pc EXCEPT ![c] = IF c < Last THEN "push" ELSE "pop"]
  /\ UNCHANGED <<ring, tx_cnt, reports, joined>>

(* Mutant: a push to a full ring drops the batch. *)
TryPush(c) ==
  /\ pc[c] = "push"
  /\ ring' = [ring EXCEPT ![c] = IF @ < BufSz THEN @ + 1 ELSE @]
  /\ pc' = [pc EXCEPT ![c] = IF c > 0 THEN "pop" ELSE "loop"]
  /\ UNCHANGED <<cnt, processed_cnt, tx_cnt, reports, joined>>

(* SPSCQueue::push spins while the ring is full. *)
Push(c) ==
  /\ pc[c] = "push"
  /\ ring[c] < BufSz
  /\ ring' = [ring EXCEPT ![c] = @ + 1]
  /\ pc' = [pc EXCEPT ![c] = IF c > 0 THEN "pop" ELSE "loop"]
  /\ UNCHANGED <<cnt, processed_cnt, tx_cnt, reports, joined>>

(* The batch leaves the input ring only now that it is passed on. *)
Pop(c) ==
  /\ pc[c] = "pop"
  /\ ring' = [ring EXCEPT ![c - 1] = @ - 1]
  /\ pc' = [pc EXCEPT ![c] = "loop"]
  /\ \/ c = Last /\ CountBatch
     \/ c < Last /\ UNCHANGED <<tx_cnt, reports>>
  /\ UNCHANGED <<cnt, processed_cnt, joined>>

(* A core has left its loop. *)
Ended(c) == pc[c] = "loop" /\ Terminate(c)

(* main joins FirstCore, the Workers and LastCore, in this order. *)
Join ==
  /\ joined \in Cores /\ Ended(joined)
  /\ joined' = joined + 1
  /\ UNCHANGED <<pc, cnt, processed_cnt, ring, tx_cnt, reports>>

Exited == joined = Last + 1
Exit == Exited /\ UNCHANGED ppVars

Core(c) == DispatchBatch(c) \/ Push(c) \/ Pop(c)

PpNext == (\E c \in Cores : Core(c)) \/ Join \/ Exit

PpSpec == PpInit /\ [][PpNext]_ppVars

-----------------------------------------------------------------------------
(* Types; a ring never holds more than BUF_SZ elements nor fewer than none. *)
PpTypeOK ==
  /\ pc \in [Cores -> {"loop", "push", "pop"}]
  /\ cnt \in [Cores -> Nat] /\ processed_cnt \in [Cores -> Nat]
  /\ ring \in [Rings -> 0..BufSz]
  /\ tx_cnt \in Nat /\ reports \in Nat /\ joined \in 0..(Last + 1)

(* dispatch_batch reads and writes entries of the log only, whether or not *)
(* its length is a multiple of the batch.                                  *)
CursorInLog == \A c \in Cores : cnt[c] <= ReadCnt

(* A core never dispatches a batch that the core before it has not done,   *)
(* and the core before it is never further ahead than the ring and the     *)
(* batch in its hands: fixed batches need no size to be passed along.      *)
InStep ==
  \A i \in Rings :
    /\ processed_cnt[i + 1] <= processed_cnt[i]
    /\ processed_cnt[i] - processed_cnt[i + 1] <= (BufSz + 1) * BatchSz

(* Every core counts to TERMINATION_COUNT for itself, and yet they end     *)
(* with the same work: when a core has ended and so have those before it,  *)
(* its input ring is empty.  A batch left in a ring would mean that the    *)
(* core before it might have been spinning on a full one for ever.         *)
NoBatchLeft ==
  \A i \in Rings : Ended(i) /\ Ended(i + 1) => ring[i] = 0

(* Between two reports LastCore has dispatched PrintEvery + 1 batches: what *)
(* it prints as "txn/s" counts batches, of BATCH_SZ transactions each.     *)
ReportsCountBatches ==
  pc[Last] = "loop" =>
    processed_cnt[Last] = BatchSz * (tx_cnt + (PrintEvery + 1) * reports)

=============================================================================
