--------------------------- MODULE PipelineProofs ---------------------------
(***************************************************************************)
(* The safety properties of Pipeline, proved for every log length, batch   *)
(* size, ring capacity and number of requests.  The inductive invariant    *)
(* follows the batches through the two rings: the rings always hold        *)
(* consecutive intervals of request numbers, from what the Spawner has     *)
(* dispatched up to what the Indexer has taken.                            *)
(***************************************************************************)
EXTENDS Pipeline, SequenceTheorems, TLAPS

(* The requests in batches that the Indexer has pushed. *)
Taken == IF ix_pc = "check" THEN handled_req_cnt ELSE handled_req_cnt - ix_batch

(* A ring whose last batch ends at request number base: each batch starts  *)
(* where the one before it ends, and no batch is larger than MaxBatch.     *)
Chained(q, base) ==
  \A k \in 1..Len(q) :
    /\ q[k].end = IF k = Len(q) THEN base ELSE q[k + 1].end - q[k + 1].sz
    /\ q[k].end <= base
    /\ q[k].end - q[k].sz >= 0
    /\ base - q[k].end <= MaxBatch * (Len(q) - k)

(* Where the first batch of such a ring starts. *)
Start(q, base) == IF q = <<>> THEN base ELSE q[1].end - q[1].sz

(* The requests in batches that the Prefetcher has pushed. *)
Forwarded == IF pf_pc = "pop" THEN ring_idx_pref[1].end ELSE Start(ring_idx_pref, Taken)

(* The requests in batches before the one the Spawner works on. *)
Spawned == IF sp_pc = "front" THEN txn_log_id ELSE txn_log_id - sp_i

RpcInv ==
  /\ avail_cnt = IF rpc_pc = "add" THEN rpc_i - 1 ELSE rpc_i
  /\ rpc_pc = "add" => rpc_i > 0
  /\ log_arr = 0..(rpc_i - 1)
  /\ rpc_i <= RpcLogSize
  /\ handled_req_cnt <= avail_cnt

IxInv ==
  /\ ix_pc = "check" => handled_req_cnt = 0 \/ ix_batch \in 1..MaxBatch
  /\ ix_pc = "prepare" => ix_batch \in 1..MaxBatch /\ ix_i < ix_batch
  /\ ix_pc = "push" => ix_batch \in 1..MaxBatch /\ ix_i = ix_batch
  /\ Taken >= 0

ChainInv ==
  /\ Chained(ring_idx_pref, Taken)
  /\ pf_pc # "front" => ring_idx_pref # <<>>
  /\ Chained(ring_pref_disp, Forwarded)
  /\ sp_pc # "front" => ring_pref_disp # <<>>
  /\ sp_pc = "dispatch" => sp_i < ring_pref_disp[1].sz
  /\ sp_pc = "pop" => sp_i = ring_pref_disp[1].sz
  /\ Spawned = Start(ring_pref_disp, Forwarded)

(* Where the cursors are, before and after their first rewind. *)
LastStart == Count - MaxBatch

CursorInv ==
  /\ pf_idx <= Count
  /\ sp_idx <= Count
  /\ sp_pc = "dispatch" => sp_idx - sp_i <= LastStart
  /\ Spawned <= LastStart => sp_idx = txn_log_id
  /\ Spawned > LastStart =>
       \/ sp_pc # "dispatch" /\ sp_idx = txn_log_id
       \/ sp_idx <= txn_log_id - (LastStart + 1)

(* The log entries of the requests up to LastStart are prepared in order,  *)
(* and so is every entry of a batch that starts there.                     *)
Prepared(b) ==
  b.end - b.sz <= LastStart =>
    \A n \in (b.end - b.sz)..(b.end - 1) : n \in cown_ptrs

PrepareInv ==
  /\ ix_pc = "check" =>
       /\ handled_req_cnt <= LastStart => read_idx = handled_req_cnt
       /\ read_idx <= handled_req_cnt
  /\ ix_pc # "check" =>
       /\ Taken <= LastStart => read_idx = Taken + ix_i
       /\ read_idx <= Taken + ix_i
       /\ Taken <= LastStart => \A n \in Taken..(Taken + ix_i - 1) : n \in cown_ptrs
  /\ \A n \in 0..LastStart : n < Taken => n \in cown_ptrs
  /\ \A k \in 1..Len(ring_idx_pref) : Prepared(ring_idx_pref[k])
  /\ \A k \in 1..Len(ring_pref_disp) : Prepared(ring_pref_disp[k])

IInv == TypeOK /\ RpcInv /\ IxInv /\ ChainInv /\ CursorInv /\ PrepareInv

-----------------------------------------------------------------------------
(* What SPSCQueue::push does to a ring that is not full. *)
LEMMA AppendFacts ==
  ASSUME NEW q \in Seq(Batch), NEW e \in Batch
  PROVE  /\ Append(q, e) \in Seq(Batch)
         /\ Append(q, e) # <<>>
         /\ Len(q) \in Nat
         /\ Len(Append(q, e)) = Len(q) + 1
         /\ \A k \in 1..Len(q) : Append(q, e)[k] = q[k]
         /\ Append(q, e)[Len(q) + 1] = e
         /\ q = <<>> => Len(q) = 0
         /\ q # <<>> => Len(q) > 0
  BY AppendProperties, LenProperties, EmptySeq

(* What SPSCQueue::pop does to a ring that is not empty. *)
LEMMA TailFacts ==
  ASSUME NEW q \in Seq(Batch), q # <<>>
  PROVE  /\ Tail(q) \in Seq(Batch)
         /\ Len(q) \in Nat /\ Len(q) > 0
         /\ Len(Tail(q)) = Len(q) - 1
         /\ \A k \in 1..(Len(q) - 1) : Tail(q)[k] = q[k + 1]
         /\ Head(q) = q[1] /\ Head(q) \in Batch
         /\ Tail(q) = <<>> <=> Len(q) = 1
<1>1. Len(q) \in Nat /\ Len(q) > 0
  BY LenProperties, EmptySeq
<1>2. Head(q) = q[1] /\ Head(q) \in Batch /\ Tail(q) \in Seq(Batch)
  BY <1>1, HeadTailProperties
<1>3. /\ Len(Tail(q)) = Len(q) - 1
      /\ \A k \in 1..(Len(q) - 1) : Tail(q)[k] = q[k + 1]
  BY <1>1, HeadTailProperties
<1>4. Tail(q) = <<>> <=> Len(Tail(q)) = 0
  BY <1>2, EmptySeq
<1>5. Tail(q) = <<>> <=> Len(q) = 1
  BY <1>1, <1>3, <1>4
<1> QED
  BY <1>1, <1>2, <1>3, <1>5

(* A batch of size s that begins at b widens a gap of at most x by at most *)
(* a full batch.                                                           *)
LEMMA BatchGap ==
  ASSUME NEW b \in Nat, NEW f \in Nat, NEW x \in Int, NEW s \in 1..MaxBatch,
         NEW t, t = b + s, b - f <= x
  PROVE  t - f <= x + MaxBatch
  BY PipelineAssumption

(* A batch pushed onto a chained ring keeps it chained. *)
LEMMA ChainAppend ==
  ASSUME NEW q \in Seq(Batch), NEW base \in Nat, NEW e \in Batch,
         e.end = base + e.sz, Chained(q, base)
  PROVE  /\ Chained(Append(q, e), e.end)
         /\ Start(Append(q, e), e.end) = Start(q, base)
<1> USE PipelineAssumption
<1>1. /\ e.sz \in 1..MaxBatch /\ e.end \in Nat
      /\ \A k \in 1..Len(q) : q[k].sz \in 1..MaxBatch /\ q[k].end \in Nat
  <2>1. \A k \in 1..Len(q) : q[k] \in Batch
    BY ElementOfSeq
  <2> QED
    BY <2>1 DEF Batch
<1>2. Chained(Append(q, e), e.end)
  <2> DEFINE r == Append(q, e)
  <2> SUFFICES ASSUME NEW k \in 1..Len(r)
               PROVE  /\ r[k].end = IF k = Len(r) THEN e.end ELSE r[k + 1].end - r[k + 1].sz
                      /\ r[k].end <= e.end
                      /\ r[k].end - r[k].sz >= 0
                      /\ e.end - r[k].end <= MaxBatch * (Len(r) - k)
    BY DEF Chained
  <2> HIDE DEF r
  <2>1. CASE k = Len(q) + 1
    BY <2>1, <1>1, AppendFacts DEF r
  <2>2. CASE k \in 1..Len(q)
    <3>1. /\ r[k] = q[k] /\ Len(r) = Len(q) + 1
          /\ r[k + 1] = IF k = Len(q) THEN e ELSE q[k + 1]
      BY <2>2, AppendFacts DEF r
    <3>2. MaxBatch * (Len(r) - k) = MaxBatch * (Len(q) - k) + MaxBatch
      BY <3>1, <2>2, AppendFacts
    <3>3. MaxBatch * (Len(q) - k) \in Int
      BY <2>2, AppendFacts
    <3>4. /\ q[k].end = IF k = Len(q) THEN base ELSE q[k + 1].end - q[k + 1].sz
          /\ q[k].end <= base
          /\ q[k].end - q[k].sz >= 0
          /\ base - q[k].end <= MaxBatch * (Len(q) - k)
      BY <2>2 DEF Chained
    <3>5. k # Len(r) /\ Len(q) \in Nat
      BY <3>1, <2>2, AppendFacts
    <3>6. r[k].end = r[k + 1].end - r[k + 1].sz
      BY <3>1, <3>4, <1>1
    <3>7. e.end - r[k].end <= MaxBatch * (Len(r) - k)
      <4> DEFINE X == MaxBatch * (Len(q) - k)
      <4>1. e.end - q[k].end <= X + MaxBatch
        <5>1. X \in Int /\ base - q[k].end <= X
          BY <3>3, <3>4
        <5> HIDE DEF X
        <5>2. q[k].end \in Nat /\ e.sz \in 1..MaxBatch /\ e.end = base + e.sz
          BY <1>1, <2>2
        <5> QED
          BY <5>1, <5>2, BatchGap
      <4> QED
        BY <4>1, <3>1, <3>2
    <3>8. r[k].end <= e.end /\ r[k].end - r[k].sz >= 0
      <4>1. q[k].end \in Nat /\ e.end = base + e.sz /\ e.sz \in 1..MaxBatch
        BY <2>2, <1>1
      <4> QED
        BY <4>1, <3>1, <3>4, SMTT(30)
    <3> QED
      BY <3>5, <3>6, <3>7, <3>8
  <2> QED
    BY <2>1, <2>2, AppendFacts DEF r
<1>3. Start(Append(q, e), e.end) = Start(q, base)
  BY <1>1, AppendFacts DEF Start
<1> QED
  BY <1>2, <1>3

(* The first batch popped off a chained ring leaves it chained, and the    *)
(* rest starts where that batch ends.                                      *)
LEMMA ChainTail ==
  ASSUME NEW q \in Seq(Batch), NEW base \in Nat, q # <<>>, Chained(q, base)
  PROVE  /\ Chained(Tail(q), base)
         /\ Start(Tail(q), base) = q[1].end
         /\ q[1].end <= base
         /\ q[1].end - q[1].sz >= 0
<1> USE PipelineAssumption
<1>1. Chained(Tail(q), base)
  <2> SUFFICES ASSUME NEW k \in 1..Len(Tail(q))
               PROVE  /\ Tail(q)[k].end = IF k = Len(Tail(q)) THEN base
                                          ELSE Tail(q)[k + 1].end - Tail(q)[k + 1].sz
                      /\ Tail(q)[k].end <= base
                      /\ Tail(q)[k].end - Tail(q)[k].sz >= 0
                      /\ base - Tail(q)[k].end <= MaxBatch * (Len(Tail(q)) - k)
    BY DEF Chained
  <2>1. /\ k \in 1..(Len(q) - 1) /\ k + 1 \in 1..Len(q)
        /\ Tail(q)[k] = q[k + 1]
        /\ k # Len(Tail(q)) => Tail(q)[k + 1] = q[k + 1 + 1]
        /\ k = Len(Tail(q)) <=> k + 1 = Len(q)
        /\ Len(Tail(q)) - k = Len(q) - (k + 1)
    BY TailFacts
  <2> QED
    BY <2>1 DEF Chained
<1>2. 1 \in 1..Len(q) /\ Len(q) \in Nat
  BY TailFacts
<1>3. Start(Tail(q), base) = q[1].end
  <2>1. CASE Len(q) = 1
    BY <2>1, <1>2, TailFacts DEF Start, Chained
  <2>2. CASE Len(q) # 1
    BY <2>2, <1>2, TailFacts DEF Start, Chained
  <2> QED
    BY <2>1, <2>2
<1> QED
  BY <1>1, <1>2, <1>3 DEF Chained

-----------------------------------------------------------------------------
(* The facts of IInv about batches that the steps below keep using. *)
LEMMA ChainFacts ==
  ASSUME IInv
  PROVE  /\ Taken \in Nat /\ Taken <= handled_req_cnt
         /\ Forwarded \in Nat /\ Forwarded <= Taken
         /\ Spawned \in Nat /\ Spawned <= Forwarded
         /\ \A k \in 1..Len(ring_idx_pref) :
              /\ ring_idx_pref[k] \in Batch
              /\ ring_idx_pref[k].sz \in 1..MaxBatch /\ ring_idx_pref[k].end \in Nat
         /\ \A k \in 1..Len(ring_pref_disp) :
              /\ ring_pref_disp[k] \in Batch
              /\ ring_pref_disp[k].sz \in 1..MaxBatch /\ ring_pref_disp[k].end \in Nat
         /\ ring_idx_pref # <<>> => 1 \in 1..Len(ring_idx_pref)
         /\ ring_pref_disp # <<>> => 1 \in 1..Len(ring_pref_disp)
<1> USE PipelineAssumption DEF IInv
<1>1. Taken \in Nat /\ Taken <= handled_req_cnt
  BY DEF TypeOK, IxInv, Taken
<1>2. \A k \in 1..Len(ring_idx_pref) : ring_idx_pref[k] \in Batch
  BY ElementOfSeq DEF TypeOK
<1>3. \A k \in 1..Len(ring_pref_disp) : ring_pref_disp[k] \in Batch
  BY ElementOfSeq DEF TypeOK
<1>4. /\ ring_idx_pref # <<>> => 1 \in 1..Len(ring_idx_pref)
      /\ ring_pref_disp # <<>> => 1 \in 1..Len(ring_pref_disp)
  BY TailFacts DEF TypeOK
<1>5. \A b \in Batch : b.sz \in 1..MaxBatch /\ b.end \in Nat
  BY DEF Batch
<1>6. Forwarded \in Nat /\ Forwarded <= Taken
  <2>1. CASE ring_idx_pref = <<>>
    BY <2>1, <1>1 DEF Forwarded, Start, ChainInv, TypeOK
  <2>2. CASE ring_idx_pref # <<>>
    BY <2>2, <1>1, <1>2, <1>4, <1>5, SMTT(30) DEF Forwarded, Start, ChainInv, Chained, TypeOK
  <2> QED
    BY <2>1, <2>2
<1>7. Spawned \in Nat /\ Spawned <= Forwarded
  <2>1. CASE ring_pref_disp = <<>>
    BY <2>1, <1>6 DEF Start, ChainInv
  <2>2. CASE ring_pref_disp # <<>>
    BY <2>2, <1>6, <1>3, <1>4, <1>5 DEF Start, ChainInv, Chained
  <2> QED
    BY <2>1, <2>2
<1> QED
  BY <1>1, <1>2, <1>3, <1>4, <1>5, <1>6, <1>7

(* The pipeline starts in IInv, whatever value batch starts with. *)
LEMMA InitIInv == Init => IInv
<1> SUFFICES ASSUME Init PROVE IInv
  OBVIOUS
<1> USE PipelineAssumption DEF Init
<1>1. <<>> \in Seq(Batch) /\ Len(<<>>) = 0
  BY EmptySeq
<1>2. TypeOK
  BY <1>1 DEF TypeOK
<1>3. RpcInv /\ IxInv
  BY DEF RpcInv, IxInv, Taken
<1>4. ChainInv
  BY <1>1 DEF ChainInv, Chained, Taken, Forwarded, Start, Spawned
<1>5. CursorInv
  BY DEF CursorInv, Spawned, LastStart
<1>6. PrepareInv
  BY <1>1 DEF PrepareInv, Taken, LastStart
<1> QED
  BY <1>2, <1>3, <1>4, <1>5, <1>6 DEF IInv

(* RPCHandler only extends log_arr and avail_cnt. *)
LEMMA RPCStep == IInv /\ RPC => IInv'
<1> SUFFICES ASSUME IInv, RPC PROVE IInv'
  OBVIOUS
<1> USE PipelineAssumption
<1>1. UNCHANGED <<ixVars, ring_idx_pref, pfVars, ring_pref_disp, spVars>>
  BY DEF RPC, RPCStamp, RPCFetchAdd
<1>2. IxInv' /\ CursorInv' /\ PrepareInv' /\ ChainInv'
  <2>1. Taken' = Taken /\ Forwarded' = Forwarded /\ Spawned' = Spawned
    BY <1>1 DEF Taken, Forwarded, Start, Spawned, ixVars, pfVars, spVars
  <2>2. IxInv' /\ CursorInv'
    BY <1>1, <2>1 DEF IInv, IxInv, CursorInv, ixVars, pfVars, spVars
  <2>3. ChainInv'
    BY <1>1, <2>1 DEF IInv, ChainInv, Chained, Start, ixVars, pfVars, spVars
  <2>4. PrepareInv'
    BY <1>1, <2>1 DEF IInv, PrepareInv, Prepared, ixVars
  <2> QED
    BY <2>2, <2>3, <2>4
<1>3. TypeOK'
  <2>1. rpc_pc' \in {"stamp", "add"} /\ rpc_i' \in Nat /\ avail_cnt' \in Nat
    BY DEF IInv, TypeOK, RPC, RPCStamp, RPCFetchAdd
  <2>2. log_arr' \subseteq Nat
    <3>1. CASE RPCStamp
      BY <3>1 DEF IInv, TypeOK, RPCStamp
    <3>2. CASE RPCFetchAdd
      BY <3>2 DEF IInv, TypeOK, RPCFetchAdd
    <3> QED
      BY <3>1, <3>2 DEF RPC
  <2> QED
    BY <1>1, <2>1, <2>2 DEF IInv, TypeOK, ixVars, pfVars, spVars
<1>4. RpcInv'
  <2>1. CASE RPCStamp
    <3>1. log_arr' = 0..(rpc_i' - 1)
      BY <2>1 DEF IInv, TypeOK, RpcInv, RPCStamp
    <3> QED
      BY <2>1, <3>1 DEF IInv, TypeOK, RpcInv, RPCStamp, ixVars
  <2>2. CASE RPCFetchAdd
    BY <2>2 DEF IInv, TypeOK, RpcInv, RPCFetchAdd, ixVars
  <2> QED
    BY <2>1, <2>2 DEF RPC
<1> QED
  BY <1>2, <1>3, <1>4 DEF IInv

(* The Indexer forms the batch Taken..handled_req_cnt-1, fills in its      *)
(* entries, and pushes it: Taken moves to the end of the batch.            *)
LEMMA IndexerCheckAvailStep == IInv /\ IndexerCheckAvail => IInv'
<1> SUFFICES ASSUME IInv, IndexerCheckAvail PROVE IInv'
  OBVIOUS
<1> USE PipelineAssumption
<1> DEFINE b == DynBatch(avail_cnt - handled_req_cnt)
<1>1. /\ b \in 1..MaxBatch /\ b <= avail_cnt - handled_req_cnt
      /\ ix_batch' = b /\ handled_req_cnt' = handled_req_cnt + b
      /\ ix_pc = "check" /\ ix_pc' = "prepare" /\ ix_i' = 0
  BY DEF IndexerCheckAvail, DynBatch, IInv, TypeOK, RpcInv
<1> HIDE DEF b
<1>2. /\ UNCHANGED <<rpcVars, cown_ptrs, ring_idx_pref, pfVars, ring_pref_disp, spVars>>
      /\ read_idx' = 0 \/ read_idx' = read_idx
      /\ read_idx' \in Nat
  BY DEF IndexerCheckAvail, IndexerRewind, IInv, TypeOK
<1>3. /\ Taken' = handled_req_cnt /\ Taken = handled_req_cnt
      /\ Forwarded' = Forwarded /\ Spawned' = Spawned
  BY <1>1, <1>2 DEF Taken, Forwarded, Start, Spawned, pfVars, spVars, IInv, TypeOK
<1>4. TypeOK'
  BY <1>1, <1>2 DEF IInv, TypeOK, rpcVars, pfVars, spVars
<1>5. RpcInv' /\ IxInv'
  BY <1>1, <1>2, <1>3 DEF IInv, TypeOK, RpcInv, IxInv, rpcVars
<1>6. CursorInv'
  BY <1>2, <1>3 DEF IInv, CursorInv, pfVars, spVars
<1>7. ChainInv'
  BY <1>2, <1>3 DEF IInv, ChainInv, Chained, Start, pfVars, spVars
<1>8. PrepareInv'
  <2>1. handled_req_cnt <= LastStart => read_idx' = read_idx
    <3>1. CASE handled_req_cnt = 0
      BY <3>1, <1>1, <1>2 DEF IInv, PrepareInv, LastStart, TypeOK
    <3>2. CASE handled_req_cnt > 0
      <4>1. ix_batch \in 1..MaxBatch
        BY <3>2, <1>1 DEF IInv, IxInv
      <4>2. handled_req_cnt <= LastStart => read_idx <= LastStart
        BY <1>1 DEF IInv, PrepareInv
      <4> QED
        BY <4>1, <4>2 DEF IndexerCheckAvail, IndexerRewind, USub, IInv, TypeOK, LastStart
    <3> QED
      BY <3>1, <3>2 DEF IInv, TypeOK
  <2>2. /\ Taken' <= LastStart => read_idx' = Taken' + ix_i'
        /\ read_idx' <= Taken' + ix_i'
    BY <2>1, <1>1, <1>2, <1>3 DEF IInv, PrepareInv, TypeOK
  <2>3. \A n \in Taken'..(Taken' + ix_i' - 1) : n \in cown_ptrs'
    BY <1>1, <1>3 DEF IInv, TypeOK
  <2> QED
    BY <2>2, <2>3, <1>1, <1>2, <1>3 DEF IInv, PrepareInv, Prepared
<1> QED
  BY <1>4, <1>5, <1>6, <1>7, <1>8 DEF IInv

(* Preparing an entry extends what is prepared and advances the Indexer's  *)
(* cursor with it.                                                         *)
LEMMA IndexerPrepareCownsStep == IInv /\ IndexerPrepareCowns => IInv'
<1> SUFFICES ASSUME IInv, IndexerPrepareCowns PROVE IInv'
  OBVIOUS
<1> USE PipelineAssumption
<1>1. /\ ix_pc = "prepare" /\ ix_pc' \in {"prepare", "push"}
      /\ ix_pc' = IF ix_i + 1 < ix_batch THEN "prepare" ELSE "push"
      /\ ix_i' = ix_i + 1 /\ read_idx' = read_idx + 1
      /\ cown_ptrs' = cown_ptrs \cup {read_idx}
      /\ UNCHANGED <<ix_batch, handled_req_cnt, rpcVars, ring_idx_pref, pfVars,
                     ring_pref_disp, spVars>>
  BY DEF IndexerPrepareCowns
<1>2. Taken' = Taken /\ Forwarded' = Forwarded /\ Spawned' = Spawned
  BY <1>1 DEF Taken, Forwarded, Start, Spawned, pfVars, spVars
<1>3. TypeOK'
  BY <1>1 DEF IInv, TypeOK, rpcVars, pfVars, spVars
<1>4. RpcInv' /\ IxInv'
  BY <1>1, <1>2 DEF IInv, TypeOK, RpcInv, IxInv, rpcVars
<1>5. CursorInv'
  BY <1>1, <1>2 DEF IInv, CursorInv, pfVars, spVars
<1>6. ChainInv'
  BY <1>1, <1>2 DEF IInv, ChainInv, Chained, Start, pfVars, spVars
<1>7. PrepareInv'
  <2>1. Taken \in Nat
    BY ChainFacts
  <2>2. /\ Taken' <= LastStart => read_idx' = Taken' + ix_i'
        /\ read_idx' <= Taken' + ix_i'
    BY <2>1, <1>1, <1>2 DEF IInv, PrepareInv, TypeOK
  <2>3. ASSUME Taken <= LastStart, NEW n \in Taken..(Taken + ix_i' - 1)
        PROVE  n \in cown_ptrs'
    <3>1. n = read_idx \/ n \in Taken..(Taken + ix_i - 1)
      BY <2>1, <2>3, <1>1 DEF IInv, PrepareInv, TypeOK
    <3> QED
      BY <3>1, <2>3, <1>1 DEF IInv, PrepareInv
  <2> QED
    BY <2>2, <2>3, <1>1, <1>2 DEF IInv, PrepareInv, Prepared
<1> QED
  BY <1>3, <1>4, <1>5, <1>6, <1>7 DEF IInv

(* Pushing a batch appends to the first ring an interval that begins where *)
(* the ring ended.                                                         *)
LEMMA IndexerPushStep == IInv /\ IndexerPush => IInv'
<1> SUFFICES ASSUME IInv, IndexerPush PROVE IInv'
  OBVIOUS
<1> USE PipelineAssumption
<1> DEFINE e == [sz |-> ix_batch, end |-> handled_req_cnt]
<1>1. /\ ix_pc = "push" /\ ix_pc' = "check"
      /\ Len(ring_idx_pref) < ChannelSizeIdxPref
      /\ ring_idx_pref' = Append(ring_idx_pref, e)
      /\ UNCHANGED <<ix_batch, ix_i, read_idx, handled_req_cnt, cown_ptrs, rpcVars,
                     pfVars, ring_pref_disp, spVars>>
  BY DEF IndexerPush
<1>2. /\ e \in Batch /\ e.sz = ix_batch /\ e.end = handled_req_cnt
      /\ Taken' = e.end /\ Taken = e.end - e.sz /\ ix_i = ix_batch
  BY <1>1 DEF IInv, IxInv, TypeOK, Batch, Taken
<1> HIDE DEF e
<1>3. Taken \in Nat /\ e.end = Taken + e.sz /\ e.sz \in 1..MaxBatch /\ e.end \in Nat
  BY <1>2, ChainFacts DEF Batch
<1>4. ring_idx_pref \in Seq(Batch) /\ Chained(ring_idx_pref, Taken)
  BY DEF IInv, TypeOK, ChainInv
<1>5. /\ ring_idx_pref' \in Seq(Batch) /\ ring_idx_pref' # <<>>
      /\ Len(ring_idx_pref) \in Nat /\ Len(ring_idx_pref') = Len(ring_idx_pref) + 1
      /\ \A k \in 1..Len(ring_idx_pref) : ring_idx_pref'[k] = ring_idx_pref[k]
      /\ ring_idx_pref'[Len(ring_idx_pref) + 1] = e
      /\ ring_idx_pref # <<>> => Len(ring_idx_pref) > 0
  BY <1>1, <1>2, <1>4, AppendFacts
<1>6. /\ Chained(ring_idx_pref', Taken')
      /\ Start(ring_idx_pref', Taken') = Start(ring_idx_pref, Taken)
  BY <1>1, <1>2, <1>3, <1>4, ChainAppend
<1>7. Forwarded' = Forwarded /\ Spawned' = Spawned
  <2>1. CASE pf_pc = "pop"
    BY <2>1, <1>1, <1>5 DEF Forwarded, Spawned, pfVars, spVars, IInv, ChainInv
  <2>2. CASE pf_pc # "pop"
    BY <2>2, <1>1, <1>6 DEF Forwarded, Start, Spawned, pfVars, spVars
  <2> QED
    BY <2>1, <2>2
<1>8. TypeOK'
  BY <1>1, <1>5 DEF IInv, TypeOK, rpcVars, pfVars, spVars
<1>9. RpcInv' /\ IxInv'
  BY <1>1, <1>2, <1>3 DEF IInv, TypeOK, RpcInv, IxInv, rpcVars
<1>10. CursorInv'
  BY <1>1, <1>7 DEF IInv, CursorInv, pfVars, spVars
<1>11. ChainInv'
  BY <1>1, <1>5, <1>6, <1>7 DEF IInv, ChainInv, Chained, Start, pfVars, spVars
<1>12. PrepareInv'
  <2>1. /\ handled_req_cnt' <= LastStart => read_idx' = handled_req_cnt'
        /\ read_idx' <= handled_req_cnt'
    BY <1>1, <1>2, <1>3 DEF IInv, PrepareInv, TypeOK, LastStart
  <2>2. \A n \in 0..LastStart : n < Taken' => n \in cown_ptrs'
    BY <1>1, <1>2, <1>3 DEF IInv, PrepareInv, TypeOK, LastStart
  <2>3. e.end - e.sz <= LastStart => \A n \in (e.end - e.sz)..(e.end - 1) : n \in cown_ptrs'
    BY <1>1, <1>2, <1>3 DEF IInv, PrepareInv, TypeOK, LastStart
  <2>4. (\A k \in 1..Len(ring_idx_pref) : Prepared(ring_idx_pref[k]))'
    <3>1. \A k \in 1..Len(ring_idx_pref') :
            k \in 1..Len(ring_idx_pref) \/ ring_idx_pref'[k] = e
      BY <1>5
    <3> QED
      BY <3>1, <2>3, <1>1, <1>5 DEF IInv, PrepareInv, Prepared
  <2>5. (\A k \in 1..Len(ring_pref_disp) : Prepared(ring_pref_disp[k]))'
    BY <1>1 DEF IInv, PrepareInv, Prepared
  <2> QED
    BY <2>1, <2>2, <2>4, <2>5, <1>1 DEF PrepareInv
<1> QED
  BY <1>8, <1>9, <1>10, <1>11, <1>12 DEF IInv

(* The Prefetcher's cursor stays in the log. *)
LEMMA PrefetcherFrontStep == IInv /\ PrefetcherFront => IInv'
<1> SUFFICES ASSUME IInv, PrefetcherFront PROVE IInv'
  OBVIOUS
<1> USE PipelineAssumption
<1>1. /\ pf_pc = "front" /\ pf_pc' = "push" /\ ring_idx_pref # <<>>
      /\ pf_idx' = Rewind(pf_idx) + Head(ring_idx_pref).sz
      /\ UNCHANGED <<rpcVars, ixVars, ring_idx_pref, ring_pref_disp, spVars>>
  BY DEF PrefetcherFront
<1>2. Head(ring_idx_pref).sz \in 1..MaxBatch
  BY <1>1, TailFacts, ChainFacts DEF IInv, TypeOK
<1>3. pf_idx' \in Nat /\ pf_idx' <= Count
  BY <1>1, <1>2 DEF Rewind, USub, IInv, TypeOK
<1>4. Taken' = Taken /\ Forwarded' = Forwarded /\ Spawned' = Spawned
  BY <1>1 DEF Taken, Forwarded, Start, Spawned, ixVars, spVars
<1>5. TypeOK'
  BY <1>1, <1>3 DEF IInv, TypeOK, rpcVars, ixVars, spVars
<1>6. RpcInv' /\ IxInv'
  BY <1>1, <1>4 DEF IInv, RpcInv, IxInv, rpcVars, ixVars
<1>7. CursorInv'
  BY <1>1, <1>3, <1>4 DEF IInv, CursorInv, spVars
<1>8. ChainInv'
  BY <1>1, <1>4 DEF IInv, ChainInv, Chained, Start, ixVars, spVars
<1>9. PrepareInv'
  BY <1>1, <1>4 DEF IInv, PrepareInv, Prepared, ixVars
<1> QED
  BY <1>5, <1>6, <1>7, <1>8, <1>9 DEF IInv

(* Pushing the first batch of one ring onto the other moves Forwarded to   *)
(* the end of that batch.                                                  *)
LEMMA PrefetcherPushStep == IInv /\ PrefetcherPush => IInv'
<1> SUFFICES ASSUME IInv, PrefetcherPush PROVE IInv'
  OBVIOUS
<1> USE PipelineAssumption
<1> DEFINE e == ring_idx_pref[1]
<1>1. /\ pf_pc = "push" /\ pf_pc' = "pop" /\ ring_idx_pref # <<>>
      /\ Len(ring_pref_disp) < ChannelSize
      /\ ring_pref_disp' = Append(ring_pref_disp, e)
      /\ UNCHANGED <<pf_idx, rpcVars, ixVars, ring_idx_pref, spVars>>
  BY TailFacts DEF PrefetcherPush, IInv, ChainInv, TypeOK
<1>2. /\ e \in Batch /\ e.sz \in 1..MaxBatch /\ e.end \in Nat
      /\ Forwarded' = e.end /\ Forwarded = e.end - e.sz /\ Forwarded \in Nat
  BY <1>1, ChainFacts DEF Forwarded, Start
<1>3. Prepared(e)
  BY <1>1, ChainFacts DEF IInv, PrepareInv
<1> HIDE DEF e
<1>4. ring_pref_disp \in Seq(Batch) /\ Chained(ring_pref_disp, Forwarded)
  BY DEF IInv, TypeOK, ChainInv
<1>5. e.end = Forwarded + e.sz
  BY <1>2
<1>6. /\ ring_pref_disp' \in Seq(Batch) /\ ring_pref_disp' # <<>>
      /\ Len(ring_pref_disp) \in Nat /\ Len(ring_pref_disp') = Len(ring_pref_disp) + 1
      /\ \A k \in 1..Len(ring_pref_disp) : ring_pref_disp'[k] = ring_pref_disp[k]
      /\ ring_pref_disp'[Len(ring_pref_disp) + 1] = e
      /\ ring_pref_disp # <<>> => Len(ring_pref_disp) > 0
  <2>1. e \in Batch /\ ring_pref_disp \in Seq(Batch)
    BY <1>2, <1>4
  <2> QED
    BY <2>1, <1>1, AppendFacts
<1>7. /\ Chained(ring_pref_disp', Forwarded')
      /\ Start(ring_pref_disp', Forwarded') = Start(ring_pref_disp, Forwarded)
  <2>1. /\ Chained(Append(ring_pref_disp, e), e.end)
        /\ Start(Append(ring_pref_disp, e), e.end) = Start(ring_pref_disp, Forwarded)
    <3>1. e \in Batch /\ Forwarded \in Nat
      BY <1>2
    <3> QED
      BY <3>1, <1>4, <1>5, ChainAppend, Zenon
  <2>2. ring_pref_disp' = Append(ring_pref_disp, e) /\ Forwarded' = e.end
    BY <1>1, <1>2
  <2> QED
    BY <2>1, <2>2, Zenon
<1>8. Taken' = Taken /\ Spawned' = Spawned
  BY <1>1 DEF Taken, Spawned, ixVars, spVars
<1>9. TypeOK'
  BY <1>1, <1>6 DEF IInv, TypeOK, rpcVars, ixVars, spVars
<1>10. RpcInv' /\ IxInv'
  BY <1>1, <1>8 DEF IInv, RpcInv, IxInv, rpcVars, ixVars
<1>11. CursorInv'
  BY <1>1, <1>8 DEF IInv, CursorInv, spVars
<1>12. ChainInv'
  <2>1. Chained(ring_idx_pref', Taken')
    BY <1>1, <1>8 DEF IInv, ChainInv
  <2>2. ring_pref_disp # <<>> => ring_pref_disp'[1] = ring_pref_disp[1]
    BY <1>6
  <2> QED
    BY <2>1, <2>2, <1>1, <1>6, <1>7, <1>8 DEF IInv, ChainInv, Chained, Start, spVars
<1>13. PrepareInv'
  <2>1. (\A k \in 1..Len(ring_pref_disp) : Prepared(ring_pref_disp[k]))'
    <3>1. \A k \in 1..Len(ring_pref_disp') :
            k \in 1..Len(ring_pref_disp) \/ ring_pref_disp'[k] = e
      BY <1>6
    <3> QED
      BY <3>1, <1>1, <1>3, <1>6 DEF IInv, PrepareInv, Prepared, ixVars
  <2> QED
    BY <2>1, <1>1, <1>8 DEF IInv, PrepareInv, Prepared, ixVars
<1> QED
  BY <1>9, <1>10, <1>11, <1>12, <1>13 DEF IInv

(* Popping the forwarded batch makes the first ring begin where the second *)
(* now ends.                                                               *)
LEMMA PrefetcherPopStep == IInv /\ PrefetcherPop => IInv'
<1> SUFFICES ASSUME IInv, PrefetcherPop PROVE IInv'
  OBVIOUS
<1> USE PipelineAssumption
<1>1. /\ pf_pc = "pop" /\ pf_pc' = "front" /\ ring_idx_pref # <<>>
      /\ ring_idx_pref' = Tail(ring_idx_pref)
      /\ UNCHANGED <<pf_idx, rpcVars, ixVars, ring_pref_disp, spVars>>
  BY DEF PrefetcherPop, IInv, ChainInv
<1>2. /\ ring_idx_pref \in Seq(Batch) /\ Chained(ring_idx_pref, Taken) /\ Taken \in Nat
  BY ChainFacts DEF IInv, TypeOK, ChainInv
<1>3. /\ Chained(ring_idx_pref', Taken)
      /\ Start(ring_idx_pref', Taken) = ring_idx_pref[1].end
  BY <1>1, <1>2, ChainTail
<1>4. Taken' = Taken /\ Spawned' = Spawned
  BY <1>1 DEF Taken, Spawned, ixVars, spVars
<1>5. Forwarded' = Forwarded
  BY <1>1, <1>3, <1>4 DEF Forwarded, Start
<1>6. /\ ring_idx_pref' \in Seq(Batch) /\ Len(ring_idx_pref) \in Nat
      /\ Len(ring_idx_pref') = Len(ring_idx_pref) - 1
      /\ \A k \in 1..(Len(ring_idx_pref) - 1) : ring_idx_pref'[k] = ring_idx_pref[k + 1]
  BY <1>1, <1>2, TailFacts
<1>7. TypeOK'
  BY <1>1, <1>6 DEF IInv, TypeOK, rpcVars, ixVars, spVars
<1>8. RpcInv' /\ IxInv'
  BY <1>1, <1>4 DEF IInv, RpcInv, IxInv, rpcVars, ixVars
<1>9. CursorInv'
  BY <1>1, <1>4 DEF IInv, CursorInv, spVars
<1>10. ChainInv'
  <2>1. Chained(ring_pref_disp', Forwarded')
    BY <1>1, <1>5 DEF IInv, ChainInv
  <2> QED
    BY <2>1, <1>1, <1>3, <1>4, <1>5 DEF IInv, ChainInv, Start, spVars
<1>11. PrepareInv'
  <2>1. (\A k \in 1..Len(ring_idx_pref) : Prepared(ring_idx_pref[k]))'
    <3>1. \A k \in 1..Len(ring_idx_pref') :
            k + 1 \in 1..Len(ring_idx_pref) /\ ring_idx_pref'[k] = ring_idx_pref[k + 1]
      BY <1>6
    <3> QED
      BY <3>1, <1>1 DEF IInv, PrepareInv, Prepared, ixVars
  <2> QED
    BY <2>1, <1>1, <1>4 DEF IInv, PrepareInv, Prepared, ixVars
<1> QED
  BY <1>7, <1>8, <1>9, <1>10, <1>11 DEF IInv

(* The Spawner rewinds before a batch that may not fit. *)
LEMMA SpawnerFrontStep == IInv /\ SpawnerFront => IInv'
<1> SUFFICES ASSUME IInv, SpawnerFront PROVE IInv'
  OBVIOUS
<1> USE PipelineAssumption
<1>1. /\ sp_pc = "front" /\ sp_pc' = "dispatch" /\ ring_pref_disp # <<>>
      /\ sp_i' = 0 /\ sp_idx' = Rewind(sp_idx)
      /\ UNCHANGED <<txn_log_id, rpcVars, ixVars, ring_idx_pref, pfVars, ring_pref_disp>>
  BY DEF SpawnerFront
<1>2. sp_idx' = IF sp_idx > LastStart THEN 0 ELSE sp_idx
  BY <1>1 DEF Rewind, USub, LastStart
<1>3. LastStart \in Nat /\ sp_idx \in Nat /\ txn_log_id \in Nat
  BY DEF LastStart, IInv, TypeOK
<1>4. /\ Taken' = Taken /\ Forwarded' = Forwarded
      /\ Spawned = txn_log_id /\ Spawned' = txn_log_id
  BY <1>1, <1>3 DEF Taken, Forwarded, Start, Spawned, ixVars, pfVars
<1>5. TypeOK'
  BY <1>1, <1>2, <1>3 DEF IInv, TypeOK, rpcVars, ixVars, pfVars
<1>6. RpcInv' /\ IxInv'
  BY <1>1, <1>4 DEF IInv, RpcInv, IxInv, rpcVars, ixVars
<1>7. CursorInv'
  <2>1. /\ pf_idx' <= Count /\ sp_idx' <= Count /\ sp_idx' - sp_i' <= LastStart
    BY <1>1, <1>2, <1>3 DEF IInv, CursorInv, pfVars, LastStart
  <2>2. txn_log_id <= LastStart => sp_idx' = txn_log_id
    BY <1>1, <1>2, <1>3, <1>4 DEF IInv, CursorInv
  <2>3. txn_log_id > LastStart => sp_idx' <= txn_log_id - (LastStart + 1)
    BY <1>1, <1>2, <1>3, <1>4 DEF IInv, CursorInv
  <2>4. LastStart' = LastStart
    BY DEF LastStart
  <2> QED
    BY <2>1, <2>2, <2>3, <2>4, <1>1, <1>4 DEF CursorInv
<1>8. ChainInv'
  <2>1. 0 < ring_pref_disp[1].sz
    BY <1>1, ChainFacts
  <2> QED
    BY <2>1, <1>1, <1>4 DEF IInv, ChainInv, Chained, Start, ixVars, pfVars
<1>9. PrepareInv'
  BY <1>1, <1>4 DEF IInv, PrepareInv, Prepared, ixVars
<1> QED
  BY <1>5, <1>6, <1>7, <1>8, <1>9 DEF IInv

(* Dispatching an entry advances txn_log_id within the batch at the front  *)
(* of the second ring.                                                     *)
LEMMA SpawnerDispatchOneStep == IInv /\ SpawnerDispatchOne => IInv'
<1> SUFFICES ASSUME IInv, SpawnerDispatchOne PROVE IInv'
  OBVIOUS
<1> USE PipelineAssumption
<1>1. /\ sp_pc = "dispatch" /\ sp_pc' \in {"dispatch", "pop"} /\ ring_pref_disp # <<>>
      /\ txn_log_id' = txn_log_id + 1 /\ sp_i' = sp_i + 1 /\ sp_idx' = sp_idx + 1
      /\ UNCHANGED <<rpcVars, ixVars, ring_idx_pref, pfVars, ring_pref_disp>>
  BY DEF SpawnerDispatchOne, IInv, ChainInv
<1>2. /\ sp_pc' = IF sp_i + 1 < ring_pref_disp[1].sz THEN "dispatch" ELSE "pop"
      /\ ring_pref_disp[1].sz \in 1..MaxBatch /\ sp_i < ring_pref_disp[1].sz
  BY <1>1, ChainFacts, TailFacts DEF SpawnerDispatchOne, IInv, ChainInv, TypeOK
<1>3. /\ LastStart \in Nat /\ sp_idx \in Nat /\ txn_log_id \in Nat /\ sp_i \in Nat
      /\ LastStart = Count - MaxBatch /\ LastStart' = LastStart
  BY DEF LastStart, IInv, TypeOK
<1>4. Taken' = Taken /\ Forwarded' = Forwarded /\ Spawned' = Spawned
  BY <1>1, <1>3 DEF Taken, Forwarded, Start, Spawned, ixVars, pfVars
<1>5. TypeOK'
  BY <1>1, <1>3 DEF IInv, TypeOK, rpcVars, ixVars, pfVars
<1>6. RpcInv' /\ IxInv'
  BY <1>1, <1>4 DEF IInv, RpcInv, IxInv, rpcVars, ixVars
<1>7. CursorInv'
  <2>1. /\ pf_idx' <= Count /\ sp_idx' <= Count /\ sp_idx' - sp_i' <= LastStart
    BY <1>1, <1>2, <1>3 DEF IInv, CursorInv, pfVars
  <2>2. Spawned <= LastStart => sp_idx' = txn_log_id'
    BY <1>1, <1>3 DEF IInv, CursorInv
  <2>3. Spawned > LastStart => sp_idx' <= txn_log_id' - (LastStart + 1)
    BY <1>1, <1>3 DEF IInv, CursorInv
  <2> QED
    BY <2>1, <2>2, <2>3, <1>3, <1>4 DEF CursorInv
<1>8. ChainInv'
  <2>1. /\ sp_pc' = "dispatch" => sp_i' < ring_pref_disp'[1].sz
        /\ sp_pc' = "pop" => sp_i' = ring_pref_disp'[1].sz
    BY <1>1, <1>2, <1>3
  <2> QED
    BY <2>1, <1>1, <1>4 DEF IInv, ChainInv, Chained, Start, ixVars, pfVars
<1>9. PrepareInv'
  BY <1>1, <1>4 DEF IInv, PrepareInv, Prepared, ixVars
<1> QED
  BY <1>5, <1>6, <1>7, <1>8, <1>9 DEF IInv

(* Popping a dispatched batch makes the second ring begin at the next      *)
(* request.                                                                *)
LEMMA SpawnerPopStep == IInv /\ SpawnerPop => IInv'
<1> SUFFICES ASSUME IInv, SpawnerPop PROVE IInv'
  OBVIOUS
<1> USE PipelineAssumption
<1>1. /\ sp_pc = "pop" /\ sp_pc' = "front" /\ ring_pref_disp # <<>>
      /\ ring_pref_disp' = Tail(ring_pref_disp)
      /\ UNCHANGED <<sp_i, sp_idx, txn_log_id, rpcVars, ixVars, ring_idx_pref, pfVars>>
  BY DEF SpawnerPop, IInv, ChainInv
<1>2. /\ ring_pref_disp \in Seq(Batch) /\ Chained(ring_pref_disp, Forwarded)
      /\ Forwarded \in Nat
  BY ChainFacts DEF IInv, TypeOK, ChainInv
<1>3. /\ Chained(ring_pref_disp', Forwarded)
      /\ Start(ring_pref_disp', Forwarded) = ring_pref_disp[1].end
  BY <1>1, <1>2, ChainTail
<1>4. Taken' = Taken /\ Forwarded' = Forwarded
  BY <1>1 DEF Taken, Forwarded, Start, ixVars, pfVars
<1>5. /\ ring_pref_disp[1].sz \in 1..MaxBatch /\ ring_pref_disp[1].end \in Nat
      /\ sp_i = ring_pref_disp[1].sz /\ txn_log_id \in Nat
      /\ Spawned = txn_log_id - sp_i
      /\ Spawned = ring_pref_disp[1].end - ring_pref_disp[1].sz
  BY <1>1, ChainFacts DEF IInv, ChainInv, TypeOK, Spawned, Start
<1>6. Spawned' = txn_log_id /\ txn_log_id = ring_pref_disp[1].end
  BY <1>1, <1>5 DEF Spawned
<1>7. /\ ring_pref_disp' \in Seq(Batch) /\ Len(ring_pref_disp) \in Nat
      /\ Len(ring_pref_disp') = Len(ring_pref_disp) - 1
      /\ \A k \in 1..(Len(ring_pref_disp) - 1) : ring_pref_disp'[k] = ring_pref_disp[k + 1]
  BY <1>1, <1>2, TailFacts
<1>8. TypeOK'
  BY <1>1, <1>7 DEF IInv, TypeOK, rpcVars, ixVars, pfVars
<1>9. RpcInv' /\ IxInv'
  BY <1>1, <1>4 DEF IInv, RpcInv, IxInv, rpcVars, ixVars
<1>10. CursorInv'
  <2>1. /\ txn_log_id <= LastStart => sp_idx = txn_log_id
        /\ sp_idx = txn_log_id \/ sp_idx <= txn_log_id - (LastStart + 1)
    <3>1. LastStart \in Nat
      BY DEF LastStart
    <3>2. Spawned \in Int /\ Spawned < txn_log_id
      BY <1>5
    <3> QED
      BY <3>1, <3>2, <1>5 DEF IInv, CursorInv
  <2>2. pf_idx' <= Count /\ sp_idx' <= Count
    BY <1>1 DEF IInv, CursorInv, pfVars
  <2>3. LastStart' = LastStart
    BY DEF LastStart
  <2> QED
    BY <2>1, <2>2, <2>3, <1>1, <1>6 DEF CursorInv
<1>11. ChainInv'
  <2>1. Chained(ring_idx_pref', Taken')
    BY <1>1, <1>4 DEF IInv, ChainInv
  <2> QED
    BY <2>1, <1>1, <1>3, <1>4, <1>6 DEF IInv, ChainInv, Start, pfVars
<1>12. PrepareInv'
  <2>1. (\A k \in 1..Len(ring_pref_disp) : Prepared(ring_pref_disp[k]))'
    <3>1. \A k \in 1..Len(ring_pref_disp') :
            k + 1 \in 1..Len(ring_pref_disp) /\ ring_pref_disp'[k] = ring_pref_disp[k + 1]
      BY <1>7
    <3> QED
      BY <3>1, <1>1 DEF IInv, PrepareInv, Prepared, ixVars
  <2> QED
    BY <2>1, <1>1, <1>4 DEF IInv, PrepareInv, Prepared, ixVars
<1> QED
  BY <1>8, <1>9, <1>10, <1>11, <1>12 DEF IInv

(* A step of no thread. *)
LEMMA StutterStep == IInv /\ UNCHANGED vars => IInv'
<1> SUFFICES ASSUME IInv, UNCHANGED vars PROVE IInv'
  OBVIOUS
<1>1. UNCHANGED <<rpcVars, ixVars, ring_idx_pref, pfVars, ring_pref_disp, spVars>>
  BY DEF vars
<1>2. Taken' = Taken /\ Forwarded' = Forwarded /\ Spawned' = Spawned
  BY <1>1 DEF Taken, Forwarded, Start, Spawned, ixVars, pfVars, spVars
<1>3. TypeOK'
  BY <1>1 DEF IInv, TypeOK, rpcVars, ixVars, pfVars, spVars
<1>4. RpcInv' /\ IxInv'
  BY <1>1, <1>2 DEF IInv, RpcInv, IxInv, rpcVars, ixVars
<1>5. CursorInv'
  BY <1>1, <1>2 DEF IInv, CursorInv, pfVars, spVars
<1>6. ChainInv'
  BY <1>1, <1>2 DEF IInv, ChainInv, Chained, Start, ixVars, pfVars, spVars
<1>7. PrepareInv'
  BY <1>1, <1>2 DEF IInv, PrepareInv, Prepared, ixVars
<1> QED
  BY <1>3, <1>4, <1>5, <1>6, <1>7 DEF IInv

(* IInv is an invariant of the pipeline. *)
THEOREM Invariance == Spec => []IInv
<1>1. IInv /\ [Next]_vars => IInv'
  <2> SUFFICES ASSUME IInv, [Next]_vars PROVE IInv'
    OBVIOUS
  <2>1. CASE RPC
    BY <2>1, RPCStep
  <2>2. CASE Indexer
    BY <2>2, IndexerCheckAvailStep, IndexerPrepareCownsStep, IndexerPushStep DEF Indexer
  <2>3. CASE Prefetcher
    BY <2>3, PrefetcherFrontStep, PrefetcherPushStep, PrefetcherPopStep DEF Prefetcher
  <2>4. CASE Spawner
    BY <2>4, SpawnerFrontStep, SpawnerDispatchOneStep, SpawnerPopStep DEF Spawner
  <2>5. CASE Spin \/ UNCHANGED vars
    BY <2>5, StutterStep DEF Spin
  <2> QED
    BY <2>1, <2>2, <2>3, <2>4, <2>5 DEF Next
<1> QED
  BY <1>1, InitIInv, PTL DEF Spec

-----------------------------------------------------------------------------
(* Every thread's locals, the counter and the rings keep their types and   *)
(* capacities, whatever the uninitialized batch of the Indexer holds.      *)
THEOREM TypeCorrect == Spec => []TypeOK
<1>1. IInv => TypeOK
  BY DEF IInv
<1> QED
  BY <1>1, Invariance, PTL

(* The Spawner reads the arrival time of a request only after RPCHandler   *)
(* has stored it.                                                          *)
THEOREM StampedBeforeDispatchHolds == Spec => []StampedBeforeDispatch
<1>1. IInv => StampedBeforeDispatch
  <2> SUFFICES ASSUME IInv, sp_pc = "dispatch" PROVE txn_log_id \in log_arr
    BY DEF StampedBeforeDispatch
  <2>1. ring_pref_disp # <<>> /\ sp_i < ring_pref_disp[1].sz
    BY DEF IInv, ChainInv
  <2>2. /\ ring_pref_disp[1].end <= Forwarded
        /\ Spawned = ring_pref_disp[1].end - ring_pref_disp[1].sz
        /\ ring_pref_disp[1].sz \in 1..MaxBatch /\ ring_pref_disp[1].end \in Nat
    BY <2>1, ChainFacts DEF IInv, ChainInv, Chained, Start
  <2>3. txn_log_id < ring_pref_disp[1].end
    BY <2>1, <2>2 DEF Spawned, IInv, TypeOK
  <2>4. Forwarded <= handled_req_cnt /\ Forwarded \in Nat
    BY ChainFacts DEF IInv, TypeOK
  <2>5. txn_log_id < rpc_i
    BY <2>2, <2>3, <2>4 DEF IInv, TypeOK, RpcInv
  <2> QED
    BY <2>5 DEF IInv, TypeOK, RpcInv
<1> QED
  BY <1>1, Invariance, PTL

(* The batch the Spawner has run is the batch the Indexer formed.          *)
THEOREM BatchesConservedHolds == Spec => []BatchesConserved
<1>1. IInv => BatchesConserved
  <2> SUFFICES ASSUME IInv, sp_pc = "pop"
               PROVE  txn_log_id = Head(ring_pref_disp).end
    BY DEF BatchesConserved
  <2>1. ring_pref_disp # <<>> /\ sp_i = ring_pref_disp[1].sz
    BY DEF IInv, ChainInv
  <2>2. Head(ring_pref_disp) = ring_pref_disp[1]
    BY <2>1, TailFacts DEF IInv, TypeOK
  <2>3. /\ Spawned = ring_pref_disp[1].end - ring_pref_disp[1].sz
        /\ ring_pref_disp[1].sz \in 1..MaxBatch /\ ring_pref_disp[1].end \in Nat
    BY <2>1, ChainFacts DEF IInv, ChainInv, Start
  <2> QED
    BY <2>1, <2>2, <2>3 DEF Spawned, IInv, TypeOK
<1> QED
  BY <1>1, Invariance, PTL

(* Where the Indexer starts a batch: it has just rewound, or the previous  *)
(* batch, of one entry or more, would still fit.                           *)
IxCursorInv == ix_pc # "check" => read_idx - ix_i < Count

LEMMA IxCursorInvariance == Spec => []IxCursorInv
<1> USE PipelineAssumption
<1>1. Init => IxCursorInv
  BY DEF Init, IxCursorInv
<1>2. IInv /\ IxCursorInv /\ [Next]_vars => IxCursorInv'
  <2> SUFFICES ASSUME IInv, IxCursorInv, [Next]_vars PROVE IxCursorInv'
    OBVIOUS
  <2>1. CASE IndexerCheckAvail
    <3>1. CASE handled_req_cnt = 0
      <4>1. read_idx' = 0 /\ ix_i' = 0
        BY <2>1, <3>1 DEF IndexerCheckAvail, IndexerRewind, IInv, PrepareInv, TypeOK
      <4> QED
        BY <4>1 DEF IxCursorInv
    <3>2. CASE handled_req_cnt # 0
      <4>1. ix_batch \in 1..MaxBatch
        BY <2>1, <3>2 DEF IndexerCheckAvail, IInv, IxInv
      <4> QED
        BY <2>1, <4>1 DEF IndexerCheckAvail, IndexerRewind, USub, IxCursorInv, IInv, TypeOK
    <3> QED
      BY <3>1, <3>2
  <2>2. CASE IndexerPrepareCowns
    BY <2>2 DEF IndexerPrepareCowns, IxCursorInv, IInv, TypeOK
  <2>3. CASE IndexerPush
    BY <2>3 DEF IndexerPush, IxCursorInv
  <2>4. CASE UNCHANGED <<ix_pc, read_idx, ix_i>>
    BY <2>4 DEF IxCursorInv
  <2>5. RPC \/ Prefetcher \/ Spawner \/ Spin \/ UNCHANGED vars
          => UNCHANGED <<ix_pc, read_idx, ix_i>>
    BY DEF RPC, RPCStamp, RPCFetchAdd, Prefetcher, PrefetcherFront, PrefetcherPush,
           PrefetcherPop, Spawner, SpawnerFront, SpawnerDispatchOne, SpawnerPop, Spin,
           vars, ixVars
  <2> QED
    BY <2>1, <2>2, <2>3, <2>4, <2>5 DEF Next, Indexer
<1> QED
  BY <1>1, <1>2, Invariance, PTL DEF Spec

(* Prefetcher and Spawner stay in the log; the Indexer leaves it by at     *)
(* most MAX_BATCH - 1 entries.                                             *)
THEOREM EntryInLogHolds == Spec => []EntryInLog
<1>1. IInv /\ IxCursorInv => EntryInLog
  <2> SUFFICES ASSUME IInv, IxCursorInv PROVE EntryInLog
    OBVIOUS
  <2> USE PipelineAssumption
  <2>1. pf_idx <= Count
    BY DEF IInv, CursorInv
  <2>2. ASSUME sp_pc = "dispatch" PROVE sp_idx < Count
    <3>1. ring_pref_disp # <<>> /\ sp_i < ring_pref_disp[1].sz /\ sp_idx - sp_i <= LastStart
      BY <2>2 DEF IInv, ChainInv, CursorInv
    <3>2. ring_pref_disp[1].sz \in 1..MaxBatch
      BY <3>1, ChainFacts
    <3> QED
      BY <3>1, <3>2 DEF LastStart, IInv, TypeOK
  <2>3. ASSUME ix_pc = "prepare" PROVE read_idx < Count + MaxBatch - 1
    BY <2>3 DEF IInv, IxInv, IxCursorInv, TypeOK
  <2> QED
    BY <2>1, <2>2, <2>3 DEF EntryInLog
<1> QED
  BY <1>1, Invariance, IxCursorInvariance, PTL

(* As long as no more requests have been taken than the log has entries,   *)
(* the Indexer prepares entries of the log only.                           *)
IndexerInLogOnce == ix_pc = "prepare" /\ handled_req_cnt <= Count => read_idx < Count

(* A log as long as the requests are many keeps the Indexer inside it.     *)
THEOREM IndexerInLogOnceHolds == Spec => []IndexerInLogOnce
<1>1. IInv => IndexerInLogOnce
  <2> SUFFICES ASSUME IInv, ix_pc = "prepare", handled_req_cnt <= Count
               PROVE  read_idx < Count
    BY DEF IndexerInLogOnce
  <2>1. /\ read_idx <= Taken + ix_i /\ ix_i < ix_batch
        /\ Taken = handled_req_cnt - ix_batch
    BY DEF IInv, PrepareInv, IxInv, Taken
  <2> QED
    BY <2>1, PipelineAssumption DEF IInv, TypeOK
<1> QED
  BY <1>1, Invariance, PTL

-----------------------------------------------------------------------------
(* The cursor between batches, c[1] before the batch at the front of the   *)
(* Spawner's ring and c[Len(c)] after the last one in it.  The Spawner is  *)
(* at or inside the first batch, the Prefetcher after the last one, or one *)
(* batch further when it has not yet pushed that batch.                    *)
Walk(c) ==
  /\ Len(c) = Len(ring_pref_disp) + 1
  /\ \A k \in 1..Len(ring_pref_disp) : c[k + 1] = Rewind(c[k]) + ring_pref_disp[k].sz
  /\ sp_idx = IF sp_pc = "front" THEN c[1] ELSE Rewind(c[1]) + sp_i
  /\ pf_idx = IF pf_pc = "push" THEN Rewind(c[Len(c)]) + ring_idx_pref[1].sz ELSE c[Len(c)]

WalkInv == \E c \in Seq(Nat) : Walk(c)

(* The Prefetcher pushes the batch it has walked. *)
LEMMA WalkPush ==
  ASSUME IInv, NEW c \in Seq(Nat), Walk(c), PrefetcherPush
  PROVE  WalkInv'
<1> DEFINE q == ring_pref_disp
<1>0. PICK d : d = Append(c, pf_idx)
  OBVIOUS
<1>1. /\ pf_pc = "push" /\ pf_pc' = "pop" /\ ring_idx_pref # <<>>
      /\ q' = Append(q, ring_idx_pref[1])
      /\ UNCHANGED <<pf_idx, spVars>>
  BY TailFacts DEF PrefetcherPush, IInv, ChainInv, TypeOK
<1>2. ring_idx_pref[1] \in Batch /\ q \in Seq(Batch) /\ pf_idx \in Nat
  BY <1>1, ChainFacts DEF IInv, TypeOK
<1>3. /\ Len(q) \in Nat /\ Len(q') = Len(q) + 1
      /\ \A k \in 1..Len(q) : q'[k] = q[k]
      /\ q'[Len(q) + 1] = ring_idx_pref[1]
  BY <1>1, <1>2, AppendFacts
<1>4. /\ d \in Seq(Nat) /\ Len(c) = Len(q) + 1 /\ Len(d) = Len(c) + 1
      /\ \A k \in 1..Len(c) : d[k] = c[k]
      /\ d[Len(c) + 1] = pf_idx
  BY <1>0, <1>2, AppendProperties DEF Walk
<1>5. ASSUME NEW k \in 1..Len(q') PROVE d[k + 1] = Rewind(d[k]) + q'[k].sz
  <2>1. CASE k \in 1..Len(q)
    <3>1. k \in 1..Len(c) /\ k + 1 \in 1..Len(c)
      BY <2>1, <1>3, <1>4
    <3>2. d[k + 1] = c[k + 1] /\ d[k] = c[k]
      BY <3>1, <1>4
    <3>3. q'[k] = q[k]
      BY <2>1, <1>3
    <3> QED
      BY <3>2, <3>3, <2>1 DEF Walk
  <2>2. CASE k = Len(q) + 1
    <3>1. d[k + 1] = pf_idx /\ d[k] = c[Len(c)] /\ q'[k] = ring_idx_pref[1]
      BY <2>2, <1>3, <1>4
    <3> QED
      BY <3>1, <1>1 DEF Walk
  <2> QED
    BY <2>1, <2>2, <1>3
<1>6. d[1] = c[1] /\ d[Len(d)] = pf_idx
  BY <1>3, <1>4
<1>7. sp_idx' = IF sp_pc' = "front" THEN d[1] ELSE Rewind(d[1]) + sp_i'
  BY <1>1, <1>6 DEF Walk, spVars
<1>8. Walk(d)'
  BY <1>1, <1>3, <1>4, <1>5, <1>6, <1>7 DEF Walk, Rewind
<1> QED
  BY <1>4, <1>8 DEF WalkInv

(* The Spawner pops the batch it has walked. *)
LEMMA WalkPop ==
  ASSUME IInv, NEW c \in Seq(Nat), Walk(c), SpawnerPop
  PROVE  WalkInv'
<1> DEFINE d == Tail(c)
           q == ring_pref_disp
<1>1. /\ sp_pc = "pop" /\ sp_pc' = "front" /\ q # <<>> /\ q' = Tail(q)
      /\ sp_i = q[1].sz
      /\ UNCHANGED <<sp_idx, pfVars, ring_idx_pref>>
  BY DEF SpawnerPop, IInv, ChainInv
<1>2. /\ Len(q) \in Nat /\ Len(q) > 0 /\ Len(q') = Len(q) - 1
      /\ \A k \in 1..(Len(q) - 1) : q'[k] = q[k + 1]
  BY <1>1, TailFacts DEF IInv, TypeOK
<1>3. Len(c) = Len(q) + 1 /\ c # <<>>
  BY <1>2, EmptySeq DEF Walk
<1>4. /\ d \in Seq(Nat) /\ Len(d) = Len(c) - 1
      /\ \A k \in 1..(Len(c) - 1) : d[k] = c[k + 1]
  BY <1>2, <1>3, HeadTailProperties
<1> HIDE DEF d
<1>5. ASSUME NEW k \in 1..Len(q') PROVE d[k + 1] = Rewind(d[k]) + q'[k].sz
  <2>1. /\ k \in 1..(Len(q) - 1) /\ k + 1 \in 1..Len(q)
        /\ k \in 1..(Len(c) - 1) /\ k + 1 \in 1..(Len(c) - 1)
    BY <1>2, <1>3
  <2>2. d[k + 1] = c[k + 1 + 1] /\ d[k] = c[k + 1] /\ q'[k] = q[k + 1]
    BY <2>1, <1>2, <1>4, Zenon
  <2> QED
    BY <2>1, <2>2 DEF Walk
<1>6. d[1] = c[2] /\ d[Len(d)] = c[Len(c)]
  <2>1. /\ 1 \in 1..(Len(c) - 1) /\ Len(d) \in 1..(Len(c) - 1)
        /\ Len(d) + 1 = Len(c) /\ 1 + 1 = 2
    BY <1>2, <1>3, <1>4
  <2>2. d[1] = c[1 + 1] /\ d[Len(d)] = c[Len(d) + 1]
    BY <2>1, <1>4, Zenon
  <2> QED
    BY <2>1, <2>2
<1>7. c[2] = Rewind(c[1]) + q[1].sz
  <2>1. 1 \in 1..Len(q)
    BY <1>2
  <2> QED
    BY <2>1 DEF Walk
<1>8. sp_idx' = d[1]
  BY <1>1, <1>6, <1>7 DEF Walk
<1>9. pf_idx' = IF pf_pc' = "push" THEN Rewind(d[Len(d)]) + ring_idx_pref'[1].sz ELSE d[Len(d)]
  BY <1>1, <1>6 DEF Walk, pfVars
<1>10. Walk(d)'
  BY <1>1, <1>2, <1>3, <1>4, <1>5, <1>8, <1>9 DEF Walk, Rewind
<1> QED
  BY <1>4, <1>10 DEF WalkInv

(* The other steps leave the cursors between the batches as they are. *)
LEMMA WalkStep == IInv /\ WalkInv /\ [Next]_vars => WalkInv'
<1> SUFFICES ASSUME IInv, [Next]_vars, NEW c \in Seq(Nat), Walk(c) PROVE WalkInv'
  BY DEF WalkInv
<1> USE PipelineAssumption
<1>1. CASE UNCHANGED <<pfVars, ring_pref_disp, sp_pc, sp_i, sp_idx>>
           /\ (pf_pc = "push" => ring_idx_pref'[1] = ring_idx_pref[1])
  <2>1. Walk(c)'
    BY <1>1 DEF Walk, Rewind, pfVars
  <2> QED
    BY <2>1 DEF WalkInv
<1>2. CASE RPC \/ Spin \/ UNCHANGED vars
  BY <1>1, <1>2 DEF RPC, RPCStamp, RPCFetchAdd, Spin, vars, spVars
<1>3. CASE Indexer
  <2>1. CASE IndexerCheckAvail \/ IndexerPrepareCowns
    BY <1>1, <2>1 DEF IndexerCheckAvail, IndexerPrepareCowns, spVars
  <2>2. CASE IndexerPush
    <3>1. [sz |-> ix_batch, end |-> handled_req_cnt] \in Batch
      BY <2>2 DEF IndexerPush, IInv, IxInv, TypeOK, Batch
    <3>2. ring_idx_pref # <<>> => ring_idx_pref'[1] = ring_idx_pref[1]
      BY <2>2, <3>1, AppendFacts, ChainFacts DEF IndexerPush, IInv, TypeOK
    <3>3. pf_pc = "push" => ring_idx_pref # <<>>
      BY DEF IInv, ChainInv
    <3> QED
      BY <1>1, <2>2, <3>2, <3>3 DEF IndexerPush, spVars
  <2> QED
    BY <1>3, <2>1, <2>2 DEF Indexer
<1>4. CASE PrefetcherFront
  <2>1. Head(ring_idx_pref) = ring_idx_pref[1]
    BY <1>4, TailFacts DEF PrefetcherFront, IInv, TypeOK
  <2>2. Walk(c)'
    BY <1>4, <2>1 DEF PrefetcherFront, Walk, Rewind, spVars
  <2> QED
    BY <2>2 DEF WalkInv
<1>5. CASE PrefetcherPush
  BY <1>5, WalkPush
<1>6. CASE PrefetcherPop
  <2>1. Walk(c)'
    BY <1>6 DEF PrefetcherPop, Walk, Rewind, spVars
  <2> QED
    BY <2>1 DEF WalkInv
<1>7. CASE SpawnerFront
  <2>1. c[1] \in Nat /\ Rewind(c[1]) \in Nat
    <3>1. 1 \in 1..Len(c)
      BY LenProperties DEF Walk, IInv, TypeOK
    <3> QED
      BY <3>1, ElementOfSeq DEF Rewind
  <2>2. Walk(c)'
    BY <1>7, <2>1 DEF SpawnerFront, Walk, Rewind, pfVars
  <2> QED
    BY <2>2 DEF WalkInv
<1>8. CASE SpawnerDispatchOne
  <2>1. Rewind(c[1]) \in Nat
    <3>1. 1 \in 1..Len(c)
      BY LenProperties DEF Walk, IInv, TypeOK
    <3> QED
      BY <3>1, ElementOfSeq DEF Rewind
  <2>2. sp_idx' = Rewind(c[1]) + sp_i' /\ sp_pc' # "front"
    <3>1. sp_idx = Rewind(c[1]) + sp_i
      BY <1>8 DEF SpawnerDispatchOne, Walk
    <3>2. sp_idx' = sp_idx + 1 /\ sp_i' = sp_i + 1 /\ sp_pc' # "front"
      BY <1>8 DEF SpawnerDispatchOne
    <3>3. sp_i \in Nat
      BY DEF IInv, TypeOK
    <3> QED
      BY <2>1, <3>1, <3>2, <3>3
  <2>3. Walk(c)'
    BY <1>8, <2>2 DEF SpawnerDispatchOne, Walk, Rewind, pfVars
  <2> QED
    BY <2>3 DEF WalkInv
<1>9. CASE SpawnerPop
  BY <1>9, WalkPop
<1> QED
  BY <1>2, <1>3, <1>4, <1>5, <1>6, <1>7, <1>8, <1>9 DEF Next, Prefetcher, Spawner

(* In every lap the Spawner dispatches the entries that the Prefetcher has *)
(* prefetched, although each finds the end of the log for itself.          *)
THEOREM CursorsMeetHolds == Spec => []CursorsMeet
<1>1. Init => WalkInv
  <2> SUFFICES ASSUME Init PROVE WalkInv
    OBVIOUS
  <2>1. <<0>> \in Seq(Nat) /\ Len(<<0>>) = 1 /\ <<0>>[1] = 0
    OBVIOUS
  <2>2. Walk(<<0>>)
    BY <2>1 DEF Init, Walk
  <2> QED
    BY <2>1, <2>2 DEF WalkInv
<1>2. IInv /\ WalkInv => CursorsMeet
  BY DEF WalkInv, Walk, CursorsMeet
<1> QED
  BY <1>1, <1>2, WalkStep, Invariance, PTL DEF Spec

(* For two laps' worth of requests, in particular for the RPC_LOG_SIZE     *)
(* requests of a log of as many entries, the entry that the Spawner        *)
(* dispatches has been prepared by the Indexer.                            *)
THEOREM PreparedBeforeDispatchHolds == Spec => []PreparedBeforeDispatch
<1>1. IInv => PreparedBeforeDispatch
  <2> SUFFICES ASSUME IInv, sp_pc = "dispatch",
                      txn_log_id < 2 * (Count - MaxBatch + 1)
               PROVE  sp_idx \in cown_ptrs
    BY DEF PreparedBeforeDispatch
  <2> USE PipelineAssumption
  <2> DEFINE b == ring_pref_disp[1]
  <2>1. ring_pref_disp # <<>> /\ sp_i < b.sz
    BY DEF IInv, ChainInv
  <2>2. /\ b.sz \in 1..MaxBatch /\ b.end \in Nat
        /\ b.end <= Forwarded /\ Spawned = b.end - b.sz
        /\ Prepared(b)
    BY <2>1, ChainFacts DEF IInv, ChainInv, Chained, Start, PrepareInv
  <2> HIDE DEF b
  <2>3. /\ Spawned = txn_log_id - sp_i /\ sp_i \in Nat /\ txn_log_id \in Nat
        /\ sp_idx \in Nat /\ LastStart \in Nat /\ LastStart = Count - MaxBatch
    BY DEF Spawned, LastStart, IInv, TypeOK
  <2>4. CASE Spawned <= LastStart
    <3>1. sp_idx = txn_log_id /\ txn_log_id \in (b.end - b.sz)..(b.end - 1)
      BY <2>1, <2>2, <2>3, <2>4 DEF IInv, CursorInv
    <3> QED
      BY <3>1, <2>2, <2>4 DEF Prepared
  <2>5. CASE Spawned > LastStart
    <3>1. sp_idx <= txn_log_id - (LastStart + 1)
      BY <2>5 DEF IInv, CursorInv
    <3>2. sp_idx \in 0..LastStart
      BY <3>1, <2>3
    <3>3. sp_idx < Taken
      BY <3>1, <2>1, <2>2, <2>3, ChainFacts
    <3> QED
      BY <3>2, <3>3 DEF IInv, PrepareInv
  <2> QED
    BY <2>2, <2>3, <2>4, <2>5
<1> QED
  BY <1>1, Invariance, PTL

(* Multiplication is monotonic, which the SMT solver does not know. *)
LEMMA TimesMonotone ==
  ASSUME NEW m \in Nat, NEW a \in Nat, NEW b \in Nat, a <= b
  PROVE  m * a <= m * b
<1>1. m * b = m * a + m * (b - a)
  OBVIOUS
<1>2. m * (b - a) >= 0
  OBVIOUS
<1>3. m * a \in Int /\ m * (b - a) \in Int
  OBVIOUS
<1> QED
  BY <1>1, <1>2, <1>3

(* A first batch of size s that ends at f widens a gap of at most x by at  *)
(* most a full batch.                                                      *)
LEMMA SpanGap ==
  ASSUME NEW b \in Nat, NEW f \in Nat, NEW x \in Int, NEW s \in 1..MaxBatch,
         b - f <= x
  PROVE  b - (f - s) <= x + MaxBatch
  BY PipelineAssumption

(* The span of a chained ring is at most MaxBatch per batch. *)
LEMMA ChainSpan ==
  ASSUME NEW q \in Seq(Batch), NEW base \in Nat, Chained(q, base)
  PROVE  base - Start(q, base) <= MaxBatch * Len(q)
<1> USE PipelineAssumption
<1>1. CASE q = <<>>
  BY <1>1, EmptySeq DEF Start
<1>2. CASE q # <<>>
  <2>1. 1 \in 1..Len(q) /\ Len(q) \in Nat /\ q[1] \in Batch
    BY <1>2, TailFacts
  <2>2. q[1].sz \in 1..MaxBatch /\ q[1].end \in Nat
    BY <2>1 DEF Batch
  <2>3. base - q[1].end <= MaxBatch * (Len(q) - 1)
    BY <2>1 DEF Chained
  <2>4. MaxBatch * Len(q) = MaxBatch * (Len(q) - 1) + MaxBatch
    BY <2>1
  <2>5. MaxBatch * (Len(q) - 1) \in Int
    BY <2>1
  <2> DEFINE X == MaxBatch * (Len(q) - 1)
  <2>6. base - (q[1].end - q[1].sz) <= X + MaxBatch
    <3>1. X \in Int /\ base - q[1].end <= X
      BY <2>3, <2>5
    <3> HIDE DEF X
    <3> QED
      BY <3>1, <2>2, SpanGap
  <2> QED
    BY <2>4, <2>6, <1>2 DEF Start
<1> QED
  BY <1>1, <1>2

(* The Indexer is at most two full rings and one batch ahead of the        *)
(* Spawner.                                                                *)
THEOREM BackPressureHolds == Spec => []BackPressure
<1>1. IInv => BackPressure
  <2> SUFFICES ASSUME IInv PROVE BackPressure
    OBVIOUS
  <2> USE PipelineAssumption
  <2> DEFINE L1 == Len(ring_idx_pref)
             L2 == Len(ring_pref_disp)
  <2>1. L1 \in Nat /\ L2 \in Nat /\ L1 <= ChannelSizeIdxPref /\ L2 <= ChannelSize
    BY LenProperties DEF IInv, TypeOK
  <2>2. Taken - Start(ring_idx_pref, Taken) <= MaxBatch * L1
    BY ChainFacts, ChainSpan DEF IInv, TypeOK, ChainInv
  <2>3. Forwarded - Start(ring_pref_disp, Forwarded) <= MaxBatch * L2
    BY ChainFacts, ChainSpan DEF IInv, TypeOK, ChainInv
  <2>4. Start(ring_idx_pref, Taken) <= Forwarded /\ Start(ring_idx_pref, Taken) \in Int
    BY ChainFacts DEF Forwarded, Start, IInv, ChainInv
  <2>5. Start(ring_pref_disp, Forwarded) = Spawned /\ Spawned <= txn_log_id
    BY DEF IInv, ChainInv, Spawned, TypeOK
  <2>6. handled_req_cnt <= Taken + MaxBatch
    BY DEF IInv, IxInv, Taken, TypeOK
  <2>7. /\ MaxBatch * L1 <= MaxBatch * ChannelSizeIdxPref
        /\ MaxBatch * L2 <= MaxBatch * ChannelSize
    BY <2>1, TimesMonotone
  <2>8. MaxBatch * (ChannelSizeIdxPref + ChannelSize + 1)
          = MaxBatch * ChannelSizeIdxPref + MaxBatch * ChannelSize + MaxBatch
    OBVIOUS
  <2>9. /\ MaxBatch * L1 \in Int /\ MaxBatch * L2 \in Int
        /\ MaxBatch * ChannelSizeIdxPref \in Int /\ MaxBatch * ChannelSize \in Int
    BY <2>1
  <2> DEFINE X1 == MaxBatch * L1
             X2 == MaxBatch * L2
             Y1 == MaxBatch * ChannelSizeIdxPref
             Y2 == MaxBatch * ChannelSize
  <2>10. handled_req_cnt - txn_log_id <= Y1 + Y2 + MaxBatch
    <3>1. /\ X1 \in Int /\ X2 \in Int /\ Y1 \in Int /\ Y2 \in Int
          /\ X1 <= Y1 /\ X2 <= Y2
          /\ Taken - Start(ring_idx_pref, Taken) <= X1
          /\ Forwarded - Spawned <= X2
      BY <2>2, <2>3, <2>5, <2>7, <2>9
    <3>2. /\ Taken \in Nat /\ Forwarded \in Nat /\ Spawned \in Nat
          /\ handled_req_cnt \in Nat /\ txn_log_id \in Nat
      BY ChainFacts DEF IInv, TypeOK
    <3> HIDE DEF X1, X2, Y1, Y2
    <3> QED
      BY <3>1, <3>2, <2>4, <2>5, <2>6
  <2> QED
    BY <2>8, <2>10 DEF BackPressure
<1> QED
  BY <1>1, Invariance, PTL

=============================================================================
