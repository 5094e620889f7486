----------------------------- MODULE YcsbProofs ------------------------------
(***************************************************************************)
(* Determinism of YCSB, for any log, any rows and any number of workers:   *)
(* Ycsb implements SerialExecution.  A transaction takes effect when it is *)
(* spawned, and no later step of a worker changes what the rows become     *)
(* when all spawned transactions have run.  The argument is the one of the *)
(* README: a running transaction owns its rows, the earlier ones that      *)
(* share a row with it have finished, and the others neither read nor      *)
(* write what it reads and writes.                                         *)
(*                                                                         *)
(* Two operators are recursive, the sums of a transaction and After.  That *)
(* the recursions have the values their equations say, and what follows    *)
(* from that by induction, is proved from NatSetInduction of SumTheorems.  *)
(***************************************************************************)
EXTENDS Ycsb, SumTheorems

RP == INSTANCE RuntimeProofs WITH Cowns <- Rows, NumTxns <- Len(Log),
                                  Whens <- {ToSet(Log[n].indices) : n \in 1..Len(Log)}

-----------------------------------------------------------------------------
(* One step of the recursion in SumBefore, f being what it has defined. *)
SumStep(f, d, t, i, s, j) ==
  IF j <= i THEN s
  ELSE IF t.write_set[j - 1] THEN f[j - 1]
  ELSE (f[j - 1] + S!SumOf(d[t.indices[j - 1]])) % ByteMod

(* The sums of a transaction satisfy their recursive equation. *)
LEMMA SumBeforeEquation ==
  ASSUME NEW d, NEW t, NEW i \in Nat \ {0}, NEW s, Len(t.indices) \in Nat
  PROVE  \A j \in 1..Len(t.indices) :
           S!SumBefore(d, t, i, s)[j] = SumStep(S!SumBefore(d, t, i, s), d, t, i, s, j)
<1> DEFINE step(g, j) == SumStep(g, d, t, i, s, j)
           eq(g, n) == g = [j \in 1..n |-> step(g, j)]
           X == {n \in Nat : \E g : eq(g, n)}
<1>1. S!SumBefore(d, t, i, s) = CHOOSE g : eq(g, Len(t.indices))
  BY DEF S!SumBefore, SumStep
<1>2. \E g : eq(g, Len(t.indices))
  <2>1. 0 \in X
    <3>1. eq([j \in 1..0 |-> 0], 0)
      OBVIOUS
    <3> QED
      BY <3>1
  <2>2. ASSUME NEW n \in Nat, n \in X PROVE n + 1 \in X
    <3>1. PICK g : eq(g, n)
      BY <2>2
    <3> DEFINE h == [j \in 1..(n + 1) |-> IF j = n + 1 THEN step(g, j) ELSE g[j]]
    <3>2. \A j \in 1..(n + 1) : h[j] = step(h, j)
      <4> SUFFICES ASSUME NEW j \in 1..(n + 1) PROVE h[j] = step(h, j)
        OBVIOUS
      <4>1. h[j] = step(g, j)
        BY <3>1
      <4>2. j - 1 \in 1..n => h[j - 1] = g[j - 1]
        OBVIOUS
      <4>3. CASE j - 1 \in 1..n
        BY <4>1, <4>2, <4>3 DEF SumStep
      <4>4. CASE j = 1
        BY <4>1, <4>4 DEF SumStep
      <4> QED
        BY <4>3, <4>4
    <3>3. eq(h, n + 1)
      BY <3>2
    <3> HIDE DEF eq, h
    <3> QED
      BY <3>3
  <2> HIDE DEF X
  <2>3. Nat \subseteq X
    BY <2>1, <2>2, NatSetInduction
  <2> QED
    BY <2>3 DEF X
<1>3. eq(S!SumBefore(d, t, i, s), Len(t.indices))
  <2> HIDE DEF eq
  <2> QED
    BY <1>1, <1>2
<1> DEFINE f == S!SumBefore(d, t, i, s)
<1> HIDE DEF f
<1>4. f = [j \in 1..Len(t.indices) |-> step(f, j)]
  BY <1>3 DEF f
<1>5. \A j \in 1..Len(t.indices) : f[j] = step(f, j)
  BY <1>4
<1> QED
  BY <1>5 DEF f

(* They start with the sum given. *)
LEMMA SumBeforeStart ==
  ASSUME NEW d, NEW t, NEW i \in Nat \ {0}, NEW s, Len(t.indices) \in Nat,
         i <= Len(t.indices)
  PROVE  S!SumBefore(d, t, i, s)[i] = s
<1> DEFINE f == S!SumBefore(d, t, i, s)
<1>1. f[i] = SumStep(f, d, t, i, s, i)
  BY SumBeforeEquation
<1> QED
  BY <1>1 DEF SumStep

(* From the point where two runs of a transaction have the same sum, they  *)
(* have the same sums if they read the same rows.                          *)
LEMMA SumBeforeAgrees ==
  ASSUME NEW d, NEW e, NEW t, Len(t.indices) \in Nat,
         NEW i \in Nat \ {0}, NEW s, NEW k \in Nat \ {0}, NEW u,
         NEW m \in 1..Len(t.indices), i <= m, k <= m,
         S!SumBefore(d, t, i, s)[m] = S!SumBefore(e, t, k, u)[m],
         \A j \in m..Len(t.indices) : d[t.indices[j]] = e[t.indices[j]]
  PROVE  \A j \in m..Len(t.indices) :
           S!SumBefore(d, t, i, s)[j] = S!SumBefore(e, t, k, u)[j]
<1> DEFINE f == S!SumBefore(d, t, i, s)
           g == S!SumBefore(e, t, k, u)
           X == {n \in Nat : m + n <= Len(t.indices) => f[m + n] = g[m + n]}
<1>1. 0 \in X
  OBVIOUS
<1>2. ASSUME NEW n \in Nat, n \in X PROVE n + 1 \in X
  <2> SUFFICES ASSUME m + (n + 1) <= Len(t.indices)
               PROVE  f[m + (n + 1)] = g[m + (n + 1)]
    OBVIOUS
  <2> DEFINE j == m + (n + 1)
  <2>1. /\ j \in 1..Len(t.indices) /\ j - 1 \in 1..Len(t.indices) /\ ~(j <= i) /\ ~(j <= k)
        /\ f[j - 1] = g[j - 1] /\ d[t.indices[j - 1]] = e[t.indices[j - 1]]
    BY <1>2
  <2> HIDE DEF j
  <2>2. f[j] = SumStep(f, d, t, i, s, j) /\ g[j] = SumStep(g, e, t, k, u, j)
    BY <2>1, SumBeforeEquation
  <2> HIDE DEF f, g
  <2>3. SumStep(f, d, t, i, s, j) = SumStep(g, e, t, k, u, j)
    BY <2>1 DEF SumStep
  <2>4. f[j] = g[j]
    BY <2>2, <2>3
  <2> QED
    BY <2>4 DEF j
<1> HIDE DEF X
<1>3. Nat \subseteq X
  BY <1>1, <1>2, NatSetInduction
<1> SUFFICES ASSUME NEW j \in m..Len(t.indices) PROVE f[j] = g[j]
  OBVIOUS
<1>4. j - m \in X /\ m + (j - m) = j
  BY <1>3
<1> QED
  BY <1>4 DEF X

-----------------------------------------------------------------------------
(* The transactions of the log. *)
WellFormed(t) ==
  /\ t.indices \in Seq(Rows)
  /\ \A k \in 1..Len(t.indices) : t.write_set[k] \in BOOLEAN
  /\ \A j, k \in 1..Len(t.indices) : j # k => t.indices[j] # t.indices[k]

RowsOf(n) == ToSet(Log[n].indices)

LEMMA LogWellFormed ==
  ASSUME NEW n \in 1..Len(Log)
  PROVE  WellFormed(Log[n]) /\ RowsOf(n) \subseteq Rows
<1> DEFINE t == Log[n]
<1>1. t \in [indices : Seq(Rows), write_set : Seq(BOOLEAN)]
  <2> DEFINE entries == [indices : Seq(Rows), write_set : Seq(BOOLEAN)]
  <2>1. Log \in Seq(entries)
    BY YcsbAssumption
  <2> HIDE DEF entries
  <2>2. Log[n] \in entries
    BY <2>1
  <2> QED
    BY <2>2 DEF entries
<1>2. /\ Len(t.indices) = Len(t.write_set)
      /\ \A j, k \in 1..Len(t.indices) : j # k => t.indices[j] # t.indices[k]
  BY YcsbAssumption
<1> HIDE DEF t
<1>3. t.indices \in Seq(Rows) /\ t.write_set \in Seq(BOOLEAN)
  BY <1>1
<1>4. \A k \in 1..Len(t.indices) : t.write_set[k] \in BOOLEAN
  BY <1>2, <1>3
<1>5. ToSet(t.indices) \subseteq Rows
  BY <1>3 DEF ToSet
<1> QED
  BY <1>2, <1>3, <1>4, <1>5 DEF WellFormed, RowsOf, t

(* Where t writes row r, from its i-th row on. *)
Writes(t, i, r) == {j \in i..Len(t.indices) : t.indices[j] = r /\ t.write_set[j]}

WriteAt(t, i, r) == CHOOSE j \in Writes(t, i, r) : TRUE

LEMMA RunFromAt ==
  ASSUME NEW d, NEW t, NEW i, NEW s, NEW r \in Rows
  PROVE  /\ Writes(t, i, r) = {} => S!RunFrom(d, t, i, s)[r] = d[r]
         /\ Writes(t, i, r) # {} =>
              S!RunFrom(d, t, i, s)[r] =
                S!Memset(d[r], S!SumBefore(d, t, i, s)[WriteAt(t, i, r)])
BY DEF S!RunFrom, Writes, WriteAt

LEMMA RunFromIsDb ==
  ASSUME NEW d, NEW t, NEW i, NEW s
  PROVE  S!RunFrom(d, t, i, s) = [r \in Rows |-> S!RunFrom(d, t, i, s)[r]]
BY DEF S!RunFrom

(* A transaction changes no rows but its own. *)
LEMMA RunFromFrame ==
  ASSUME NEW d, NEW t, WellFormed(t), NEW i \in Nat \ {0}, NEW s,
         NEW r \in Rows \ ToSet(t.indices)
  PROVE  S!RunFrom(d, t, i, s)[r] = d[r]
<1>1. Writes(t, i, r) = {}
  BY DEF Writes, ToSet, WellFormed
<1> QED
  BY <1>1, RunFromAt

(* What it makes of its rows depends on no others. *)
LEMMA RunFromLocal ==
  ASSUME NEW d, NEW e, NEW t, WellFormed(t), NEW i \in Nat \ {0}, NEW s,
         \A r \in ToSet(t.indices) : d[r] = e[r],
         NEW r \in ToSet(t.indices)
  PROVE  S!RunFrom(d, t, i, s)[r] = S!RunFrom(e, t, i, s)[r]
<1> DEFINE W == Writes(t, i, r)
           j == WriteAt(t, i, r)
           n == Len(t.indices)
<1>1. n \in Nat /\ r \in Rows /\ d[r] = e[r]
  BY DEF WellFormed, ToSet
<1>2. CASE W = {}
  BY <1>1, <1>2, RunFromAt
<1>3. CASE W # {}
  <2>1. j \in i..n
    BY <1>3 DEF Writes, WriteAt
  <2> HIDE DEF j
  <2>2. S!SumBefore(d, t, i, s)[i] = s /\ S!SumBefore(e, t, i, s)[i] = s
    BY <1>1, <2>1, SumBeforeStart
  <2>3. \A k \in i..n : d[t.indices[k]] = e[t.indices[k]]
    BY DEF ToSet, WellFormed
  <2>4. S!SumBefore(d, t, i, s)[j] = S!SumBefore(e, t, i, s)[j]
    BY <1>1, <2>1, <2>2, <2>3, SumBeforeAgrees
  <2> QED
    BY <1>1, <1>3, <2>4, RunFromAt DEF j
<1> QED
  BY <1>2, <1>3

(* At the end of the rows, nothing is left to do. *)
LEMMA RunFromEnd ==
  ASSUME NEW d, d = [r \in Rows |-> d[r]], NEW t, WellFormed(t),
         NEW i \in Nat, i > Len(t.indices), NEW s
  PROVE  S!RunFrom(d, t, i, s) = d
<1>1. \A r \in Rows : Writes(t, i, r) = {}
  BY DEF Writes, WellFormed
<1> QED
  BY <1>1 DEF S!RunFrom, Writes

(* TXN on the i-th row is the first step of what is left to do. *)
LEMMA RunFromStep ==
  ASSUME NEW d, d = [r \in Rows |-> d[r]], NEW t, WellFormed(t),
         NEW i \in 1..Len(t.indices), NEW s, NEW e, NEW u,
         \/ /\ t.write_set[i] /\ u = s
            /\ e = [d EXCEPT ![t.indices[i]] = S!Memset(d[t.indices[i]], s)]
         \/ /\ ~t.write_set[i] /\ e = d
            /\ u = (s + S!SumOf(d[t.indices[i]])) % ByteMod
  PROVE  S!RunFrom(d, t, i, s) = S!RunFrom(e, t, i + 1, u)
<1> DEFINE n == Len(t.indices)
           row == t.indices[i]
           f == S!SumBefore(d, t, i, s)
           g == S!SumBefore(e, t, i + 1, u)
<1>1. /\ n \in Nat /\ i \in Nat \ {0} /\ i + 1 \in Nat \ {0} /\ row \in Rows
      /\ t.write_set[i] \in BOOLEAN
      /\ \A j \in 1..n : j # i => t.indices[j] # row
      /\ \A j \in 1..n : t.indices[j] \in Rows
  BY DEF WellFormed
<1>2. \A j \in (i + 1)..n : f[j] = g[j]
  <2> SUFFICES ASSUME i + 1 <= n PROVE \A j \in (i + 1)..n : f[j] = g[j]
    BY <1>1
  <2>1. f[i] = s /\ g[i + 1] = u
    BY <1>1, SumBeforeStart
  <2>2. f[i + 1] = SumStep(f, d, t, i, s, i + 1)
    BY <1>1, SumBeforeEquation
  <2>3. (i + 1) - 1 = i /\ ~(i + 1 <= i)
    BY <1>1
  <2>4. f[i + 1] = IF t.write_set[i] THEN s ELSE (s + S!SumOf(d[row])) % ByteMod
    <3> HIDE DEF f
    <3> QED
      BY <2>1, <2>2, <2>3 DEF SumStep
  <2>5. f[i + 1] = g[i + 1]
    BY <2>1, <2>4
  <2>6. \A j \in (i + 1)..n : d[t.indices[j]] = e[t.indices[j]]
    BY <1>1
  <2> DEFINE m == i + 1
  <2>7. m \in 1..n /\ i <= m /\ m <= m /\ m \in Nat \ {0}
    BY <1>1
  <2>8. /\ S!SumBefore(d, t, i, s)[m] = S!SumBefore(e, t, m, u)[m]
        /\ \A j \in m..n : d[t.indices[j]] = e[t.indices[j]]
    BY <2>5, <2>6
  <2> HIDE DEF m
  <2>9. \A j \in m..n : f[j] = S!SumBefore(e, t, m, u)[j]
    BY ONLY <1>1, <2>7, <2>8, SumBeforeAgrees
  <2> QED
    BY <2>9 DEF m
<1>3. ASSUME NEW r \in Rows
      PROVE  S!RunFrom(d, t, i, s)[r] = S!RunFrom(e, t, i + 1, u)[r]
  <2>1. CASE t.write_set[i] /\ r = row
    <3>1. Writes(t, i, r) = {i} /\ Writes(t, i + 1, r) = {}
      BY <1>1, <2>1 DEF Writes
    <3>2. WriteAt(t, i, r) = i
      BY <3>1 DEF WriteAt
    <3>3. S!RunFrom(d, t, i, s)[r] = S!Memset(d[r], f[i])
      <4>1. Writes(t, i, r) # {}
        BY <3>1
      <4>2. S!RunFrom(d, t, i, s)[r] = S!Memset(d[r], f[WriteAt(t, i, r)])
        BY <4>1, RunFromAt
      <4> QED
        BY <3>2, <4>2
    <3>4. S!RunFrom(e, t, i + 1, u)[r] = e[r]
      BY <3>1, RunFromAt
    <3>5. e[r] = S!Memset(d[r], s)
      BY <2>1
    <3>6. f[i] = s
      BY <1>1, SumBeforeStart
    <3> QED
      BY <3>3, <3>4, <3>5, <3>6
  <2>2. CASE ~(t.write_set[i] /\ r = row)
    <3>1. Writes(t, i, r) = Writes(t, i + 1, r)
      BY <1>1, <2>2 DEF Writes
    <3>2. d[r] = e[r]
      BY <1>1, <2>2
    <3>3. CASE Writes(t, i, r) = {}
      BY <3>1, <3>2, <3>3, RunFromAt
    <3>4. CASE Writes(t, i, r) # {}
      <4>1. WriteAt(t, i, r) = WriteAt(t, i + 1, r)
        BY <3>1 DEF WriteAt
      <4>2. WriteAt(t, i, r) \in (i + 1)..n
        BY <3>1, <3>4 DEF WriteAt, Writes
      <4>3. f[WriteAt(t, i, r)] = g[WriteAt(t, i + 1, r)]
        BY <1>2, <4>1, <4>2
      <4>4. /\ S!RunFrom(d, t, i, s)[r] = S!Memset(d[r], f[WriteAt(t, i, r)])
            /\ S!RunFrom(e, t, i + 1, u)[r] = S!Memset(e[r], g[WriteAt(t, i + 1, r)])
        BY <3>1, <3>4, RunFromAt
      <4> QED
        BY <3>2, <4>3, <4>4
    <3> QED
      BY <3>3, <3>4
  <2> QED
    BY <2>1, <2>2
<1> QED
  BY <1>3, RunFromIsDb

-----------------------------------------------------------------------------
(* Every step of Ycsb is one of the runtime, or leaves the runtime alone.  *)
LEMMA RuntimeAssumptionHolds == RP!RuntimeAssumption
BY YcsbAssumption, LogWellFormed DEF RowsOf

LEMMA ImplementsRuntime == Spec => RP!RtSpec
<1> USE DEF RP!Txns, Txns
<1>1. Init => RP!RtInit
  BY DEF Init, RtInit, RP!RtInit
<1>2. spawned \in Nat /\ [Next]_vars => [RP!RtNext]_(RP!rtVars)
  <2> SUFFICES ASSUME spawned \in Nat, [Next]_vars PROVE RP!RtNext \/ UNCHANGED RP!rtVars
    OBVIOUS
  <2>1. CASE ParseAndProcess
    <3>1. spawned + 1 \in 1..Len(Log)
      BY <2>1, YcsbAssumption DEF ParseAndProcess
    <3>2. RP!Spawn(ToSet(Log[spawned + 1].indices))
      BY <2>1 DEF ParseAndProcess, Spawn, RP!Spawn
    <3> QED
      BY <3>1, <3>2 DEF RP!RtNext, RP!RtSpawner
  <2>2. ASSUME NEW r \in Rows, Join(r) PROVE RP!RtNext
    <3>1. RP!Exchange(r)
      BY <2>2 DEF Join, Exchange, RP!Exchange
    <3> QED
      BY <3>1 DEF RP!RtNext, RP!RtSpawner
  <2>3. ASSUME NEW w \in Workers, NEW n \in Txns, Enter(w, n) PROVE RP!RtNext
    <3>1. RP!Start(w, n)
      BY <2>3 DEF Enter, Start, RP!Start, Ready, RP!Ready
    <3> QED
      BY <3>1 DEF RP!RtNext, RP!RtWorker
  <2>4. ASSUME NEW w \in Workers, Txn(w) PROVE UNCHANGED RP!rtVars
    BY <2>4 DEF Txn, runtimeVars, RP!rtVars
  <2>5. ASSUME NEW w \in Workers, Leave(w) PROVE RP!RtNext
    <3>1. RP!Finish(w)
      BY <2>5 DEF Leave, Finish, RP!Finish
    <3> QED
      BY <3>1 DEF RP!RtNext, RP!RtWorker
  <2>6. CASE Done \/ UNCHANGED vars
    BY <2>6 DEF Done, vars, runtimeVars, RP!rtVars
  <2> QED
    BY <2>1, <2>2, <2>3, <2>4, <2>5, <2>6 DEF Next
<1>3. Init => spawned \in Nat
  BY DEF Init, RtInit
<1>4. spawned \in Nat /\ [Next]_vars => (spawned \in Nat)'
  <2> SUFFICES ASSUME spawned \in Nat, [Next]_vars
               PROVE  spawned' = spawned + 1 \/ spawned' = spawned
    OBVIOUS
  <2>1. ParseAndProcess => spawned' = spawned + 1
    BY DEF ParseAndProcess, Spawn
  <2>2. \A r \in Rows : Join(r) => spawned' = spawned
    BY DEF Join, Exchange
  <2>3. \A w \in Workers : (\E n \in Txns : Enter(w, n)) \/ Txn(w) \/ Leave(w)
                           => spawned' = spawned
    BY DEF Enter, Start, Txn, Leave, Finish, runtimeVars
  <2>4. Done \/ UNCHANGED vars => spawned' = spawned
    BY DEF Done, vars, runtimeVars
  <2> QED
    BY <2>1, <2>2, <2>3, <2>4 DEF Next
<1> QED
  BY <1>1, <1>2, <1>3, <1>4, PTL DEF Spec, RP!RtSpec

(* What the refinement needs besides the runtime's invariant: behaviours   *)
(* name the rows of their transactions, and the lambdas' locals are those  *)
(* of running lambdas.                                                     *)
YcsbInv ==
  /\ payload = [r \in Rows |-> payload[r]]
  /\ \A n \in 1..spawned : cownsOf[n] = RowsOf(n)
  /\ index \in [Workers -> Nat] /\ sum = [w \in Workers |-> sum[w]]
  /\ \A w \in Workers : running[w] # 0 => index[w] # 0

LEMMA YcsbInvariance == Spec => [](YcsbInv /\ RP!RtIInv)
<1>1. Init => YcsbInv
  BY DEF Init, RtInit, YcsbInv
<1>2. YcsbInv /\ RP!RtIInv /\ [Next]_vars => YcsbInv'
  <2> SUFFICES ASSUME YcsbInv, RP!RtIInv, [Next]_vars PROVE YcsbInv'
    OBVIOUS
  <2> USE DEF YcsbInv
  <2>0. /\ spawned \in 0..Len(Log) /\ Len(Log) \in Nat
        /\ cownsOf \in [1..Len(Log) -> SUBSET Rows]
        /\ running \in [Workers -> 0..Len(Log)]
    BY YcsbAssumption DEF RP!RtIInv, RP!RtTypeOK, RP!Txns
  <2>1. CASE ParseAndProcess
    <3>1. /\ spawned' = spawned + 1 /\ spawned < Len(Log)
          /\ cownsOf' = [cownsOf EXCEPT ![spawned + 1] = RowsOf(spawned + 1)]
          /\ UNCHANGED <<payload, index, sum, running>>
      BY <2>1 DEF ParseAndProcess, Spawn, RowsOf, ycsbVars
    <3>2. \A n \in 1..spawned' : cownsOf'[n] = RowsOf(n)
      BY <2>0, <3>1
    <3> QED
      BY <3>1, <3>2
  <2>2. ASSUME NEW r \in Rows, Join(r) PROVE YcsbInv'
    BY <2>2 DEF Join, Exchange, ycsbVars
  <2>3. ASSUME NEW w \in Workers, NEW n \in Txns, Enter(w, n) PROVE YcsbInv'
    <3>1. /\ UNCHANGED <<spawned, cownsOf, payload>>
          /\ running' = [running EXCEPT ![w] = n] /\ index' = [index EXCEPT ![w] = 1]
          /\ sum' = [sum EXCEPT ![w] = 0]
      BY <2>3 DEF Enter, Start
    <3>2. sum' = [v \in Workers |-> sum'[v]]
      BY <3>1
    <3>3. index' \in [Workers -> Nat] /\ \A v \in Workers : running'[v] # 0 => index'[v] # 0
      BY <2>0, <3>1
    <3> QED
      BY <3>1, <3>2, <3>3
  <2>4. ASSUME NEW w \in Workers, Txn(w) PROVE YcsbInv'
    <3>1. /\ UNCHANGED <<spawned, cownsOf, running>> /\ running[w] # 0
          /\ index' = [index EXCEPT ![w] = index[w] + 1]
      BY <2>4 DEF Txn, runtimeVars
    <3>2. payload' = [r \in Rows |-> payload'[r]]
      BY <2>4 DEF Txn
    <3>3. sum' = [v \in Workers |-> sum'[v]]
      BY <2>4 DEF Txn
    <3>4. index' \in [Workers -> Nat] /\ \A v \in Workers : running'[v] # 0 => index'[v] # 0
      BY <3>1
    <3> QED
      BY <3>1, <3>2, <3>3, <3>4
  <2>5. ASSUME NEW w \in Workers, Leave(w) PROVE YcsbInv'
    BY <2>0, <2>5 DEF Leave, Finish
  <2>6. CASE Done \/ UNCHANGED vars
    BY <2>6 DEF Done, vars, runtimeVars, ycsbVars
  <2> QED
    BY <2>1, <2>2, <2>3, <2>4, <2>5, <2>6 DEF Next
<1> QED
  BY <1>1, <1>2, ImplementsRuntime, RuntimeAssumptionHolds, RP!RtInvariance, PTL DEF Spec

-----------------------------------------------------------------------------
AfterEq ==
  /\ After[0] = payload
  /\ \A n \in 1..Len(Log) : After[n] = Rest(After[n - 1], n)

(* After satisfies its recursive equation. *)
LEMMA AfterEquation == AfterEq
<1> DEFINE step(g, k) == IF k = 0 THEN payload ELSE Rest(g[k - 1], k)
           eq(g, n) == g = [k \in 0..n |-> step(g, k)]
           X == {n \in Nat : \E g : eq(g, n)}
<1>0. Len(Log) \in Nat
  BY YcsbAssumption
<1>1. After = CHOOSE g : eq(g, Len(Log))
  BY DEF After
<1>2. \E g : eq(g, Len(Log))
  <2>1. 0 \in X
    <3>1. eq([k \in 0..0 |-> payload], 0)
      OBVIOUS
    <3> HIDE DEF eq
    <3> QED
      BY <3>1
  <2>2. ASSUME NEW n \in Nat, n \in X PROVE n + 1 \in X
    <3>1. PICK g : eq(g, n)
      BY <2>2
    <3> DEFINE h == [k \in 0..(n + 1) |-> IF k = n + 1 THEN step(g, k) ELSE g[k]]
    <3>2. ASSUME NEW k \in 0..(n + 1) PROVE h[k] = step(h, k)
      <4>1. h[k] = step(g, k)
        BY <3>1
      <4>2. CASE k - 1 \in 0..n
        <5>1. h[k - 1] = g[k - 1]
          BY <4>2
        <5> HIDE DEF h
        <5> QED
          BY <4>1, <5>1
      <4>3. CASE k = 0
        BY <4>1, <4>3
      <4> QED
        BY <4>2, <4>3
    <3>3. eq(h, n + 1)
      BY <3>2
    <3> HIDE DEF eq, h
    <3> QED
      BY <3>3
  <2> HIDE DEF X
  <2>3. Nat \subseteq X
    BY <2>1, <2>2, NatSetInduction
  <2> QED
    BY <1>0, <2>3 DEF X
<1>3. eq(After, Len(Log))
  <2> HIDE DEF eq
  <2> QED
    BY <1>1, <1>2
<1>4. \A k \in 0..Len(Log) : After[k] = step(After, k)
  <2> DEFINE f == After
  <2> HIDE DEF f
  <2>1. f = [k \in 0..Len(Log) |-> step(f, k)]
    BY <1>3 DEF f
  <2>2. \A k \in 0..Len(Log) : f[k] = step(f, k)
    BY <2>1
  <2> QED
    BY <2>2 DEF f
<1> QED
  BY <1>0, <1>4 DEF AfterEq

LEMMA AfterEquationNext == AfterEq'
BY AfterEquation, PTL

IsDb(d) == d = [r \in Rows |-> d[r]]

(* The rows stay those of the database. *)
LEMMA AfterIsDb == YcsbInv => \A n \in 0..Len(Log) : IsDb(After[n])
<1> SUFFICES ASSUME YcsbInv PROVE \A n \in 0..Len(Log) : IsDb(After[n])
  OBVIOUS
<1> DEFINE X == {n \in Nat : n <= Len(Log) => IsDb(After[n])}
<1>0. Len(Log) \in Nat
  BY YcsbAssumption
<1>1. 0 \in X
  BY AfterEquation DEF AfterEq, YcsbInv, IsDb
<1>2. ASSUME NEW n \in Nat, n \in X PROVE n + 1 \in X
  <2> SUFFICES ASSUME n + 1 <= Len(Log) PROVE IsDb(After[n + 1])
    OBVIOUS
  <2>1. IsDb(After[n]) /\ n + 1 \in 1..Len(Log) /\ (n + 1) - 1 = n
    BY <1>0, <1>2
  <2>2. After[n + 1] = Rest(After[n], n + 1)
    BY <2>1, AfterEquation DEF AfterEq
  <2>3. \/ Rest(After[n], n + 1) = After[n]
        \/ \E i, s : Rest(After[n], n + 1) = S!RunFrom(After[n], Log[n + 1], i, s)
    BY DEF Rest, S!Execute
  <2> QED
    BY <2>1, <2>2, <2>3, RunFromIsDb DEF IsDb
<1> HIDE DEF X
<1>3. Nat \subseteq X
  BY <1>1, <1>2, NatSetInduction
<1> QED
  BY <1>0, <1>3 DEF X

LEMMA AfterIsDbNext == YcsbInv' => \A n \in 0..Len(Log) : IsDb(After[n])'
<1>1. (YcsbInv => \A n \in 0..Len(Log) : IsDb(After[n]))'
  BY AfterIsDb, PTL
<1> QED
  BY <1>1

(* A step that changes neither a row nor what is left to do does not       *)
(* change the outcome.                                                     *)
LEMMA AfterSame ==
  ASSUME YcsbInv, payload' = payload,
         \A n \in 1..Len(Log) : \A d : IsDb(d) => Rest(d, n)' = Rest(d, n)
  PROVE  \A n \in 0..Len(Log) : After[n]' = After[n]
<1> DEFINE X == {n \in Nat : n <= Len(Log) => After[n]' = After[n]}
<1>0. Len(Log) \in Nat
  BY YcsbAssumption
<1>1. 0 \in X
  BY AfterEquation, AfterEquationNext DEF AfterEq
<1>2. ASSUME NEW n \in Nat, n \in X PROVE n + 1 \in X
  <2> SUFFICES ASSUME n + 1 <= Len(Log) PROVE After[n + 1]' = After[n + 1]
    OBVIOUS
  <2>1. After[n]' = After[n] /\ n \in 0..Len(Log) /\ n + 1 \in 1..Len(Log) /\ (n + 1) - 1 = n
    BY <1>0, <1>2
  <2>2. After[n + 1] = Rest(After[n], n + 1)
    BY <2>1, AfterEquation DEF AfterEq
  <2>3. After[n + 1]' = Rest(After[n], n + 1)'
    BY <2>1, AfterEquationNext DEF AfterEq
  <2> QED
    BY <2>1, <2>2, <2>3, AfterIsDb
<1> HIDE DEF X
<1>3. Nat \subseteq X
  BY <1>1, <1>2, NatSetInduction
<1> QED
  BY <1>0, <1>3 DEF X

-----------------------------------------------------------------------------
(* No two workers run the same transaction. *)
LEMMA WorkerOfIs ==
  ASSUME RP!RtIInv, NEW w \in Workers, running[w] # 0
  PROVE  WorkerOf(running[w]) = w
BY DEF RP!RtIInv, RP!RunInv, WorkerOf

LEMMA WorkerOfIsNext ==
  ASSUME RP!RtIInv', NEW w \in Workers, running'[w] # 0
  PROVE  WorkerOf(running[w])' = w
BY DEF RP!RtIInv, RP!RunInv, WorkerOf

(* What is left of n does not change, unless n's own lambda does. *)
LEMMA RestKept ==
  ASSUME RP!RtIInv, RP!RtIInv', NEW n \in 1..Len(Log),
         n \in finished' <=> n \in finished,
         \A v \in Workers : running'[v] = n <=> running[v] = n,
         \A v \in Workers : running[v] = n => index'[v] = index[v] /\ sum'[v] = sum[v],
         NEW d
  PROVE  Rest(d, n)' = Rest(d, n)
<1>1. CASE n \in finished
  BY <1>1 DEF Rest
<1>2. CASE n \notin finished /\ \A v \in Workers : running[v] # n
  BY <1>2 DEF Rest
<1>3. ASSUME NEW w \in Workers, n \notin finished, running[w] = n
      PROVE  Rest(d, n)' = Rest(d, n)
  <2>1. running[w] = n /\ running'[w] = n /\ n # 0
    BY <1>3
  <2>2. WorkerOf(n) = w
    BY <2>1, WorkerOfIs
  <2>3. WorkerOf(n)' = w
    BY <2>1, WorkerOfIsNext
  <2>4. Rest(d, n) = S!RunFrom(d, Log[n], index[w], sum[w])
    BY <1>3, <2>2 DEF Rest
  <2>5. Rest(d, n)' = S!RunFrom(d, Log[n], index[w], sum[w])'
    BY <1>3, <2>1, <2>3 DEF Rest
  <2>6. index'[w] = index[w] /\ sum'[w] = sum[w]
    BY <1>3
  <2> QED
    BY <2>4, <2>5, <2>6 DEF S!RunFrom, S!SumBefore
<1> QED
  BY <1>1, <1>2, <1>3

(* Entering a lambda leaves all of it to do. *)
LEMMA EnterStep ==
  ASSUME YcsbInv, RP!RtIInv, RP!RtIInv', NEW w \in Workers, NEW n \in 1..Len(Log),
         Enter(w, n)
  PROVE  \A m \in 0..Len(Log) : After[m]' = After[m]
<1>1. /\ running \in [Workers -> 0..Len(Log)] /\ index \in [Workers -> Nat]
      /\ sum = [v \in Workers |-> sum[v]]
  BY DEF YcsbInv, RP!RtIInv, RP!RtTypeOK
<1>2. /\ running[w] = 0 /\ n \notin finished /\ \A v \in Workers : running[v] # n
      /\ running' = [running EXCEPT ![w] = n] /\ finished' = finished
      /\ sum' = [sum EXCEPT ![w] = 0] /\ index' = [index EXCEPT ![w] = 1]
      /\ payload' = payload
  BY DEF Enter, Start, Ready
<1>3. ASSUME NEW m \in 1..Len(Log), NEW d PROVE Rest(d, m)' = Rest(d, m)
  <2>1. CASE m # n
    <3>1. \A v \in Workers : running'[v] = m <=> running[v] = m
      BY <1>1, <1>2, <2>1
    <3>2. \A v \in Workers : running[v] = m => index'[v] = index[v] /\ sum'[v] = sum[v]
      BY <1>1, <1>2
    <3> QED
      BY <1>2, <3>1, <3>2, RestKept
  <2>2. CASE m = n
    <3>1. running'[w] = n /\ n # 0 /\ index'[w] = 1 /\ sum'[w] = 0
      BY <1>1, <1>2
    <3>2. WorkerOf(n)' = w
      BY <3>1, WorkerOfIsNext
    <3>3. Rest(d, n)' = S!RunFrom(d, Log[n], index[w], sum[w])'
      BY <1>2, <3>1, <3>2 DEF Rest
    <3>4. Rest(d, n) = S!RunFrom(d, Log[n], 1, 0)
      BY <1>2 DEF Rest, S!Execute
    <3> QED
      BY <2>2, <3>1, <3>3, <3>4 DEF S!RunFrom, S!SumBefore
  <2> QED
    BY <2>1, <2>2
<1> QED
  BY <1>2, <1>3, AfterSame

(* A lambda that has come to the end of its rows leaves nothing to do. *)
LEMMA LeaveStep ==
  ASSUME YcsbInv, RP!RtIInv, RP!RtIInv', NEW w \in Workers, Leave(w)
  PROVE  \A m \in 0..Len(Log) : After[m]' = After[m]
<1> DEFINE n == running[w]
<1>1. /\ running \in [Workers -> 0..Len(Log)] /\ index \in [Workers -> Nat]
      /\ \A v \in Workers : v # w => running[v] # n
      /\ n \notin finished
  BY DEF YcsbInv, RP!RtIInv, RP!RtTypeOK, RP!RunInv, Leave
<1>2. /\ n # 0 /\ index[w] > Len(Log[n].indices)
      /\ running' = [running EXCEPT ![w] = 0] /\ finished' = finished \cup {n}
      /\ UNCHANGED <<payload, sum, index>>
  BY DEF Leave, Finish
<1>3. n \in 1..Len(Log)
  BY <1>1, <1>2, YcsbAssumption
<1>4. ASSUME NEW m \in 1..Len(Log), NEW d, IsDb(d) PROVE Rest(d, m)' = Rest(d, m)
  <2>1. CASE m # n
    <3>1. \A v \in Workers : running'[v] = m <=> running[v] = m
      BY <1>1, <1>2, <2>1
    <3>2. \A v \in Workers : running[v] = m => index'[v] = index[v] /\ sum'[v] = sum[v]
      BY <1>2
    <3>3. m \in finished' <=> m \in finished
      BY <1>2, <2>1
    <3> HIDE DEF n
    <3> QED
      BY <3>1, <3>2, <3>3, RestKept
  <2>2. CASE m = n
    <3>1. Rest(d, m)' = d
      BY <1>2, <2>2 DEF Rest
    <3>2. WorkerOf(n) = w
      BY <1>2, WorkerOfIs
    <3>3. Rest(d, n) = S!RunFrom(d, Log[n], index[w], sum[w])
      BY <1>1, <3>2 DEF Rest
    <3>4. index[w] \in Nat /\ WellFormed(Log[n])
      BY <1>1, <1>3, LogWellFormed
    <3> HIDE DEF n
    <3>5. S!RunFrom(d, Log[n], index[w], sum[w]) = d
      BY <1>2, <1>4, <3>4, RunFromEnd DEF IsDb
    <3> QED
      BY <2>2, <3>1, <3>3, <3>5
  <2> QED
    BY <2>1, <2>2
<1> QED
  BY <1>2, <1>4, AfterSame

(* What is left of a transaction is what TXN does from some row on. *)
LEMMA RestIsRun ==
  ASSUME YcsbInv, RP!RtIInv, NEW n \in 1..Len(Log), n \notin finished
  PROVE  \E i \in Nat \ {0} : \E s : \A d : Rest(d, n) = S!RunFrom(d, Log[n], i, s)
<1>1. CASE \A v \in Workers : running[v] # n
  <2>1. \A d : Rest(d, n) = S!RunFrom(d, Log[n], 1, 0)
    BY <1>1 DEF Rest, S!Execute
  <2> QED
    BY <2>1
<1>2. ASSUME NEW w \in Workers, running[w] = n
      PROVE  \E i \in Nat \ {0} : \E s : \A d : Rest(d, n) = S!RunFrom(d, Log[n], i, s)
  <2>1. WorkerOf(n) = w
    BY <1>2, WorkerOfIs
  <2>2. \A d : Rest(d, n) = S!RunFrom(d, Log[n], index[w], sum[w])
    BY <1>2, <2>1 DEF Rest
  <2>3. index[w] \in Nat \ {0}
    BY <1>2 DEF YcsbInv
  <2> QED
    BY <2>2, <2>3
<1> QED
  BY <1>1, <1>2

(* A row more of a lambda.  The transactions before it that are not        *)
(* finished share no row with it, so that they see and leave its rows as   *)
(* it does; and those after it find the rows as they would have.           *)
LEMMA TxnStep ==
  ASSUME YcsbInv, YcsbInv', RP!RtIInv, RP!RtIInv', RP!SpawnOrder,
         NEW w \in Workers, Txn(w)
  PROVE  After[spawned]' = After[spawned]
<1>0. PICK n, i : n = running[w] /\ i = index[w]
  OBVIOUS
<1> DEFINE t == Log[n]
           row == t.indices[i]
           Mine == RowsOf(n)
<1>1. /\ spawned \in 0..Len(Log) /\ Len(Log) \in Nat /\ n \in 1..spawned
      /\ n \in 1..Len(Log) /\ n \notin finished
      /\ spawned' = spawned /\ finished' = finished /\ running' = running
  <2>1. running[w] # 0 /\ UNCHANGED runtimeVars
    BY DEF Txn
  <2>2. n \in 1..spawned /\ n \notin finished
    BY <1>0, <2>1 DEF RP!RtIInv, RP!RunInv
  <2>3. spawned \in 0..Len(Log) /\ Len(Log) \in Nat
    BY YcsbAssumption DEF RP!RtIInv, RP!RtTypeOK
  <2> QED
    BY <2>1, <2>2, <2>3 DEF runtimeVars
<1>2. i \in 1..Len(t.indices) /\ WellFormed(t) /\ Len(t.indices) \in Nat
  <2>1. i \in Nat \ {0} /\ i <= Len(t.indices)
    BY <1>0 DEF Txn, YcsbInv
  <2>2. WellFormed(t)
    BY <1>1, LogWellFormed
  <2> QED
    BY <2>1, <2>2 DEF WellFormed
<1>3. row \in Mine /\ Mine \subseteq Rows
  BY <1>1, <1>2, LogWellFormed DEF RowsOf, ToSet, WellFormed
<1>4. /\ index'[w] = i + 1 /\ payload = [r \in Rows |-> payload[r]]
      /\ \A v \in Workers : v # w => index'[v] = index[v] /\ sum'[v] = sum[v]
      /\ \/ /\ t.write_set[i] /\ sum'[w] = sum[w]
            /\ payload' = [payload EXCEPT ![row] = S!Memset(payload[row], sum[w])]
         \/ /\ ~t.write_set[i] /\ payload' = payload
            /\ sum'[w] = (sum[w] + S!SumOf(payload[row])) % ByteMod
  BY <1>0 DEF Txn, YcsbInv
<1> HIDE DEF t, row, Mine
<1>5. ASSUME NEW m \in 1..Len(Log), m # n, NEW d PROVE Rest(d, m)' = Rest(d, m)
  <2>1. \A v \in Workers : running[v] = m => index'[v] = index[v] /\ sum'[v] = sum[v]
    BY <1>0, <1>4, <1>5
  <2> QED
    BY <1>1, <2>1, RestKept
<1>6. ASSUME NEW m \in 1..Len(Log), m < n, m \notin finished
      PROVE  RowsOf(m) \cap Mine = {}
  <2>1. cownsOf[m] = RowsOf(m) /\ cownsOf[n] = RowsOf(n)
    BY <1>1, <1>6 DEF YcsbInv
  <2>2. m \in RP!Txns /\ n \in RP!Txns /\ \E v \in Workers : running[v] = n
    BY <1>0, <1>1, <1>6 DEF RP!Txns
  <2>3. ~RP!Conflict(m, n)
    BY <1>6, <2>2 DEF RP!SpawnOrder
  <2> QED
    BY <2>1, <2>3 DEF RP!Conflict, Mine
<1> DEFINE Apart(k) ==
             /\ \A r \in Rows \ Mine : After[k]'[r] = After[k][r]
             /\ \A r \in Mine : After[k][r] = payload[r] /\ After[k]'[r] = payload'[r]
<1>7. \A k \in 0..(n - 1) : Apart(k)
  <2> DEFINE X == {k \in Nat : k < n => Apart(k)}
  <2>1. 0 \in X
    <3>1. After[0] = payload /\ After[0]' = payload'
      BY AfterEquation, AfterEquationNext DEF AfterEq
    <3>2. \A r \in Rows \ Mine : payload'[r] = payload[r]
      BY <1>3, <1>4
    <3> QED
      BY <3>1, <3>2
  <2>2. ASSUME NEW k \in Nat, k \in X PROVE k + 1 \in X
    <3> SUFFICES ASSUME k + 1 < n PROVE Apart(k + 1)
      OBVIOUS
    <3>0. PICK d, e : d = After[k] /\ e = After[k]'
      OBVIOUS
    <3>1. /\ k + 1 \in 1..Len(Log) /\ (k + 1) - 1 = k /\ k + 1 # n
          /\ \A r \in Rows \ Mine : d[r] = e[r]
          /\ \A r \in Mine : d[r] = payload[r] /\ e[r] = payload'[r]
      BY <1>1, <2>2, <3>0
    <3>2. After[k + 1] = Rest(d, k + 1)
      BY <3>0, <3>1, AfterEquation DEF AfterEq
    <3>3. After[k + 1]' = Rest(After[k], k + 1)'
      BY <3>1, AfterEquationNext DEF AfterEq
    <3>4. After[k + 1]' = Rest(e, k + 1)
      BY <1>5, <3>0, <3>1, <3>3
    <3>5. CASE k + 1 \in finished
      <4>1. After[k + 1] = d /\ After[k + 1]' = e
        BY <3>2, <3>4, <3>5 DEF Rest
      <4> QED
        BY <3>1, <4>1
    <3>6. CASE k + 1 \notin finished
      <4>1. PICK j, s : /\ j \in Nat \ {0}
                        /\ \A x : Rest(x, k + 1) = S!RunFrom(x, Log[k + 1], j, s)
        BY <3>1, <3>6, RestIsRun
      <4>2. /\ After[k + 1] = S!RunFrom(d, Log[k + 1], j, s)
            /\ After[k + 1]' = S!RunFrom(e, Log[k + 1], j, s)
        BY <3>2, <3>4, <4>1
      <4>3. WellFormed(Log[k + 1]) /\ ToSet(Log[k + 1].indices) \cap Mine = {}
        BY <1>6, <3>1, <3>6, LogWellFormed DEF RowsOf
      <4>4. ASSUME NEW r \in Rows
            PROVE  /\ r \notin Mine => After[k + 1]'[r] = After[k + 1][r]
                   /\ r \in Mine => After[k + 1][r] = d[r] /\ After[k + 1]'[r] = e[r]
        <5>1. CASE r \in ToSet(Log[k + 1].indices)
          <6>1. \A q \in ToSet(Log[k + 1].indices) : d[q] = e[q]
            BY <3>1, <4>3, LogWellFormed DEF RowsOf
          <6>2. After[k + 1]'[r] = After[k + 1][r]
            BY <4>1, <4>2, <4>3, <5>1, <6>1, RunFromLocal
          <6> QED
            BY <4>3, <5>1, <6>2
        <5>2. CASE r \notin ToSet(Log[k + 1].indices)
          <6>1. After[k + 1][r] = d[r] /\ After[k + 1]'[r] = e[r]
            BY <4>1, <4>2, <4>3, <5>2, RunFromFrame
          <6> QED
            BY <3>1, <6>1
        <5> QED
          BY <5>1, <5>2
      <4> QED
        BY <1>3, <3>1, <4>4
    <3> QED
      BY <3>5, <3>6
  <2> HIDE DEF X
  <2>3. Nat \subseteq X
    BY <2>1, <2>2, NatSetInduction
  <2> QED
    BY <1>1, <2>3 DEF X
<1>8. After[n]' = After[n]
  <2>0. PICK d, e : d = After[n - 1] /\ e = After[n - 1]'
    OBVIOUS
  <2>1. n - 1 \in 0..(n - 1) /\ n - 1 \in 0..Len(Log)
    BY <1>1
  <2>2. IsDb(d) /\ IsDb(e)
    BY <2>0, <2>1, AfterIsDb, AfterIsDbNext DEF IsDb
  <2>3. /\ \A r \in Rows \ Mine : e[r] = d[r]
        /\ \A r \in Mine : d[r] = payload[r] /\ e[r] = payload'[r]
    BY <1>7, <2>0, <2>1
  <2>4. After[n] = Rest(d, n) /\ After[n]' = Rest(After[n - 1], n)'
    BY <1>1, <2>0, AfterEquation, AfterEquationNext DEF AfterEq
  <2>5. running[w] = n /\ running'[w] = n /\ n # 0
    BY <1>0, <1>1
  <2>6. WorkerOf(n) = w /\ WorkerOf(n)' = w
    BY <2>5, WorkerOfIs, WorkerOfIsNext
  <2>7. Rest(d, n) = S!RunFrom(d, t, i, sum[w])
    BY <1>0, <1>1, <2>5, <2>6 DEF Rest, t
  <2>8. Rest(After[n - 1], n)' = S!RunFrom(e, t, i + 1, sum'[w])
    <3>1. Rest(After[n - 1], n)' = S!RunFrom(After[n - 1], t, index[w], sum[w])'
      BY <1>1, <2>5, <2>6 DEF Rest, t
    <3> QED
      BY <1>4, <2>0, <3>1
  <2>9. \/ /\ t.write_set[i] /\ sum'[w] = sum[w]
           /\ e = [d EXCEPT ![row] = S!Memset(d[row], sum[w])]
        \/ /\ ~t.write_set[i] /\ e = d
           /\ sum'[w] = (sum[w] + S!SumOf(d[row])) % ByteMod
    <3>1. d[row] = payload[row] /\ e[row] = payload'[row] /\ row \in Rows
      BY <1>3, <2>3
    <3>2. \A r \in Rows : r # row => e[r] = d[r]
      BY <1>3, <1>4, <2>3
    <3>3. CASE t.write_set[i] /\ sum'[w] = sum[w]
               /\ payload' = [payload EXCEPT ![row] = S!Memset(payload[row], sum[w])]
      <4>1. e[row] = S!Memset(d[row], sum[w])
        BY <1>4, <3>1, <3>3
      <4>2. e = [d EXCEPT ![row] = S!Memset(d[row], sum[w])]
        BY <2>2, <3>1, <3>2, <4>1 DEF IsDb
      <4> QED
        BY <3>3, <4>2
    <3>4. CASE ~t.write_set[i] /\ payload' = payload
               /\ sum'[w] = (sum[w] + S!SumOf(payload[row])) % ByteMod
      <4>1. \A r \in Rows : e[r] = d[r]
        BY <3>1, <3>2, <3>4
      <4>2. e = d
        BY <2>2, <4>1 DEF IsDb
      <4> QED
        BY <3>1, <3>4, <4>2
    <3> QED
      BY <1>4, <3>3, <3>4
  <2>10. S!RunFrom(d, t, i, sum[w]) = S!RunFrom(e, t, i + 1, sum'[w])
    BY <1>2, <2>2, <2>9, RunFromStep DEF IsDb, row
  <2> QED
    BY <2>4, <2>7, <2>8, <2>10
<1>9. \A k \in n..Len(Log) : After[k]' = After[k]
  <2> DEFINE X == {k \in Nat : n + k <= Len(Log) => After[n + k]' = After[n + k]}
  <2>1. 0 \in X
    BY <1>1, <1>8
  <2>2. ASSUME NEW k \in Nat, k \in X PROVE k + 1 \in X
    <3> DEFINE m == n + (k + 1)
    <3> SUFFICES ASSUME m <= Len(Log) PROVE After[m]' = After[m]
      OBVIOUS
    <3>1. m \in 1..Len(Log) /\ m # n /\ m - 1 = n + k /\ n + k <= Len(Log)
      BY <1>1
    <3>2. After[m - 1]' = After[m - 1]
      BY <2>2, <3>1
    <3> HIDE DEF m
    <3>3. After[m] = Rest(After[m - 1], m) /\ After[m]' = Rest(After[m - 1], m)'
      BY <3>1, AfterEquation, AfterEquationNext DEF AfterEq
    <3> QED
      BY <1>5, <3>1, <3>2, <3>3
  <2> HIDE DEF X
  <2>3. Nat \subseteq X
    BY <2>1, <2>2, NatSetInduction
  <2> SUFFICES ASSUME NEW k \in n..Len(Log) PROVE After[k]' = After[k]
    OBVIOUS
  <2>4. k - n \in X /\ n + (k - n) = k /\ k <= Len(Log)
    BY <1>1, <2>3
  <2> QED
    BY <2>4 DEF X
<1> QED
  BY <1>1, <1>9

-----------------------------------------------------------------------------
(* Both instances of SerialExecution execute transactions alike. *)
LEMMA ExecuteSame == \A d, t : S!Execute(d, t) = Serial!Execute(d, t)
BY DEF S!Execute, Serial!Execute, S!RunFrom, Serial!RunFrom, S!SumBefore,
       Serial!SumBefore, S!Memset, Serial!Memset, S!SumOf, Serial!SumOf,
       S!FoldFunction, Serial!FoldFunction, S!FoldFunctionOnSet,
       Serial!FoldFunctionOnSet, S!MapThenFoldSet, Serial!MapThenFoldSet

(* README: "given exactly the same input, it will produce the same output  *)
(* via parallel execution".  For every log, every contents of the rows and *)
(* every interleaving of the Spawner and the workers, the outcome goes     *)
(* through the states of a serial execution of the log.                    *)
THEOREM DeterministicHolds == Spec => Deterministic
<1>1. Init => Serial!SerialInit
  <2>1. Init => spawned = 0 /\ payload \in [Rows -> S!Payload]
    BY DEF Init, RtInit
  <2> QED
    BY <2>1, AfterEquation DEF Serial!SerialInit, Outcome, AfterEq, S!Payload, Serial!Payload
<1>2. /\ YcsbInv /\ RP!RtIInv /\ RP!SpawnOrder
      /\ YcsbInv' /\ RP!RtIInv' /\ [Next]_vars
      => [Serial!ExecuteNext]_<<Outcome, spawned>>
  <2> SUFFICES ASSUME YcsbInv, RP!RtIInv, RP!SpawnOrder, YcsbInv', RP!RtIInv', [Next]_vars
               PROVE  Serial!ExecuteNext \/ UNCHANGED <<Outcome, spawned>>
    OBVIOUS
  <2>0. /\ spawned \in 0..Len(Log) /\ Len(Log) \in Nat /\ finished \subseteq 1..spawned
        /\ \A w \in Workers : running[w] # 0 => running[w] \in 1..spawned
        /\ running \in [Workers -> 0..Len(Log)]
    BY YcsbAssumption
       DEF RP!RtIInv, RP!RtTypeOK, RP!FinishInv, RP!RunInv
  <2>1. ASSUME UNCHANGED <<payload, running, finished, index, sum>>
        PROVE  \A n \in 0..Len(Log) : After[n]' = After[n]
    <3>1. ASSUME NEW n \in 1..Len(Log), NEW d PROVE Rest(d, n)' = Rest(d, n)
      BY <2>1, RestKept
    <3> QED
      BY <2>1, <3>1, AfterSame
  <2>2. CASE ParseAndProcess
    <3>1. PICK k : k = spawned + 1
      OBVIOUS
    <3>2. /\ spawned' = k /\ k \in 1..Len(Log) /\ spawned = k - 1
          /\ UNCHANGED <<payload, running, finished, index, sum>>
      BY <2>0, <2>2, <3>1 DEF ParseAndProcess, Spawn, ycsbVars
    <3>3. After[k]' = After[k] /\ After[k] = Rest(After[k - 1], k)
      BY <2>1, <3>2, AfterEquation DEF AfterEq
    <3>4. k \notin finished /\ \A w \in Workers : running[w] # k
      BY <2>0, <3>1
    <3>5. Rest(After[k - 1], k) = S!Execute(After[k - 1], Log[k])
      BY <3>4 DEF Rest
    <3>6. Outcome' = After[k]' /\ Outcome = After[k - 1]
      BY <3>2 DEF Outcome
    <3>7. Outcome' = Serial!Execute(Outcome, Log[k])
      BY <3>3, <3>5, <3>6, ExecuteSame
    <3> QED
      BY <2>0, <3>1, <3>2, <3>7 DEF Serial!ExecuteNext
  <2>3. ASSUME NEW r \in Rows, Join(r) PROVE UNCHANGED <<Outcome, spawned>>
    BY <2>0, <2>1, <2>3 DEF Join, Exchange, ycsbVars, Outcome
  <2>4. ASSUME NEW w \in Workers, NEW n \in Txns, Enter(w, n)
        PROVE  UNCHANGED <<Outcome, spawned>>
    <3>1. spawned' = spawned
      BY <2>4 DEF Enter, Start
    <3> QED
      BY <2>0, <2>4, <3>1, EnterStep DEF Txns, Outcome
  <2>5. ASSUME NEW w \in Workers, Txn(w) PROVE UNCHANGED <<Outcome, spawned>>
    <3>1. spawned' = spawned
      BY <2>5 DEF Txn, runtimeVars
    <3> QED
      BY <2>5, <3>1, TxnStep DEF Outcome
  <2>6. ASSUME NEW w \in Workers, Leave(w) PROVE UNCHANGED <<Outcome, spawned>>
    <3>1. spawned' = spawned
      BY <2>6 DEF Leave, Finish
    <3> QED
      BY <2>0, <2>6, <3>1, LeaveStep DEF Outcome
  <2>7. CASE Done \/ UNCHANGED vars
    BY <2>0, <2>1, <2>7 DEF Done, vars, runtimeVars, ycsbVars, Outcome
  <2> QED
    BY <2>2, <2>3, <2>4, <2>5, <2>6, <2>7 DEF Next
<1> QED
  BY <1>1, <1>2, YcsbInvariance, ImplementsRuntime, RuntimeAssumptionHolds,
     RP!SpawnOrderHolds, PTL DEF Spec, Deterministic, Serial!SerialSpec

=============================================================================
