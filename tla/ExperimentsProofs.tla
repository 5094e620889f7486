-------------------------- MODULE ExperimentsProofs -------------------------
(***************************************************************************)
(* The repository's small programs, for every value of their parameters.   *)
(***************************************************************************)
EXTENDS Nanotest, HashMap, ProfilePipeline, SumTheorems, SequenceTheorems

-----------------------------------------------------------------------------
(***************************************************************************)
(* nanotest.  The ring's indices wrap around: Wrap is % N where they are   *)
(* less than twice N.                                                      *)
(***************************************************************************)
Wrap(x) == IF x < N THEN x ELSE x - N

LEMMA ModIsWrap ==
  ASSUME NEW x \in 0..(2 * N - 1)
  PROVE  x % N = Wrap(x) /\ Wrap(x) \in 0..(N - 1)
<1>1. N \in Nat /\ N > 0
  BY NanotestAssumption
<1>2. x \in Int /\ x >= 0 /\ x < 2 * N
  BY <1>1
<1> DEFINE q == x \div N
           r == x % N
<1>3. q \in Int /\ r \in 0..(N - 1) /\ x = N * q + r
  BY <1>1, <1>2
<1> HIDE DEF q, r
<1>4. CASE q < 0
  <2>1. N * q <= -N
    BY <1>1, <1>3, <1>4
  <2> QED
    BY <1>1, <1>2, <1>3, <2>1
<1>5. CASE q > 1
  <2>1. N * q >= 2 * N
    BY <1>1, <1>3, <1>5
  <2> QED
    BY <1>1, <1>2, <1>3, <2>1
<1>6. CASE q = 0
  BY <1>1, <1>2, <1>3, <1>6 DEF Wrap, r
<1>7. CASE q = 1
  BY <1>1, <1>2, <1>3, <1>7 DEF Wrap, r
<1> QED
  BY <1>3, <1>4, <1>5, <1>6, <1>7

LEMMA ModOfDifference ==
  ASSUME NEW x \in 0..(N - 1), NEW y \in 0..(N - 1)
  PROVE  (x - y) % N = IF x >= y THEN x - y ELSE x - y + N
<1>1. N \in Nat /\ N > 0
  BY NanotestAssumption
<1>2. x - y \in Int /\ x - y > -N /\ x - y < N
  BY <1>1
<1> DEFINE z == x - y
           q == z \div N
           r == z % N
<1>3. q \in Int /\ r \in 0..(N - 1) /\ z = N * q + r
  BY <1>1, <1>2
<1> HIDE DEF q, r
<1>4. CASE q < -1
  <2>1. N * q <= -(2 * N)
    BY <1>1, <1>3, <1>4
  <2> QED
    BY <1>1, <1>2, <1>3, <2>1
<1>5. CASE q > 0
  <2>1. N * q >= N
    BY <1>1, <1>3, <1>5
  <2> QED
    BY <1>1, <1>2, <1>3, <2>1
<1>6. CASE q = 0
  BY <1>1, <1>2, <1>3, <1>6 DEF r
<1>7. CASE q = -1
  BY <1>1, <1>2, <1>3, <1>7 DEF r
<1> QED
  BY <1>3, <1>4, <1>5, <1>6, <1>7

(***************************************************************************)
(* A ring with array a, head h and tail t that holds the coroutines of S,  *)
(* each of them once.                                                      *)
(***************************************************************************)
Count(h, t) == IF h >= t THEN h - t ELSE h - t + N
At(a, t, d) == a[Wrap(t + d)]

RingHolds(a, h, t, S) ==
  /\ h \in 0..(N - 1) /\ t \in 0..(N - 1) /\ a \in [0..(N - 1) -> 0..Lookups]
  /\ \A d \in 0..(Count(h, t) - 1) : At(a, t, d) \in S
  /\ \A k \in S : \E d \in 0..(Count(h, t) - 1) : At(a, t, d) = k
  /\ \A d, e \in 0..(Count(h, t) - 1) : At(a, t, d) = At(a, t, e) => d = e

LEMMA CountBounds ==
  ASSUME NEW h \in 0..(N - 1), NEW t \in 0..(N - 1)
  PROVE  N \in Nat /\ N > 0 /\ Count(h, t) \in 0..(N - 1) /\ (Count(h, t) = 0 <=> h = t)
BY NanotestAssumption DEF Count

(* A coroutine is put at the back of a ring that has room. *)
LEMMA RingPush ==
  ASSUME NEW a, NEW h, NEW t, NEW S, RingHolds(a, h, t, S), NEW k \in 1..Lookups, k \notin S,
         Count(h, t) + 1 < N
  PROVE  /\ RingHolds([a EXCEPT ![h] = k], (h + 1) % N, t, S \cup {k})
         /\ Count((h + 1) % N, t) = Count(h, t) + 1
<1> DEFINE b == [a EXCEPT ![h] = k]
           g == (h + 1) % N
           c == Count(h, t)
<1>0. /\ h \in 0..(N - 1) /\ t \in 0..(N - 1) /\ a \in [0..(N - 1) -> 0..Lookups]
      /\ \A d \in 0..(c - 1) : At(a, t, d) \in S
      /\ \A x \in S : \E d \in 0..(c - 1) : At(a, t, d) = x
      /\ \A d, e \in 0..(c - 1) : At(a, t, d) = At(a, t, e) => d = e
  BY DEF RingHolds
<1>1. N \in Nat /\ N > 0 /\ c \in 0..(N - 1) /\ Lookups \in Nat
  BY <1>0, CountBounds, NanotestAssumption
<1>2. g = Wrap(h + 1)
  BY <1>0, <1>1, ModIsWrap
<1>3. g \in 0..(N - 1) /\ Count(g, t) = c + 1
  BY <1>0, <1>1, <1>2 DEF Wrap, Count
<1>4. Wrap(t + c) = h
  BY <1>0, <1>1 DEF Wrap, Count
<1>5. \A d \in 0..(c - 1) : Wrap(t + d) \in 0..(N - 1) /\ Wrap(t + d) # h
  BY <1>0, <1>1 DEF Wrap, Count
<1>6. b \in [0..(N - 1) -> 0..Lookups] /\ b[h] = k /\ \A x \in 0..(N - 1) : x # h => b[x] = a[x]
  BY <1>0, <1>1
<1> HIDE DEF b, g
<1>7. At(b, t, c) = k /\ \A d \in 0..(c - 1) : At(b, t, d) = At(a, t, d)
  BY <1>4, <1>5, <1>6 DEF At
<1>8. \A d \in 0..((c + 1) - 1) : d = c \/ d \in 0..(c - 1)
  BY <1>1
<1>9. c \in 0..((c + 1) - 1) /\ \A d \in 0..(c - 1) : d \in 0..((c + 1) - 1)
  BY <1>1
<1> HIDE DEF c
<1>10. \A d \in 0..((c + 1) - 1) : At(b, t, d) \in S \cup {k}
  BY <1>0, <1>7, <1>8
<1>11. \A x \in S \cup {k} : \E d \in 0..((c + 1) - 1) : At(b, t, d) = x
  BY <1>0, <1>7, <1>9
<1>12. \A d, e \in 0..((c + 1) - 1) : At(b, t, d) = At(b, t, e) => d = e
  BY <1>0, <1>7, <1>8
<1>13. RingHolds(b, g, t, S \cup {k})
  BY <1>0, <1>3, <1>6, <1>10, <1>11, <1>12 DEF RingHolds
<1> QED
  BY <1>3, <1>13 DEF b, g, c

(* The coroutine at the front is taken. *)
LEMMA RingPop ==
  ASSUME NEW a, NEW h, NEW t, NEW S, RingHolds(a, h, t, S), h # t
  PROVE  /\ a[t] \in S /\ RingHolds(a, h, (t + 1) % N, S \ {a[t]})
         /\ Count(h, (t + 1) % N) = Count(h, t) - 1 /\ Count(h, t) > 0
<1> DEFINE u == (t + 1) % N
           c == Count(h, t)
<1>0. /\ h \in 0..(N - 1) /\ t \in 0..(N - 1) /\ a \in [0..(N - 1) -> 0..Lookups]
      /\ \A d \in 0..(c - 1) : At(a, t, d) \in S
      /\ \A x \in S : \E d \in 0..(c - 1) : At(a, t, d) = x
      /\ \A d, e \in 0..(c - 1) : At(a, t, d) = At(a, t, e) => d = e
  BY DEF RingHolds
<1>1. N \in Nat /\ N > 0 /\ c \in 0..(N - 1) /\ c > 0
  BY <1>0, CountBounds
<1>2. u = Wrap(t + 1)
  BY <1>0, <1>1, ModIsWrap
<1>3. u \in 0..(N - 1) /\ Count(h, u) = c - 1
  BY <1>0, <1>1, <1>2 DEF Wrap, Count
<1>4. Wrap(t + 0) = t /\ \A d \in 0..((c - 1) - 1) : Wrap(u + d) = Wrap(t + (d + 1))
  <2>0. t \in Nat /\ t < N /\ c \in Nat /\ c <= N - 1 /\ N \in Nat
    BY <1>0, <1>1
  <2>1. Wrap(t + 0) = t
    BY <2>0 DEF Wrap
  <2>2. ASSUME NEW d \in 0..((c - 1) - 1) PROVE Wrap(u + d) = Wrap(t + (d + 1))
    <3>1. d \in Nat /\ d < N - 1
      BY <2>0
    <3>2. CASE t + 1 < N
      <4>1. u = t + 1
        BY <1>2, <2>0, <3>2 DEF Wrap
      <4>2. (t + 1) + d = t + (d + 1)
        BY <2>0, <3>1
      <4> QED
        BY <4>1, <4>2
    <3>3. CASE t + 1 = N
      <4>1. u = 0
        BY <1>2, <2>0, <3>3 DEF Wrap
      <4>2. Wrap(0 + d) = d
        BY <2>0, <3>1 DEF Wrap
      <4>3. Wrap(t + (d + 1)) = d
        BY <2>0, <3>1, <3>3 DEF Wrap
      <4> QED
        BY <4>1, <4>2, <4>3
    <3> QED
      BY <2>0, <3>2, <3>3
  <2> QED
    BY <2>1, <2>2
<1>5. At(a, t, 0) = a[t] /\ \A d \in 0..((c - 1) - 1) : At(a, u, d) = At(a, t, d + 1)
  BY <1>4 DEF At
<1>6. /\ 0 \in 0..(c - 1)
      /\ \A d \in 0..((c - 1) - 1) : d \in Int /\ d + 1 \in 0..(c - 1) /\ d + 1 # 0
      /\ \A d \in 0..(c - 1) : d = 0 \/ (d - 1 \in 0..((c - 1) - 1) /\ (d - 1) + 1 = d)
  BY <1>1
<1> HIDE DEF c, u
<1>7. \A d \in 0..((c - 1) - 1) : At(a, u, d) \in S \ {a[t]}
  BY <1>0, <1>5, <1>6
<1>8. \A x \in S \ {a[t]} : \E d \in 0..((c - 1) - 1) : At(a, u, d) = x
  <2> SUFFICES ASSUME NEW x \in S \ {a[t]}
               PROVE  \E d \in 0..((c - 1) - 1) : At(a, u, d) = x
    OBVIOUS
  <2>1. PICK e \in 0..(c - 1) : At(a, t, e) = x
    BY <1>0
  <2>2. e # 0
    BY <1>5, <2>1
  <2>3. e - 1 \in 0..((c - 1) - 1) /\ At(a, u, e - 1) = x
    BY <1>5, <1>6, <2>1, <2>2
  <2> QED
    BY <2>3
<1>9. \A d, e \in 0..((c - 1) - 1) : At(a, u, d) = At(a, u, e) => d = e
  <2> SUFFICES ASSUME NEW d \in 0..((c - 1) - 1), NEW e \in 0..((c - 1) - 1),
                      At(a, u, d) = At(a, u, e)
               PROVE  d = e
    OBVIOUS
  <2>1. d + 1 = e + 1 /\ d \in Int /\ e \in Int
    BY <1>0, <1>5, <1>6
  <2> QED
    BY <2>1
<1>10. RingHolds(a, h, u, S \ {a[t]})
  BY <1>0, <1>3, <1>7, <1>8, <1>9 DEF RingHolds
<1>11. a[t] \in S
  BY <1>0, <1>5, <1>6
<1> QED
  BY <1>1, <1>3, <1>10, <1>11 DEF u, c


-----------------------------------------------------------------------------
(***************************************************************************)
(* The inductive invariant of the scheduler.  The coroutines with a frame  *)
(* are those in the ring, the one that runs, and the one that is called    *)
(* and not yet pushed.  Numbers suffice for the limits: the streams that   *)
(* the throttler has given out are in the ring or run, and every frame     *)
(* that was allocated is in the list or is one of those.                   *)
(***************************************************************************)
Live == {k \in 1..Lookups : frame[k] # NoFrame}
Called == IF nt_pc \in {"spawn", "push"} THEN {next} ELSE {}
Suspended == Live \ (Called \cup {cur})
Running == IF cur # 0 THEN 1 ELSE 0
Calling == IF nt_pc \in {"spawn", "push"} THEN 1 ELSE 0

NtTypes ==
  /\ streams \in 1..MaxStreams /\ nt_pc \in {"main", "sm_lookup", "call", "spawn", "push"}
  /\ next \in 1..(Lookups + 1) /\ cur \in 0..Lookups
  /\ limit \in Nat /\ free_frames \in Nat /\ alloc_count \in Nat
  /\ frame = [k \in 1..Lookups |-> frame[k]]

Scheduled ==
  /\ RingHolds(arr, head, tail, Suspended)
  /\ cur # 0 => cur \in Live \ Called
  /\ Called \subseteq Live
  /\ \A k \in Live \ Called : k < next

Control ==
  /\ nt_pc \in {"main", "sm_lookup"} => head = tail /\ cur = 0
  /\ nt_pc = "spawn" => cur = 0
  /\ nt_pc = "call" /\ next <= Lookups => cur = 0
  /\ nt_pc \in {"spawn", "push"} => next <= Lookups
  /\ nt_pc = "push" /\ cur = 0 => limit > 0

Limits ==
  /\ nt_pc \in {"call", "spawn", "push"} => limit + Count(head, tail) + Running = streams
  /\ alloc_count = free_frames + Count(head, tail) + Running + Calling
  /\ alloc_count <= streams + 1

NtInv == NtTypes /\ Scheduled /\ Control /\ Limits

(* Whenever coroutines are about, they are fewer than the ring can hold. *)
HasRoom == nt_pc \in {"call", "spawn", "push"} => algo = "coro" /\ streams < N

LEMMA NtSizes ==
  /\ Lookups \in Nat /\ MaxStreams \in Nat /\ N \in Nat /\ N > 0
  /\ 0..(N - 1) # {} /\ 0 \in 0..(N - 1)
<1>1. Lookups \in Nat /\ MaxStreams \in Nat /\ N \in Nat /\ N > 0
  BY NanotestAssumption
<1>2. 0 \in 0..(N - 1)
  BY <1>1
<1> QED
  BY <1>1, <1>2

(* What the state's numbers are. *)
LEMMA NtNumbers ==
  ASSUME NtTypes, Scheduled
  PROVE  /\ Count(head, tail) \in Int
         /\ streams \in Nat /\ streams \in Int /\ streams >= 1 /\ next \in Int
         /\ limit \in Nat /\ free_frames \in Nat /\ alloc_count \in Nat
<1>1. head \in 0..(N - 1) /\ tail \in 0..(N - 1)
  BY DEF Scheduled, RingHolds
<1>2. N \in Nat /\ Count(head, tail) \in 0..(N - 1)
  BY <1>1, CountBounds
<1>3. Count(head, tail) \in Int
  BY <1>2
<1>4. streams \in 1..MaxStreams /\ MaxStreams \in Nat /\ next \in 1..(Lookups + 1)
      /\ Lookups \in Nat
  BY NtSizes DEF NtTypes
<1>5. streams \in Nat /\ streams \in Int /\ streams >= 1 /\ next \in Int
  BY <1>4
<1> QED
  BY <1>3, <1>5 DEF NtTypes

LEMMA NtInitInv == NtInit => NtInv
<1> SUFFICES ASSUME NtInit PROVE NtInv
  OBVIOUS
<1>1. /\ streams \in 1..MaxStreams /\ nt_pc = "main" /\ next = 1 /\ limit = 0
      /\ arr = [s \in 0..(N - 1) |-> 0] /\ head = 0 /\ tail = 0 /\ cur = 0
      /\ frame = [k \in 1..Lookups |-> NoFrame] /\ free_frames = 0 /\ alloc_count = 0
  BY DEF NtInit
<1>2. Live = {} /\ Called = {} /\ Suspended = {} /\ Count(head, tail) = 0
      /\ Running = 0 /\ Calling = 0
  BY <1>1 DEF Live, Called, Suspended, Count, Running, Calling
<1>3. NtTypes
  <2>1. frame = [k \in 1..Lookups |-> frame[k]]
    BY <1>1
  <2>2. next \in 1..(Lookups + 1) /\ cur \in 0..Lookups
    BY <1>1, NtSizes
  <2> QED
    BY <1>1, <2>1, <2>2 DEF NtTypes
<1>4. Scheduled
  <2>1. arr \in [0..(N - 1) -> 0..Lookups]
    BY <1>1, NtSizes
  <2>2. 0..(Count(head, tail) - 1) = {}
    BY <1>2
  <2>3. RingHolds(arr, head, tail, {})
    BY <1>1, <2>1, <2>2, NtSizes DEF RingHolds
  <2> QED
    BY <1>1, <1>2, <2>3 DEF Scheduled
<1>5. Control /\ Limits
  BY <1>1, <1>2, NtSizes DEF Control, Limits
<1> QED
  BY <1>3, <1>4, <1>5 DEF NtInv

(* The steps of the other algorithms leave the coroutines alone. *)
LEMMA OtherAlgorithms ==
  ASSUME NtInv, TestNaive \/ Sm \/ NtExit \/ UNCHANGED ntVars
  PROVE  NtInv'
<1>0. NtTypes /\ Scheduled /\ Control /\ Limits
  BY DEF NtInv
<1>1. /\ UNCHANGED <<streams, coroVars>>
      /\ \/ UNCHANGED <<nt_pc, next>>
         \/ nt_pc = "main" /\ nt_pc' = "sm_lookup" /\ next' = 1
         \/ nt_pc = "sm_lookup" /\ nt_pc' = nt_pc /\ next <= Lookups /\ next' = next + 1
         \/ nt_pc = "sm_lookup" /\ nt_pc' = "main" /\ next' = next
  BY DEF TestNaive, Sm, TestSm, SmLookup, SmDrain, NtExit, ntVars
<1>2. UNCHANGED <<limit, arr, head, tail, cur, frame, free_frames, alloc_count>>
  BY <1>1 DEF coroVars
<1>3. Live' = Live
  BY <1>2 DEF Live
<1>4. CASE UNCHANGED <<nt_pc, next>>
  BY <1>0, <1>1, <1>2, <1>4 DEF NtInv, NtTypes, Scheduled, Control, Limits, Live, Called,
                                Suspended, Running, Calling
<1>5. ASSUME nt_pc \in {"main", "sm_lookup"}, nt_pc' \in {"main", "sm_lookup"},
             next' \in 1..(Lookups + 1)
      PROVE  NtInv'
  <2>1. head = tail /\ cur = 0
    BY <1>0, <1>5 DEF Control
  <2>2. Called = {} /\ Called' = {} /\ Calling = 0 /\ Calling' = 0 /\ Running' = Running
        /\ Suspended' = Suspended
    BY <1>2, <1>3, <1>5 DEF Called, Calling, Running, Suspended
  <2>3. Live = {}
    <3>1. 0..(Count(head, tail) - 1) = {}
      <4>1. head \in Int /\ tail \in Int
        BY <1>0 DEF Scheduled, RingHolds
      <4>2. Count(head, tail) = 0
        BY <2>1, <4>1 DEF Count
      <4> QED
        BY <4>2
    <3>2. Suspended = {}
      BY <1>0, <3>1 DEF Scheduled, RingHolds
    <3> QED
      BY <2>1, <2>2, <3>2, NtSizes DEF Suspended, Live
  <2>4. NtTypes'
    BY <1>0, <1>1, <1>2, <1>5 DEF NtTypes
  <2>5. Scheduled'
    BY <1>0, <1>2, <1>3, <2>1, <2>2, <2>3 DEF Scheduled
  <2>6. Control' /\ Limits'
    BY <1>0, <1>1, <1>2, <1>5, <2>1, <2>2 DEF Control, Limits
  <2> QED
    BY <2>4, <2>5, <2>6 DEF NtInv
<1>6. CASE nt_pc = "main" /\ nt_pc' = "sm_lookup" /\ next' = 1
  BY <1>5, <1>6, NtSizes
<1>7. CASE nt_pc = "sm_lookup" /\ nt_pc' = nt_pc /\ next <= Lookups /\ next' = next + 1
  BY <1>0, <1>5, <1>7, NtSizes DEF NtTypes
<1>8. CASE nt_pc = "sm_lookup" /\ nt_pc' = "main" /\ next' = next
  BY <1>0, <1>5, <1>8 DEF NtTypes
<1> QED
  BY <1>1, <1>4, <1>6, <1>7, <1>8


(* An empty ring holds nothing, and then nothing is suspended. *)
LEMMA EmptyRing ==
  ASSUME Scheduled, head = tail
  PROVE  Suspended = {} /\ Count(head, tail) = 0
<1>1. head \in Int /\ tail \in Int
  BY DEF Scheduled, RingHolds
<1>2. Count(head, tail) = 0
  BY <1>1 DEF Count
<1>3. 0..(Count(head, tail) - 1) = {}
  BY <1>2
<1> QED
  BY <1>2, <1>3 DEF Scheduled, RingHolds

LEMMA TestCoroInv == NtInv /\ TestCoro => NtInv'
<1> SUFFICES ASSUME NtInv, TestCoro PROVE NtInv'
  OBVIOUS
<1>0. NtTypes /\ Scheduled /\ Control /\ Limits
  BY DEF NtInv
<1>1. /\ nt_pc = "main" /\ limit' = streams /\ next' = 1 /\ nt_pc' = "call"
      /\ UNCHANGED <<streams, arr, head, tail, cur, frame, free_frames, alloc_count>>
  BY DEF TestCoro
<1>2. head = tail /\ cur = 0
  BY <1>0, <1>1 DEF Control
<1>3. /\ Called = {} /\ Called' = {} /\ Calling = 0 /\ Calling' = 0 /\ Running = 0
      /\ Running' = 0 /\ Live' = Live /\ Suspended' = Suspended
  BY <1>1, <1>2 DEF Called, Calling, Running, Suspended, Live
<1>4. Suspended = {} /\ Count(head, tail) = 0
  BY <1>0, <1>2, EmptyRing
<1>5. Live = {}
  BY <1>2, <1>3, <1>4 DEF Suspended, Live
<1>6. NtTypes'
  <2>1. streams \in Nat /\ 1 \in 1..(Lookups + 1)
    BY <1>0, NtSizes DEF NtTypes
  <2> QED
    BY <1>0, <1>1, <2>1 DEF NtTypes
<1>7. Scheduled'
  BY <1>0, <1>1, <1>2, <1>3, <1>5 DEF Scheduled
<1>8. Control'
  BY <1>1, <1>2 DEF Control
<1>9. Limits'
  <2>1. streams \in Nat
    BY <1>0, NtSizes DEF NtTypes
  <2> QED
    BY <1>0, <1>1, <1>3, <1>4, <2>1 DEF Limits
<1> QED
  BY <1>6, <1>7, <1>8, <1>9 DEF NtInv

(* What a step does to a frame decides who is live. *)
LEMMA FrameSet ==
  ASSUME NtTypes, NEW k \in 1..Lookups, NEW fr, frame' = [frame EXCEPT ![k] = fr]
  PROVE  /\ frame' = [j \in 1..Lookups |-> frame'[j]]
         /\ Live' = IF fr = NoFrame THEN Live \ {k} ELSE Live \cup {k}
<1>1. frame = [j \in 1..Lookups |-> frame[j]]
  BY DEF NtTypes
<1>2. frame' = [j \in 1..Lookups |-> IF j = k THEN fr ELSE frame[j]]
  BY <1>1
<1> QED
  BY <1>2 DEF Live

LEMMA CallCoroutineInv == NtInv /\ CallCoroutine => NtInv'
<1> SUFFICES ASSUME NtInv, CallCoroutine PROVE NtInv'
  OBVIOUS
<1>0. NtTypes /\ Scheduled /\ Control /\ Limits
  BY DEF NtInv
<1>1. /\ nt_pc = "call" /\ next <= Lookups /\ nt_pc' = "spawn"
      /\ frame' = [frame EXCEPT ![next] = Frame(lookups[next], "initial")]
      /\ UNCHANGED <<streams, next, limit, arr, head, tail, cur>>
      /\ free_frames' = IF free_frames > 0 THEN free_frames - 1 ELSE 0
      /\ alloc_count' = IF free_frames > 0 THEN alloc_count ELSE alloc_count + 1
  BY DEF CallCoroutine, Alloc
<1>2. cur = 0 /\ next \in 1..Lookups
  BY <1>0, <1>1, NtSizes DEF Control, NtTypes
<1>3. Frame(lookups[next], "initial") # NoFrame
  BY DEF Frame, NoFrame
<1>4. frame' = [j \in 1..Lookups |-> frame'[j]] /\ Live' = Live \cup {next}
  BY <1>0, <1>1, <1>2, <1>3, FrameSet
<1>5. Called = {} /\ Called' = {next} /\ Calling = 0 /\ Calling' = 1 /\ Running = 0 /\ Running' = 0
  BY <1>1, <1>2 DEF Called, Calling, Running
<1>6. next \notin Live
  BY <1>0, <1>2, <1>5 DEF Scheduled
<1>7. Suspended' = Suspended
  BY <1>1, <1>2, <1>4, <1>5, <1>6 DEF Suspended
<1>8. NtTypes'
  BY <1>0, <1>1, <1>4 DEF NtTypes
<1>9. Scheduled'
  <2>1. RingHolds(arr', head', tail', Suspended')
    BY <1>0, <1>1, <1>7 DEF Scheduled
  <2>2. \A k \in Live' \ Called' : k < next'
    BY <1>0, <1>1, <1>4, <1>5 DEF Scheduled
  <2> QED
    BY <1>1, <1>2, <1>4, <1>5, <2>1, <2>2 DEF Scheduled
<1>10. Control'
  BY <1>1, <1>2 DEF Control
<1>11. Limits'
  <2>1. Count(head, tail) \in Int /\ streams \in Int /\ limit \in Nat /\ free_frames \in Nat
        /\ alloc_count \in Nat
    BY <1>0, NtNumbers
  <2>2. /\ limit + Count(head, tail) = streams /\ alloc_count = free_frames + Count(head, tail)
        /\ alloc_count <= streams + 1
    BY <1>0, <1>1, <1>5, <2>1 DEF Limits
  <2>3. Count(head, tail)' = Count(head, tail)
    BY <1>1
  <2> QED
    BY <1>1, <1>5, <2>1, <2>2, <2>3 DEF Limits
<1> QED
  BY <1>8, <1>9, <1>10, <1>11 DEF NtInv

LEMMA SpawnInv == NtInv /\ Spawn => NtInv'
<1> SUFFICES ASSUME NtInv, Spawn PROVE NtInv'
  OBVIOUS
<1>0. NtTypes /\ Scheduled /\ Control /\ Limits
  BY DEF NtInv
<1>1. /\ nt_pc = "spawn" /\ nt_pc' = "push"
      /\ UNCHANGED <<streams, next, limit, arr, head, frame, free_frames, alloc_count>>
      /\ \/ limit = 0 /\ cur' = arr[tail] /\ tail' = (tail + 1) % N
         \/ limit > 0 /\ UNCHANGED <<cur, tail>>
  BY DEF Spawn
<1>2. cur = 0 /\ next <= Lookups /\ Called = {next} /\ Called' = {next} /\ Calling = 1
      /\ Calling' = 1 /\ Running = 0 /\ Live' = Live
  BY <1>0, <1>1 DEF Control, Called, Calling, Running, Live
<1>3. Count(head, tail) \in Int /\ streams \in Nat /\ streams >= 1 /\ limit \in Nat
      /\ free_frames \in Nat /\ alloc_count \in Nat
  BY <1>0, NtNumbers
<1>4. CASE limit > 0 /\ UNCHANGED <<cur, tail>>
  <2>1. Suspended' = Suspended /\ Running' = 0 /\ Count(head, tail)' = Count(head, tail)
    BY <1>1, <1>2, <1>4 DEF Suspended, Running
  <2>2. NtTypes' /\ Scheduled' /\ Control'
    BY <1>0, <1>1, <1>2, <1>4, <2>1 DEF NtTypes, Scheduled, Control
  <2>3. Limits'
    BY <1>0, <1>1, <1>2, <2>1 DEF Limits
  <2> QED
    BY <2>2, <2>3 DEF NtInv
<1>5. CASE limit = 0 /\ cur' = arr[tail] /\ tail' = (tail + 1) % N
  <2>1. head # tail
    <3>1. Count(head, tail) = streams
      BY <1>0, <1>1, <1>2, <1>3, <1>5 DEF Limits
    <3>2. head = tail => Count(head, tail) = 0
      BY <1>0, EmptyRing
    <3> QED
      BY <1>3, <3>1, <3>2
  <2>2. RingHolds(arr, head, tail, Suspended)
    BY <1>0 DEF Scheduled
  <2>3. /\ cur' \in Suspended /\ RingHolds(arr, head, tail', Suspended \ {cur'})
        /\ Count(head, tail') = Count(head, tail) - 1
    BY <1>5, <2>1, <2>2, RingPop
  <2>4. Suspended' = Suspended \ {cur'} /\ cur' \in Live \ Called /\ cur' \in 1..Lookups
    BY <1>2, <2>3 DEF Suspended, Live
  <2>5. cur' # 0 /\ cur' \in 0..Lookups /\ Running' = 1
    BY <2>4, NtSizes DEF Running
  <2>6. NtTypes' /\ Control'
    BY <1>0, <1>1, <1>2, <2>5 DEF NtTypes, Control
  <2>7. Scheduled'
    BY <1>0, <1>1, <1>2, <2>3, <2>4 DEF Scheduled
  <2>8. Limits'
    BY <1>0, <1>1, <1>2, <1>3, <2>3, <2>5 DEF Limits
  <2> QED
    BY <2>6, <2>7, <2>8 DEF NtInv
<1> QED
  BY <1>1, <1>4, <1>5


LEMMA SpawnPushInv == NtInv /\ HasRoom /\ SpawnPush => NtInv'
<1> SUFFICES ASSUME NtInv, HasRoom, SpawnPush PROVE NtInv'
  OBVIOUS
<1>0. NtTypes /\ Scheduled /\ Control /\ Limits
  BY DEF NtInv
<1>1. /\ nt_pc = "push" /\ cur = 0 /\ nt_pc' = "call" /\ next' = next + 1 /\ limit' = limit - 1
      /\ arr' = [arr EXCEPT ![head] = next] /\ head' = (head + 1) % N
      /\ UNCHANGED <<streams, tail, cur, frame, free_frames, alloc_count>>
  BY DEF SpawnPush
<1>2. limit > 0 /\ next \in 1..Lookups /\ Called = {next} /\ Called' = {} /\ Calling = 1
      /\ Calling' = 0 /\ Running = 0 /\ Running' = 0 /\ Live' = Live
  BY <1>0, <1>1, NtSizes DEF Control, NtTypes, Called, Calling, Running, Live
<1>3. Count(head, tail) \in Int /\ streams \in 1..MaxStreams /\ limit \in Nat
      /\ free_frames \in Nat /\ alloc_count \in Nat
  BY <1>0, NtNumbers DEF NtTypes
<1>4. Count(head, tail) + 1 < N
  BY <1>0, <1>1, <1>2, <1>3, NtSizes DEF Limits, HasRoom
<1>5. RingHolds(arr, head, tail, Suspended) /\ next \in Live /\ next \notin Suspended
  BY <1>0, <1>2 DEF Scheduled, Suspended
<1>6. /\ RingHolds(arr', head', tail, Suspended \cup {next})
      /\ Count(head', tail) = Count(head, tail) + 1
  BY <1>1, <1>2, <1>4, <1>5, RingPush
<1>7. Suspended' = Suspended \cup {next}
  BY <1>1, <1>2, <1>5 DEF Suspended, Live
<1>8. NtTypes'
  BY <1>0, <1>1, <1>2, <1>3, NtSizes DEF NtTypes
<1>9. Scheduled'
  <2>1. \A k \in Live' \ Called' : k < next'
    <3> SUFFICES ASSUME NEW k \in Live PROVE k < next + 1
      BY <1>1, <1>2
    <3>1. k \in Int
      BY DEF Live
    <3>2. k = next \/ k < next
      BY <1>0, <1>2 DEF Scheduled
    <3> QED
      BY <1>2, <3>1, <3>2
  <2> QED
    BY <1>1, <1>2, <1>6, <1>7, <2>1 DEF Scheduled
<1>10. Control'
  BY <1>1 DEF Control
<1>11. Limits'
  BY <1>0, <1>1, <1>2, <1>3, <1>6 DEF Limits
<1> QED
  BY <1>8, <1>9, <1>10, <1>11 DEF NtInv

(* A coroutine runs only while it holds one of the throttler's streams. *)
LEMMA RunsWithinLimit ==
  ASSUME NtInv, HasRoom, cur # 0
  PROVE  /\ nt_pc \in {"call", "push"} /\ cur \in Live \ Called /\ cur \in 1..Lookups
         /\ cur \notin Suspended /\ RingHolds(arr, head, tail, Suspended) /\ Running = 1
         /\ Count(head, tail) \in Int /\ Count(head, tail) + 1 < N
         /\ limit + Count(head, tail) + 1 = streams /\ limit \in Nat /\ streams \in Nat
<1>0. NtTypes /\ Scheduled /\ Control /\ Limits
  BY DEF NtInv
<1>1. nt_pc \in {"call", "push"} /\ Running = 1
  BY <1>0 DEF NtTypes, Control, Running
<1>2. Count(head, tail) \in Int /\ streams \in 1..MaxStreams /\ limit \in Nat
  BY <1>0, NtNumbers DEF NtTypes
<1>3. limit + Count(head, tail) + 1 = streams
  BY <1>0, <1>1 DEF Limits
<1>4. Count(head, tail) + 1 < N /\ streams \in Nat
  BY <1>1, <1>2, <1>3, NtSizes DEF HasRoom
<1>5. /\ cur \in Live \ Called /\ cur \in 1..Lookups /\ cur \notin Suspended
      /\ RingHolds(arr, head, tail, Suspended)
  BY <1>0 DEF Scheduled, Suspended, Live
<1> QED
  BY <1>1, <1>2, <1>3, <1>4, <1>5

LEMMA ResumeToAwaitInv == NtInv /\ HasRoom /\ ResumeToAwait => NtInv'
<1> SUFFICES ASSUME NtInv, HasRoom, ResumeToAwait PROVE NtInv'
  OBVIOUS
<1>0. NtTypes /\ Scheduled /\ Control /\ Limits
  BY DEF NtInv
<1>1. PICK fr : /\ fr.state = "keep_going" /\ frame' = [frame EXCEPT ![cur] = fr]
                /\ cur # 0
                /\ arr' = [arr EXCEPT ![head] = cur] /\ head' = (head + 1) % N
                /\ cur' = arr'[tail] /\ tail' = (tail + 1) % N
                /\ UNCHANGED <<streams, nt_pc, next, limit, free_frames, alloc_count>>
  BY DEF ResumeToAwait, AwaitSuspend
<1>2. /\ nt_pc \in {"call", "push"} /\ cur \in Live \ Called /\ cur \in 1..Lookups
      /\ cur \notin Suspended /\ RingHolds(arr, head, tail, Suspended) /\ Running = 1
      /\ Count(head, tail) \in Int /\ Count(head, tail) + 1 < N
      /\ limit + Count(head, tail) + 1 = streams /\ limit \in Nat /\ streams \in Nat
  BY <1>1, RunsWithinLimit
<1>3. fr # NoFrame
  BY <1>1 DEF NoFrame
<1>4. frame' = [j \in 1..Lookups |-> frame'[j]] /\ Live' = Live
  <2>1. Live' = Live \cup {cur} /\ frame' = [j \in 1..Lookups |-> frame'[j]]
    BY <1>0, <1>1, <1>2, <1>3, FrameSet
  <2> QED
    BY <1>2, <2>1
<1>5. Called' = Called /\ Calling' = Calling
  BY <1>1 DEF Called, Calling
<1>6. /\ RingHolds(arr', head', tail, Suspended \cup {cur})
      /\ Count(head', tail) = Count(head, tail) + 1
  BY <1>1, <1>2, RingPush
<1>7. head' # tail
  <2>1. head \in 0..(N - 1) /\ tail \in 0..(N - 1) /\ head' \in 0..(N - 1)
    BY <1>2, <1>6 DEF RingHolds
  <2>2. Count(head, tail) >= 0 /\ (head' = tail => Count(head', tail) = 0)
    BY <2>1, CountBounds
  <2> QED
    BY <1>2, <1>6, <2>2
<1>8. /\ cur' \in Suspended \cup {cur}
      /\ RingHolds(arr', head', tail', (Suspended \cup {cur}) \ {cur'})
      /\ Count(head', tail') = Count(head', tail) - 1
  <2>1. /\ arr'[tail] \in Suspended \cup {cur}
        /\ RingHolds(arr', head', (tail + 1) % N, (Suspended \cup {cur}) \ {arr'[tail]})
        /\ Count(head', (tail + 1) % N) = Count(head', tail) - 1
    BY ONLY <1>6, <1>7, RingPop
  <2>2. cur' = arr'[tail] /\ tail' = (tail + 1) % N
    BY <1>1
  <2> QED
    BY ONLY <2>1, <2>2
<1>9. cur' \in Live \ Called /\ Suspended' = (Suspended \cup {cur}) \ {cur'}
  BY <1>2, <1>4, <1>5, <1>8 DEF Suspended
<1>10. Count(head', tail') = Count(head, tail)
  BY <1>2, <1>6, <1>8
<1>11. cur' # 0 /\ cur' \in 0..Lookups /\ Running' = 1
  BY <1>9, NtSizes DEF Running, Live
<1>12. NtTypes'
  BY <1>0, <1>1, <1>4, <1>11 DEF NtTypes
<1>13. Scheduled'
  BY <1>0, <1>1, <1>4, <1>5, <1>8, <1>9 DEF Scheduled
<1>14. Control'
  <2>1. nt_pc = "call" => ~(next <= Lookups)
    BY <1>0, <1>1 DEF Control
  <2> QED
    BY <1>0, <1>1, <1>2, <1>11, <2>1 DEF Control
<1>15. Limits'
  BY <1>0, <1>1, <1>2, <1>5, <1>10, <1>11 DEF Limits
<1> QED
  BY <1>12, <1>13, <1>14, <1>15 DEF NtInv

LEMMA ResumeToEndInv == NtInv /\ HasRoom /\ ResumeToEnd => NtInv'
<1> SUFFICES ASSUME NtInv, HasRoom, ResumeToEnd PROVE NtInv'
  OBVIOUS
<1>0. NtTypes /\ Scheduled /\ Control /\ Limits
  BY DEF NtInv
<1>1. /\ cur # 0 /\ cur' = 0 /\ limit' = limit + 1 /\ free_frames' = free_frames + 1
      /\ frame' = [frame EXCEPT ![cur] = NoFrame]
      /\ UNCHANGED <<streams, nt_pc, next, arr, head, tail, alloc_count>>
  BY DEF ResumeToEnd
<1>2. /\ nt_pc \in {"call", "push"} /\ cur \in Live \ Called /\ cur \in 1..Lookups
      /\ cur \notin Suspended /\ RingHolds(arr, head, tail, Suspended) /\ Running = 1
      /\ Count(head, tail) \in Int /\ Count(head, tail) + 1 < N
      /\ limit + Count(head, tail) + 1 = streams /\ limit \in Nat /\ streams \in Nat
  BY <1>1, RunsWithinLimit
<1>3. frame' = [j \in 1..Lookups |-> frame'[j]] /\ Live' = Live \ {cur}
  BY <1>0, <1>1, <1>2, FrameSet
<1>4. Called' = Called /\ Calling' = Calling /\ Calling \in Int /\ Running' = 0
  BY <1>1 DEF Called, Calling, Running
<1>5. Suspended' = Suspended
  BY <1>1, <1>3, <1>4, NtSizes DEF Suspended, Live
<1>6. free_frames \in Nat /\ alloc_count \in Nat
  BY <1>0 DEF NtTypes
<1>7. NtTypes'
  <2>1. limit' \in Nat /\ free_frames' \in Nat /\ alloc_count' \in Nat /\ cur' \in 0..Lookups
    BY <1>1, <1>2, <1>6, NtSizes
  <2> QED
    BY <1>0, <1>1, <1>3, <2>1 DEF NtTypes
<1>8. Scheduled'
  BY <1>0, <1>1, <1>2, <1>3, <1>4, <1>5 DEF Scheduled
<1>9. Control'
  BY <1>0, <1>1, <1>2 DEF Control
<1>10. Limits'
  BY <1>0, <1>1, <1>2, <1>4, <1>6 DEF Limits
<1> QED
  BY <1>7, <1>8, <1>9, <1>10 DEF NtInv

LEMMA SchedulerRunInv == NtInv /\ SchedulerRun => NtInv'
<1> SUFFICES ASSUME NtInv, SchedulerRun PROVE NtInv'
  OBVIOUS
<1>0. NtTypes /\ Scheduled /\ Control /\ Limits
  BY DEF NtInv
<1>1. /\ nt_pc = "call" /\ next > Lookups /\ cur = 0
      /\ UNCHANGED <<streams, next, limit, arr, head, frame, free_frames, alloc_count>>
      /\ \/ head # tail /\ cur' = arr[tail] /\ tail' = (tail + 1) % N /\ nt_pc' = nt_pc
         \/ head = tail /\ nt_pc' = "main" /\ UNCHANGED <<cur, tail>>
  BY DEF SchedulerRun
<1>2. Called = {} /\ Called' = {} /\ Calling = 0 /\ Calling' = 0 /\ Running = 0 /\ Live' = Live
  BY <1>1 DEF Called, Calling, Running, Live
<1>3. Count(head, tail) \in Int /\ streams \in Nat /\ limit \in Nat /\ next \in Int
      /\ free_frames \in Nat /\ alloc_count \in Nat
  BY <1>0, NtNumbers
<1>4. CASE head = tail /\ nt_pc' = "main" /\ UNCHANGED <<cur, tail>>
  <2>1. Suspended' = Suspended /\ Running' = 0
    BY <1>1, <1>2, <1>4 DEF Suspended, Running
  <2>2. NtTypes' /\ Scheduled' /\ Control'
    BY <1>0, <1>1, <1>2, <1>4, <2>1 DEF NtTypes, Scheduled, Control
  <2>3. Limits'
    BY <1>0, <1>1, <1>2, <1>4, <2>1 DEF Limits
  <2> QED
    BY <2>2, <2>3 DEF NtInv
<1>5. CASE head # tail /\ cur' = arr[tail] /\ tail' = (tail + 1) % N /\ nt_pc' = nt_pc
  <2>1. RingHolds(arr, head, tail, Suspended)
    BY <1>0 DEF Scheduled
  <2>2. /\ cur' \in Suspended /\ RingHolds(arr, head, tail', Suspended \ {cur'})
        /\ Count(head, tail') = Count(head, tail) - 1
    BY <1>5, <2>1, RingPop
  <2>3. Suspended' = Suspended \ {cur'} /\ cur' \in Live \ Called
    BY <1>1, <1>2, <2>2 DEF Suspended, Live
  <2>4. cur' # 0 /\ cur' \in 0..Lookups /\ Running' = 1
    BY <2>3, NtSizes DEF Running, Live
  <2>5. NtTypes'
    BY <1>0, <1>1, <1>5, <2>4 DEF NtTypes
  <2>6. Control'
    BY <1>1, <1>3, <1>5, <2>4, NtSizes DEF Control
  <2>7. Scheduled'
    BY <1>0, <1>1, <1>2, <2>2, <2>3 DEF Scheduled
  <2>8. Limits'
    BY <1>0, <1>1, <1>2, <1>3, <1>5, <2>2, <2>4 DEF Limits
  <2> QED
    BY <2>5, <2>6, <2>7, <2>8 DEF NtInv
<1> QED
  BY <1>1, <1>4, <1>5

(* The arguments do not change. *)
LEMMA ArgumentsStay == [NtNext]_ntVars => UNCHANGED <<algo, streams, lookups>>
BY DEF NtNext, TestNaive, Sm, TestSm, SmLookup, SmDrain, Coro, TestCoro, CallCoroutine, Spawn,
       SpawnPush, ResumeToAwait, ResumeToEnd, SchedulerRun, NtExit, ntVars

LEMMA NtStep == NtInv /\ HasRoom /\ [NtNext]_ntVars => NtInv'
BY OtherAlgorithms, TestCoroInv, CallCoroutineInv, SpawnInv, SpawnPushInv,
   ResumeToAwaitInv, ResumeToEndInv, SchedulerRunInv DEF NtNext, Coro

LEMMA HasRoomStep == RingFits /\ HasRoom /\ [NtNext]_ntVars => RingFits' /\ HasRoom'
<1> SUFFICES ASSUME RingFits, HasRoom, [NtNext]_ntVars PROVE RingFits' /\ HasRoom'
  OBVIOUS
<1>1. UNCHANGED <<algo, streams>>
  BY ArgumentsStay
<1>2. \/ nt_pc' \notin {"call", "spawn", "push"}
      \/ nt_pc \in {"call", "spawn", "push"}
      \/ algo = "coro"
  BY DEF NtNext, TestNaive, Sm, TestSm, SmLookup, SmDrain, Coro, TestCoro, CallCoroutine,
         Spawn, SpawnPush, ResumeToAwait, ResumeToEnd, SchedulerRun, NtExit, ntVars
<1> QED
  BY <1>1, <1>2 DEF RingFits, HasRoom

(* In a run whose ring is large enough, the invariant holds throughout. *)
THEOREM NtInvariance == NtSpec => [](RingFits => NtInv /\ HasRoom)
<1>1. NtInit => (RingFits => NtInv /\ HasRoom)
  BY NtInitInv DEF NtInit, HasRoom
<1>2. (RingFits => NtInv /\ HasRoom) /\ [NtNext]_ntVars => (RingFits => NtInv /\ HasRoom)'
  <2>1. [NtNext]_ntVars => (RingFits' <=> RingFits)
    BY ArgumentsStay DEF RingFits
  <2> QED
    BY <2>1, NtStep, HasRoomStep
<1> QED
  BY <1>1, <1>2, PTL DEF NtSpec

(* However the searches interleave, over all repetitions, the allocator    *)
(* makes at most one frame more than there are streams.                    *)
THEOREM FramesBoundedHolds == NtSpec => []FramesBounded
<1>1. (RingFits => NtInv /\ HasRoom) => FramesBounded
  BY DEF NtInv, Limits, FramesBounded
<1> QED
  BY <1>1, NtInvariance, PTL

(* The ring holds every suspended coroutine once, although it has no test  *)
(* for being full: the throttler never lets N of them be suspended.        *)
THEOREM RingIsFaithfulHolds == NtSpec => []RingIsFaithful
<1>1. (RingFits => NtInv /\ HasRoom) => RingIsFaithful
  <2> SUFFICES ASSUME RingFits, NtInv PROVE RingIsFaithful
    BY DEF RingIsFaithful
  <2> DEFINE c == Count(head, tail)
             held == {arr[(tail + d) % N] : d \in 0..(((head - tail) % N) - 1)}
             at == [d \in 0..(c - 1) |-> At(arr, tail, d)]
  <2>0. Scheduled
    BY DEF NtInv
  <2>1. /\ head \in 0..(N - 1) /\ tail \in 0..(N - 1)
        /\ \A d \in 0..(c - 1) : At(arr, tail, d) \in Suspended
        /\ \A k \in Suspended : \E d \in 0..(c - 1) : At(arr, tail, d) = k
        /\ \A d, e \in 0..(c - 1) : At(arr, tail, d) = At(arr, tail, e) => d = e
    BY <2>0 DEF Scheduled, RingHolds
  <2>2. N \in Nat /\ N > 0 /\ c \in 0..(N - 1)
    BY <2>1, CountBounds
  <2>3. (head - tail) % N = c
    BY <2>1, ModOfDifference DEF Count
  <2>4. \A d \in 0..(c - 1) : tail + d \in 0..(2 * N - 1)
    BY <2>1, <2>2
  <2>5. \A d \in 0..(c - 1) : arr[(tail + d) % N] = At(arr, tail, d)
    BY <2>4, ModIsWrap DEF At
  <2> HIDE DEF c
  <2>6. held = Suspended
    BY <2>1, <2>3, <2>5
  <2>7. at \in Bijection(0..(c - 1), Suspended)
    <3>1. at \in [0..(c - 1) -> Suspended]
      BY <2>1
    <3>2. \A d, e \in 0..(c - 1) : at[d] = at[e] => d = e
      BY <2>1
    <3>3. \A k \in Suspended : \E d \in 0..(c - 1) : at[d] = k
      BY <2>1
    <3> HIDE DEF at
    <3> QED
      BY <3>1, <3>2, <3>3 DEF Bijection, Injection, Surjection, IsInjective
  <2>8. IsFiniteSet(0..(c - 1)) /\ Cardinality(0..(c - 1)) = c
    <3>1. 0 \in Int /\ c - 1 \in Int
      BY <2>2
    <3>2. /\ IsFiniteSet(0..(c - 1))
          /\ Cardinality(0..(c - 1)) = IF 0 > c - 1 THEN 0 ELSE (c - 1) - 0 + 1
      BY <3>1, FS_Interval
    <3> QED
      BY <2>2, <3>2
  <2>9. Cardinality(Suspended) = c
    BY <2>7, <2>8, FS_Bijection DEF ExistsBijection
  <2>10. Cardinality(held) = (head - tail) % N
    BY <2>3, <2>6, <2>9
  <2> HIDE DEF held
  <2>11. /\ held = {k \in 1..Lookups : frame[k] # NoFrame} \ (Called \cup {cur})
         /\ (cur # 0 => cur \in {k \in 1..Lookups : frame[k] # NoFrame} \ Called)
    BY <2>0, <2>6 DEF Scheduled, Suspended, Live
  <2> QED
    BY <2>10, <2>11 DEF RingIsFaithful, Called, held
<1> QED
  BY <1>1, NtInvariance, PTL

-----------------------------------------------------------------------------
(***************************************************************************)
(* What nanotest counts.  A search that goes on has a part of v before it  *)
(* that holds the key if v does.                                           *)
(***************************************************************************)
Searches(fr, key) ==
  /\ fr \in [first : Nat, len : Nat, val : Nat, state : {"keep_going"}]
  /\ fr.val = key /\ fr.len > 0 /\ fr.first + fr.len <= Size
  /\ Present(key) => \E n \in fr.first..(fr.first + fr.len - 1) : V(n) = key

LEMMA StartsToSearch ==
  ASSUME NEW key \in Nat
  PROVE  Searches(Frame(key, "keep_going"), key)
<1>1. Size \in Nat /\ Size > 0
  BY NanotestAssumption
<1> QED
  BY <1>1 DEF Searches, Frame, Present

(* A round of the search narrows it, or ends it with the right answer. *)
LEMMA StepDoes ==
  ASSUME NEW key \in Nat, NEW fr, Searches(fr, key)
  PROVE  /\ Step(fr).state \in {"found", "not_found", "keep_going"}
         /\ Step(fr).state = "found" => Present(key)
         /\ Step(fr).state = "not_found" => ~Present(key)
         /\ Step(fr).state = "keep_going" => /\ Searches(Step(fr), key)
                                             /\ Step(fr).len < fr.len
<1>0. Size \in Nat /\ Size > 0
  BY NanotestAssumption
<1> DEFINE half == fr.len \div 2
           x == V(fr.first + half)
           s == Step(fr)
           narrowed == IF x < fr.val
                       THEN [fr EXCEPT !.first = @ + half + 1, !.len = @ - half - 1]
                       ELSE [fr EXCEPT !.len = half]
           st == IF x = fr.val THEN "found"
                 ELSE IF narrowed.len > 0 THEN "keep_going" ELSE "not_found"
<1>1. /\ fr.first \in Nat /\ fr.len \in Nat /\ fr.val = key /\ fr.len > 0
      /\ fr.first + fr.len <= Size
      /\ fr = [first |-> fr.first, len |-> fr.len, val |-> key, state |-> "keep_going"]
      /\ Present(key) => \E n \in fr.first..(fr.first + fr.len - 1) : V(n) = key
  BY DEF Searches
<1>2. half \in Nat /\ half < fr.len /\ x = 2 * (fr.first + half)
  BY <1>1 DEF V
<1>3. s = [narrowed EXCEPT !.state = st]
  BY DEF Step
<1> HIDE DEF half
<1>4. /\ s.state = st /\ s.val = key
      /\ s.first = (IF x < key THEN fr.first + half + 1 ELSE fr.first)
      /\ s.len = (IF x < key THEN fr.len - half - 1 ELSE half)
      /\ narrowed.len = s.len
      /\ s = [first |-> s.first, len |-> s.len, val |-> s.val, state |-> s.state]
  BY <1>1, <1>3
<1>5. s.first \in Nat /\ s.len \in Nat /\ s.first + s.len <= Size /\ s.len < fr.len
  BY <1>0, <1>1, <1>2, <1>4
<1> HIDE DEF s, x, narrowed
<1>6. st \in {"found", "not_found", "keep_going"}
  OBVIOUS
<1>7. ASSUME st = "found" PROVE Present(key)
  <2>1. x = key /\ fr.first + half \in 0..(Size - 1)
    BY <1>0, <1>1, <1>2, <1>7
  <2> QED
    BY <2>1 DEF Present, x
<1>8. ASSUME x # key, Present(key)
      PROVE  \E n \in s.first..(s.first + s.len - 1) : V(n) = key
  <2>1. PICK n \in fr.first..(fr.first + fr.len - 1) : V(n) = key
    BY <1>1, <1>8
  <2>2. n # fr.first + half
    BY <1>8, <2>1 DEF x
  <2>3. n \in Int /\ 2 * n = key
    BY <1>1, <2>1 DEF V
  <2>4. CASE x < key
    <3>1. n > fr.first + half
      BY <1>1, <1>2, <2>3, <2>4
    <3> QED
      BY <1>1, <1>2, <1>4, <2>1, <2>4, <3>1
  <2>5. CASE ~(x < key)
    <3>1. n < fr.first + half
      BY <1>1, <1>2, <2>2, <2>3, <2>5
    <3> QED
      BY <1>1, <1>2, <1>4, <2>1, <2>5, <3>1
  <2> QED
    BY <2>4, <2>5
<1>9. ASSUME st = "not_found" PROVE ~Present(key)
  <2>1. x # key /\ ~(s.len > 0)
    BY <1>1, <1>4, <1>9
  <2>2. s.len = 0
    BY <1>5, <2>1
  <2>3. s.first..(s.first + s.len - 1) = {}
    BY <1>5, <2>2
  <2> QED
    BY <1>8, <2>1, <2>3
<1>10. ASSUME st = "keep_going" PROVE Searches(s, key)
  <2>1. x # key /\ s.len > 0
    BY <1>1, <1>4, <1>10
  <2>2. s \in [first : Nat, len : Nat, val : Nat, state : {"keep_going"}]
    BY <1>4, <1>5, <1>10
  <2> QED
    BY <1>4, <1>5, <1>8, <2>1, <2>2 DEF Searches
<1> HIDE DEF st
<1> QED
  BY <1>4, <1>5, <1>6, <1>7, <1>9, <1>10 DEF s


(***************************************************************************)
(* The naive search: the loop's rounds exist, and Size of them are enough, *)
(* as each leaves less of v.                                               *)
(***************************************************************************)
Round(fr) == IF fr.state = "keep_going" THEN Step(fr) ELSE fr

AreRounds(key, S, h) ==
  h = [n \in S |-> IF n = 0 THEN Frame(key, "keep_going")
                   ELSE IF h[n - 1].state = "keep_going" THEN Step(h[n - 1])
                   ELSE h[n - 1]]

LEMMA NaiveIsRounds ==
  ASSUME NEW key
  PROVE  NaiveBinarySearch(key) <=> (CHOOSE h : AreRounds(key, 0..Size, h))[Size].state = "found"
BY DEF NaiveBinarySearch, AreRounds

LEMMA RoundsExist ==
  ASSUME NEW key
  PROVE  \A m \in Nat : \E h : AreRounds(key, 0..m, h)
<1> DEFINE base == Frame(key, "keep_going")
           X == {m \in Nat : \E h : AreRounds(key, 0..m, h)}
<1>0. \A S, h : AreRounds(key, S, h) <=> h = [n \in S |-> IF n = 0 THEN base ELSE Round(h[n - 1])]
  BY DEF AreRounds, Round
<1> HIDE DEF base
<1>1. 0 \in X
  <2> DEFINE h == [n \in 0..0 |-> base]
  <2>1. h = [n \in 0..0 |-> IF n = 0 THEN base ELSE Round(h[n - 1])]
    OBVIOUS
  <2> QED
    BY <1>0, <2>1
<1>2. ASSUME NEW m \in Nat, m \in X PROVE m + 1 \in X
  <2>1. PICK h : AreRounds(key, 0..m, h)
    BY <1>2
  <2> DEFINE g == [n \in 0..(m + 1) |-> IF n <= m THEN h[n] ELSE Round(h[n - 1])]
             body == [n \in 0..(m + 1) |-> IF n = 0 THEN base ELSE Round(g[n - 1])]
  <2>2. \A n \in 0..m : h[n] = IF n = 0 THEN base ELSE Round(h[n - 1])
    BY <1>0, <2>1
  <2>3. ASSUME NEW n \in 0..(m + 1) PROVE g[n] = body[n]
    <3>1. CASE n = 0
      BY <2>2, <3>1
    <3>2. CASE n # 0
      <4>1. n - 1 \in 0..m /\ g[n - 1] = h[n - 1] /\ body[n] = Round(h[n - 1])
        BY <3>2
      <4>2. n <= m => h[n] = Round(h[n - 1])
        BY <2>2, <3>2
      <4> QED
        BY <4>1, <4>2
    <3> QED
      BY <3>1, <3>2
  <2>4. g = body
    BY <2>3
  <2>5. AreRounds(key, 0..(m + 1), g)
    BY <1>0, <2>4
  <2> QED
    BY <2>5
<1> QED
  <2> HIDE DEF X
  <2>1. Nat \subseteq X
    BY <1>1, <1>2, NatSetInduction
  <2> QED
    BY <2>1 DEF X

LEMMA NaiveIsPresent ==
  ASSUME NEW key \in Nat
  PROVE  NaiveBinarySearch(key) <=> Present(key)
<1>0. Size \in Nat /\ Size > 0
  BY NanotestAssumption
<1>1. PICK h : h = CHOOSE g : AreRounds(key, 0..Size, g)
  OBVIOUS
<1>2. AreRounds(key, 0..Size, h)
  BY <1>0, <1>1, RoundsExist
<1>3. /\ h[0] = Frame(key, "keep_going")
      /\ \A n \in 0..Size : n # 0 => h[n] = Round(h[n - 1])
  BY <1>0, <1>2 DEF AreRounds, Round
<1> DEFINE Right(n) ==
             \/ h[n].state = "found" /\ Present(key)
             \/ h[n].state = "not_found" /\ ~Present(key)
             \/ Searches(h[n], key) /\ h[n].len <= Size - n
           X == {n \in Nat : n <= Size => Right(n)}
<1>4. 0 \in X
  <2>1. Searches(h[0], key) /\ h[0].len = Size
    BY <1>3, StartsToSearch DEF Frame
  <2> QED
    BY <1>0, <2>1
<1>5. ASSUME NEW n \in Nat, n \in X PROVE n + 1 \in X
  <2> SUFFICES ASSUME n + 1 <= Size PROVE Right(n + 1)
    OBVIOUS
  <2>1. Right(n)
    BY <1>0, <1>5
  <2>2. n + 1 \in 0..Size /\ n + 1 # 0 /\ (n + 1) - 1 = n
    BY <1>0
  <2>3. h[n + 1] = Round(h[n])
    BY <1>3, <2>2
  <2>4. CASE h[n].state \in {"found", "not_found"}
    <3>1. h[n + 1] = h[n]
      BY <2>3, <2>4 DEF Round
    <3>2. ~Searches(h[n], key)
      BY <2>4 DEF Searches
    <3> QED
      BY <2>1, <3>1, <3>2
  <2>5. CASE Searches(h[n], key) /\ h[n].len <= Size - n
    <3>1. h[n].state = "keep_going" /\ h[n].len \in Nat
      BY <2>5 DEF Searches
    <3>2. h[n + 1] = Step(h[n])
      BY <2>3, <3>1 DEF Round
    <3>3. /\ h[n + 1].state \in {"found", "not_found", "keep_going"}
          /\ h[n + 1].state = "found" => Present(key)
          /\ h[n + 1].state = "not_found" => ~Present(key)
          /\ h[n + 1].state = "keep_going" => /\ Searches(h[n + 1], key)
                                              /\ h[n + 1].len < h[n].len
      BY <2>5, <3>2, StepDoes
    <3>4. Searches(h[n + 1], key) => h[n + 1].len \in Nat
      BY DEF Searches
    <3> QED
      BY <1>0, <2>5, <3>1, <3>3, <3>4
  <2> QED
    BY <2>1, <2>4, <2>5
<1>6. Nat \subseteq X
  <2> HIDE DEF X
  <2> QED
    BY <1>4, <1>5, NatSetInduction
<1>7. Right(Size)
  BY <1>0, <1>6
<1>8. ~(Searches(h[Size], key) /\ h[Size].len <= Size - Size)
  BY <1>0 DEF Searches
<1>9. h[Size].state = "found" <=> Present(key)
  BY <1>7, <1>8
<1> QED
  BY <1>1, <1>9, NaiveIsRounds


(***************************************************************************)
(* The inductive invariant of the counts.  The coroutines that have ended  *)
(* are counted, and those that have not search on; the state machine has   *)
(* counted what it was given, but for what is still in its frames.         *)
(***************************************************************************)
Answered == {k \in 1..(next - 1) : frame[k] = NoFrame}
Hits(keys, ks) == {k \in ks : Present(keys[k])}
Misses(keys, ks) == {k \in ks : ~Present(keys[k])}
Going == {s \in 0..(streams - 1) : f[s].state = "keep_going"}
GoingHits == {s \in Going : Present(f[s].val)}
Coroutines == {"call", "spawn", "push"}

Arguments ==
  /\ algo \in {"naive", "sm", "coro"} /\ lookups \in [1..Lookups -> Nat]
  /\ repeat \in 0..Repeat
  /\ nt_pc = "sm_lookup" => algo = "sm" /\ repeat > 0
  /\ nt_pc \in Coroutines => algo = "coro" /\ repeat > 0

LiveSearch ==
  \A k \in Live : frame[k] = Frame(lookups[k], "initial") \/ Searches(frame[k], lookups[k])

CoroCounts ==
  nt_pc \in Coroutines =>
    /\ found_count = Cardinality(Hits(lookups, Answered))
    /\ not_found_count = Cardinality(Misses(lookups, Answered))

SmSearch ==
  /\ f = [s \in 0..(streams - 1) |-> f[s]] /\ i \in 0..(streams - 1)
  /\ \A s \in Going : f[s].val \in Nat /\ Searches(f[s], f[s].val)

SmCounts ==
  /\ result \in Nat
  /\ nt_pc = "sm_lookup" =>
       result + Cardinality(GoingHits) = Cardinality(Hits(lookups, 1..(next - 1)))

Totals ==
  /\ total = (Repeat - repeat) * Cardinality(Hits(lookups, 1..Lookups))
  /\ (nt_pc = "main" /\ algo = "coro" /\ repeat < Repeat) =>
       found_count + not_found_count = Lookups

SumInv == Arguments /\ LiveSearch /\ CoroCounts /\ SmSearch /\ SmCounts /\ Totals

LEMMA HitsFinite ==
  ASSUME NEW keys, NEW ks, ks \subseteq 1..Lookups
  PROVE  /\ IsFiniteSet(Hits(keys, ks)) /\ Cardinality(Hits(keys, ks)) \in Nat
         /\ IsFiniteSet(Misses(keys, ks)) /\ Cardinality(Misses(keys, ks)) \in Nat
<1>1. IsFiniteSet(1..Lookups)
  BY NtSizes, FS_Interval
<1>2. Hits(keys, ks) \in SUBSET (1..Lookups) /\ Misses(keys, ks) \in SUBSET (1..Lookups)
  BY DEF Hits, Misses
<1>3. IsFiniteSet(Hits(keys, ks)) /\ IsFiniteSet(Misses(keys, ks))
  BY <1>1, <1>2, FS_Subset
<1> QED
  BY <1>3, FS_CardinalityType

LEMMA HitsGrow ==
  ASSUME NEW keys, NEW ks, ks \subseteq 1..Lookups, NEW k, k \notin ks
  PROVE  /\ Cardinality(Hits(keys, ks \cup {k}))
              = Cardinality(Hits(keys, ks)) + (IF Present(keys[k]) THEN 1 ELSE 0)
         /\ Cardinality(Misses(keys, ks \cup {k}))
              = Cardinality(Misses(keys, ks)) + (IF Present(keys[k]) THEN 0 ELSE 1)
<1>1. /\ IsFiniteSet(Hits(keys, ks)) /\ Cardinality(Hits(keys, ks)) \in Nat
      /\ IsFiniteSet(Misses(keys, ks)) /\ Cardinality(Misses(keys, ks)) \in Nat
  BY HitsFinite
<1>2. k \notin Hits(keys, ks) /\ k \notin Misses(keys, ks)
  BY DEF Hits, Misses
<1>3. CASE Present(keys[k])
  <2>1. Hits(keys, ks \cup {k}) = Hits(keys, ks) \cup {k} /\ Misses(keys, ks \cup {k}) = Misses(keys, ks)
    BY <1>3 DEF Hits, Misses
  <2>2. Cardinality(Hits(keys, ks) \cup {k}) = Cardinality(Hits(keys, ks)) + 1
    BY <1>1, <1>2, FS_AddElement
  <2> QED
    BY <1>1, <1>3, <2>1, <2>2
<1>4. CASE ~Present(keys[k])
  <2>1. Misses(keys, ks \cup {k}) = Misses(keys, ks) \cup {k} /\ Hits(keys, ks \cup {k}) = Hits(keys, ks)
    BY <1>4 DEF Hits, Misses
  <2>2. Cardinality(Misses(keys, ks) \cup {k}) = Cardinality(Misses(keys, ks)) + 1
    BY <1>1, <1>2, FS_AddElement
  <2>3. /\ Cardinality(Misses(keys, ks \cup {k})) = Cardinality(Misses(keys, ks)) + 1
        /\ Cardinality(Hits(keys, ks \cup {k})) = Cardinality(Hits(keys, ks))
    BY <2>1, <2>2
  <2> QED
    BY <1>1, <1>4, <2>3
<1> QED
  BY <1>3, <1>4

LEMMA HitsAndMisses ==
  ASSUME NEW keys
  PROVE  /\ Cardinality(Hits(keys, 1..Lookups)) \in Nat
         /\ Cardinality(Hits(keys, 1..Lookups)) + Cardinality(Misses(keys, 1..Lookups)) = Lookups
         /\ Cardinality(Hits(keys, {})) = 0 /\ Cardinality(Misses(keys, {})) = 0
<1>1. /\ IsFiniteSet(Hits(keys, 1..Lookups)) /\ Cardinality(Hits(keys, 1..Lookups)) \in Nat
      /\ IsFiniteSet(Misses(keys, 1..Lookups)) /\ Cardinality(Misses(keys, 1..Lookups)) \in Nat
  BY HitsFinite
<1>2. /\ Hits(keys, 1..Lookups) \cup Misses(keys, 1..Lookups) = 1..Lookups
      /\ Hits(keys, 1..Lookups) \cap Misses(keys, 1..Lookups) = {}
      /\ Hits(keys, {}) = {} /\ Misses(keys, {}) = {}
  BY DEF Hits, Misses
<1>3. Cardinality(1..Lookups) = Lookups
  <2>1. 1 \in Int /\ Lookups \in Int
    BY NtSizes
  <2>2. Cardinality(1..Lookups) = IF 1 > Lookups THEN 0 ELSE Lookups - 1 + 1
    BY <2>1, FS_Interval
  <2> QED
    BY <2>2, NtSizes
<1>4. Cardinality({}) = 0
  BY FS_EmptySet
<1>5. Cardinality(1..Lookups)
        = Cardinality(Hits(keys, 1..Lookups)) + Cardinality(Misses(keys, 1..Lookups))
          - Cardinality(Hits(keys, 1..Lookups) \cap Misses(keys, 1..Lookups))
  BY <1>1, <1>2, FS_Union
<1>6. Cardinality(Hits(keys, 1..Lookups) \cap Misses(keys, 1..Lookups)) = 0
  BY <1>2, <1>4
<1>7. Cardinality(Hits(keys, 1..Lookups)) + Cardinality(Misses(keys, 1..Lookups)) = Lookups
  BY <1>1, <1>3, <1>5, <1>6
<1> QED
  BY <1>1, <1>2, <1>4, <1>7

LEMMA FoundIsHits ==
  ASSUME NEW keys
  PROVE  Found(keys, Present) = Cardinality(Hits(keys, 1..Lookups))
BY DEF Found, Hits

LEMMA NaiveFoundIsHits ==
  ASSUME NEW keys \in [1..Lookups -> Nat]
  PROVE  Found(keys, NaiveBinarySearch) = Cardinality(Hits(keys, 1..Lookups))
<1>1. \A k \in 1..Lookups : NaiveBinarySearch(keys[k]) <=> Present(keys[k])
  BY NaiveIsPresent
<1>2. {k \in 1..Lookups : NaiveBinarySearch(keys[k])} = Hits(keys, 1..Lookups)
  BY <1>1 DEF Hits
<1> QED
  BY <1>2 DEF Found

(* A repetition more. *)
LEMMA OneRepetitionMore ==
  ASSUME NEW r, r \in 0..Repeat, r > 0, NEW c, c \in Nat
  PROVE  (Repeat - (r - 1)) * c = (Repeat - r) * c + c /\ r - 1 \in 0..Repeat
<1>1. Repeat \in Nat /\ r \in Nat
  BY NanotestAssumption
<1> QED
  BY <1>1


LEMMA SumInitInv == NtInit => SumInv
<1> SUFFICES ASSUME NtInit PROVE SumInv
  OBVIOUS
<1>0. Repeat \in Nat /\ MaxStreams \in Nat /\ Keys \subseteq Nat /\ Lookups \in Nat
  BY NanotestAssumption
<1>1. Live = {}
  BY DEF NtInit, Live
<1>2. Arguments
  <2>1. /\ algo \in {"naive", "sm", "coro"} /\ lookups \in [1..Lookups -> Keys]
        /\ nt_pc = "main" /\ repeat = Repeat
    BY DEF NtInit
  <2>2. lookups \in [1..Lookups -> Nat] /\ repeat \in 0..Repeat
    <3>1. \A k \in 1..Lookups : lookups[k] \in Nat
      BY <1>0, <2>1
    <3>2. lookups \in [1..Lookups -> Nat]
      BY <2>1, <3>1
    <3>3. repeat \in 0..Repeat
      BY <1>0, <2>1
    <3> QED
      BY <3>2, <3>3
  <2> HIDE DEF NtInit
  <2> QED
    BY <2>1, <2>2 DEF Arguments, Coroutines
<1>3. LiveSearch /\ CoroCounts
  BY <1>1 DEF LiveSearch, CoroCounts, NtInit, Coroutines
<1>4. Going = {}
  BY DEF NtInit, Going, NoFrame
<1>5. SmSearch /\ SmCounts
  <2>1. streams \in 1..MaxStreams /\ f = [s \in 0..(streams - 1) |-> NoFrame] /\ i = 0 /\ result = 0
        /\ nt_pc = "main"
    BY DEF NtInit
  <2>2. f = [s \in 0..(streams - 1) |-> f[s]]
    BY <2>1
  <2> QED
    BY <1>0, <1>4, <2>1, <2>2 DEF SmSearch, SmCounts
<1>6. Totals
  <2>1. total = 0 /\ repeat = Repeat
    BY DEF NtInit
  <2>2. Cardinality(Hits(lookups, 1..Lookups)) \in Nat
    BY HitsAndMisses
  <2> HIDE DEF NtInit
  <2> QED
    BY <1>0, <2>1, <2>2 DEF Totals
<1> QED
  BY <1>2, <1>3, <1>5, <1>6 DEF SumInv

(* The coroutines' part of the invariant while another algorithm runs. *)
LEMMA CorosRest ==
  ASSUME SumInv, UNCHANGED <<lookups, coroVars>>, nt_pc' \notin Coroutines
  PROVE  LiveSearch' /\ CoroCounts'
<1>1. frame' = frame /\ lookups' = lookups
  BY DEF coroVars
<1>2. LiveSearch
  BY DEF SumInv
<1>3. LiveSearch'
  BY <1>1, <1>2 DEF LiveSearch, Live
<1>4. CoroCounts'
  BY DEF CoroCounts, Coroutines
<1> QED
  BY <1>3, <1>4

(* The state machine's. *)
LEMMA SmRests ==
  ASSUME SumInv, UNCHANGED <<streams, smVars>>, nt_pc' # "sm_lookup"
  PROVE  SmSearch' /\ SmCounts'
<1>1. f' = f /\ i' = i /\ result' = result /\ streams' = streams
  BY DEF smVars
<1>2. SmSearch /\ result \in Nat
  BY DEF SumInv, SmCounts
<1>3. SmSearch'
  BY <1>1, <1>2 DEF SmSearch, Going
<1> QED
  BY <1>1, <1>2, <1>3 DEF SmCounts

(* Main's. *)
LEMMA TotalStays ==
  ASSUME SumInv, UNCHANGED <<lookups, total, repeat>>, nt_pc' # "main"
  PROVE  Totals'
BY DEF SumInv, Totals

LEMMA NaiveSum ==
  ASSUME NtInv, SumInv, TestNaive
  PROVE  SumInv'
<1>1. /\ nt_pc = "main" /\ nt_pc' = "main" /\ repeat > 0 /\ algo = "naive"
      /\ total' = total + Found(lookups, NaiveBinarySearch) /\ repeat' = repeat - 1
      /\ algo' = algo /\ streams' = streams /\ lookups' = lookups
      /\ UNCHANGED coroVars /\ UNCHANGED smVars
  BY DEF TestNaive
<1>2. Arguments /\ Totals
  BY DEF SumInv
<1>3. lookups \in [1..Lookups -> Nat] /\ repeat \in 0..Repeat /\ Repeat \in Nat
  BY <1>2, NanotestAssumption DEF Arguments
<1>4. PICK c \in Nat : c = Cardinality(Hits(lookups, 1..Lookups))
  BY HitsAndMisses
<1>5. Found(lookups, NaiveBinarySearch) = c
  BY <1>3, <1>4, NaiveFoundIsHits
<1>6. (Repeat - (repeat - 1)) * c = (Repeat - repeat) * c + c /\ repeat - 1 \in 0..Repeat
  BY <1>1, <1>3, OneRepetitionMore
<1>7. total' = (Repeat - repeat') * Cardinality(Hits(lookups, 1..Lookups)')
  BY <1>1, <1>2, <1>4, <1>5, <1>6 DEF Totals
<1>8. Totals'
  BY <1>1, <1>7 DEF Totals
<1>9. Arguments'
  BY <1>1, <1>2, <1>6 DEF Arguments, Coroutines
<1>10. LiveSearch' /\ CoroCounts'
  BY <1>1, CorosRest DEF Coroutines
<1>11. SmSearch' /\ SmCounts'
  BY <1>1, SmRests
<1> QED
  BY <1>8, <1>9, <1>10, <1>11 DEF SumInv


LEMMA TestSmSum ==
  ASSUME NtInv, SumInv, TestSm
  PROVE  SumInv'
<1>1. /\ nt_pc = "main" /\ nt_pc' = "sm_lookup" /\ repeat > 0 /\ algo = "sm"
      /\ f' = [s \in 0..(streams - 1) |-> NoFrame] /\ i' = streams - 1 /\ result' = 0
      /\ next' = 1 /\ algo' = algo /\ streams' = streams /\ lookups' = lookups
      /\ repeat' = repeat /\ total' = total /\ UNCHANGED coroVars
  BY DEF TestSm
<1>2. Arguments'
  BY <1>1 DEF SumInv, Arguments, Coroutines
<1>3. LiveSearch' /\ CoroCounts'
  BY <1>1, CorosRest DEF Coroutines
<1>4. Totals'
  BY <1>1, TotalStays
<1>5. Going' = {} /\ GoingHits' = {}
  BY <1>1 DEF Going, GoingHits, NoFrame
<1>6. SmSearch'
  <2>1. f' = [s \in 0..(streams' - 1) |-> f'[s]]
    BY <1>1
  <2>2. streams \in 1..MaxStreams
    BY DEF NtInv, NtTypes
  <2>3. i' \in 0..(streams' - 1)
    BY <1>1, <2>2, NtSizes
  <2> QED
    BY <1>5, <2>1, <2>3 DEF SmSearch
<1>7. SmCounts'
  <2>1. 1..(next' - 1) = {}
    BY <1>1
  <2>2. Cardinality(Hits(lookups', {})) = 0 /\ Cardinality(GoingHits') = 0
    BY <1>5, HitsAndMisses, FS_EmptySet
  <2> QED
    BY <1>1, <2>1, <2>2 DEF SmCounts
<1> QED
  BY <1>2, <1>3, <1>4, <1>6, <1>7 DEF SumInv

(* The frames are finitely many. *)
LEMMA GoingFinite ==
  ASSUME NtInv
  PROVE  IsFiniteSet(GoingHits) /\ Cardinality(GoingHits) \in Nat
<1>1. streams \in Int
  BY DEF NtInv, NtTypes
<1>2. IsFiniteSet(0..(streams - 1))
  BY <1>1, FS_Interval
<1>3. GoingHits \in SUBSET (0..(streams - 1))
  BY DEF GoingHits, Going
<1>4. IsFiniteSet(GoingHits)
  BY <1>2, <1>3, FS_Subset
<1> QED
  BY <1>4, FS_CardinalityType

(* The frame at i is run; if it goes on, the lookup waits. *)
LEMMA SmLookupWaits ==
  ASSUME NtInv, SumInv, nt_pc = "sm_lookup",
         f[i].state = "keep_going", Step(f[i]).state = "keep_going",
         f' = [f EXCEPT ![i] = Step(f[i])], i' = Previous(i),
         UNCHANGED <<nt_pc, streams, lookups, next, result>>
  PROVE  SmSearch' /\ SmCounts'
<1>0. SmSearch /\ SmCounts
  BY DEF SumInv
<1>1. /\ i \in 0..(streams - 1) /\ DOMAIN f = 0..(streams - 1) /\ streams \in 1..MaxStreams
      /\ i \in Going /\ f[i].val \in Nat /\ Searches(f[i], f[i].val)
  BY <1>0 DEF SmSearch, NtInv, NtTypes, Going
<1>2. Searches(Step(f[i]), f[i].val) /\ Step(f[i]).val = f[i].val
  BY <1>1, StepDoes DEF Searches
<1>3. /\ f'[i] = Step(f[i]) /\ DOMAIN f' = 0..(streams - 1)
      /\ \A s \in 0..(streams - 1) : s # i => f'[s] = f[s]
      /\ f' = [s \in 0..(streams - 1) |-> f'[s]]
  BY <1>1
<1>4. Going' = Going
  BY <1>1, <1>3 DEF Going
<1>5. \A s \in Going : f'[s].val = f[s].val
  BY <1>2, <1>3 DEF Going
<1>6. GoingHits' = GoingHits
  BY <1>4, <1>5 DEF GoingHits
<1>7. ASSUME NEW s \in Going PROVE f'[s].val \in Nat /\ Searches(f'[s], f'[s].val)
  <2>1. CASE s = i
    BY <1>1, <1>2, <1>3, <2>1
  <2>2. CASE s # i
    BY <1>0, <1>3, <2>2 DEF SmSearch, Going
  <2> QED
    BY <2>1, <2>2
<1>8. i' \in 0..(streams - 1)
  BY <1>1, NtSizes DEF Previous
<1>9. SmSearch'
  BY <1>3, <1>4, <1>7, <1>8 DEF SmSearch
<1>10. SmCounts'
  BY <1>0, <1>6 DEF SmCounts
<1> QED
  BY <1>9, <1>10


(* The frame at i is free, or ends: the lookup goes into it. *)
LEMMA SmLookupTaken ==
  ASSUME NtInv, SumInv, nt_pc = "sm_lookup", next <= Lookups,
         f[i].state = "keep_going" => Step(f[i]).state # "keep_going",
         f' = [f EXCEPT ![i] = Frame(lookups[next], "keep_going")],
         next' = next + 1,
         result' = IF f[i].state = "keep_going" /\ Step(f[i]).state = "found"
                   THEN result + 1 ELSE result,
         i' = Previous(i), UNCHANGED <<nt_pc, streams, lookups>>
  PROVE  SmSearch' /\ SmCounts'
<1>0. SmSearch /\ SmCounts /\ Arguments
  BY DEF SumInv
<1>1. /\ i \in 0..(streams - 1) /\ DOMAIN f = 0..(streams - 1) /\ streams \in 1..MaxStreams
      /\ next \in 1..Lookups /\ lookups[next] \in Nat
  BY <1>0, NtSizes DEF SmSearch, NtInv, NtTypes, Arguments
<1>2. i \in Going => Searches(f[i], f[i].val) /\ f[i].val \in Nat
  BY <1>0 DEF SmSearch
<1>3. i \in GoingHits <=> (f[i].state = "keep_going" /\ Step(f[i]).state = "found")
  <2>1. CASE f[i].state = "keep_going"
    <3>1. i \in Going /\ f[i].val \in Nat /\ Searches(f[i], f[i].val)
      BY <1>1, <1>2, <2>1 DEF Going
    <3>2. /\ Step(f[i]).state \in {"found", "not_found"}
          /\ Step(f[i]).state = "found" => Present(f[i].val)
          /\ Step(f[i]).state = "not_found" => ~Present(f[i].val)
      BY <2>1, <3>1, StepDoes
    <3> QED
      BY <2>1, <3>1, <3>2 DEF GoingHits
  <2>2. CASE f[i].state # "keep_going"
    BY <2>2 DEF GoingHits, Going
  <2> QED
    BY <2>1, <2>2
<1>4. PICK fr : fr = Frame(lookups[next], "keep_going")
  OBVIOUS
<1>5. fr.state = "keep_going" /\ fr.val = lookups[next] /\ Searches(fr, fr.val)
  BY <1>1, <1>4, StartsToSearch DEF Frame
<1>6. /\ f'[i] = fr /\ DOMAIN f' = 0..(streams - 1)
      /\ \A s \in 0..(streams - 1) : s # i => f'[s] = f[s]
      /\ f' = [s \in 0..(streams - 1) |-> f'[s]]
  BY <1>1, <1>4
<1>7. Going' = Going \cup {i}
  BY <1>1, <1>5, <1>6 DEF Going
<1>8. ASSUME NEW s \in Going \cup {i} PROVE f'[s].val \in Nat /\ Searches(f'[s], f'[s].val)
  <2>1. CASE s = i
    BY <1>1, <1>5, <1>6, <2>1
  <2>2. CASE s # i
    BY <1>0, <1>6, <2>2 DEF SmSearch, Going
  <2> QED
    BY <2>1, <2>2
<1>9. i' \in 0..(streams - 1)
  BY <1>1, NtSizes DEF Previous
<1>10. SmSearch'
  BY <1>6, <1>7, <1>8, <1>9 DEF SmSearch
<1> DEFINE A == GoingHits \ {i}
           hit == IF Present(lookups[next]) THEN 1 ELSE 0
           ended == IF i \in GoingHits THEN 1 ELSE 0
<1>11. IsFiniteSet(GoingHits) /\ Cardinality(GoingHits) \in Nat
  BY GoingFinite
<1>12. IsFiniteSet(A) /\ Cardinality(GoingHits) = Cardinality(A) + ended /\ Cardinality(A) \in Nat
  <2>1. IsFiniteSet(A) /\ Cardinality(A) = IF i \in GoingHits THEN Cardinality(GoingHits) - 1
                                          ELSE Cardinality(GoingHits)
    BY <1>11, FS_RemoveElement
  <2>2. Cardinality(A) \in Nat
    BY <2>1, FS_CardinalityType
  <2> QED
    BY <1>11, <2>1, <2>2
<1>13. Cardinality(GoingHits') = Cardinality(A) + hit
  <2>1. CASE Present(lookups[next])
    <3>1. GoingHits' = A \cup {i}
      BY <1>5, <1>6, <1>7, <2>1 DEF GoingHits, Going
    <3>2. Cardinality(A \cup {i}) = Cardinality(A) + 1
      BY <1>12, FS_AddElement
    <3> QED
      BY <2>1, <3>1, <3>2
  <2>2. CASE ~Present(lookups[next])
    <3>1. GoingHits' = A
      BY <1>5, <1>6, <1>7, <2>2 DEF GoingHits, Going
    <3> QED
      BY <1>12, <2>2, <3>1
  <2> QED
    BY <2>1, <2>2
<1>14. Cardinality(Hits(lookups, 1..next)) = Cardinality(Hits(lookups, 1..(next - 1))) + hit
  <2>1. 1..(next - 1) \subseteq 1..Lookups /\ next \notin 1..(next - 1)
        /\ 1..next = 1..(next - 1) \cup {next}
    BY <1>1, NtSizes
  <2> HIDE DEF hit, ended, A
  <2>2. Cardinality(Hits(lookups, 1..(next - 1) \cup {next}))
          = Cardinality(Hits(lookups, 1..(next - 1))) + (IF Present(lookups[next]) THEN 1 ELSE 0)
    BY ONLY <2>1, HitsGrow
  <2> QED
    BY <2>1, <2>2 DEF hit
<1>15. result' = result + ended /\ result \in Nat
  BY <1>0, <1>3 DEF SmCounts
<1>16. result + Cardinality(GoingHits) = Cardinality(Hits(lookups, 1..(next - 1)))
  BY <1>0 DEF SmCounts
<1>17. 1..(next' - 1) = 1..next
  BY <1>1
<1>18. hit \in Nat /\ ended \in Nat
  OBVIOUS
<1> HIDE DEF A, hit, ended
<1>19. result' + Cardinality(GoingHits') = Cardinality(Hits(lookups, 1..next)) /\ result' \in Nat
  BY <1>12, <1>13, <1>14, <1>15, <1>16, <1>18
<1>20. SmCounts'
  BY <1>17, <1>19 DEF SmCounts
<1> QED
  BY <1>10, <1>20

LEMMA SmLookupSum ==
  ASSUME NtInv, SumInv, SmLookup
  PROVE  SumInv'
<1> DEFINE ran == IF f[i].state = "keep_going" THEN Step(f[i]) ELSE f[i]
<1>1. /\ nt_pc = "sm_lookup" /\ nt_pc' = "sm_lookup" /\ next <= Lookups
      /\ \/ /\ ran.state = "keep_going"
            /\ f' = [f EXCEPT ![i] = ran]
            /\ next' = next /\ result' = result
         \/ /\ ran.state # "keep_going"
            /\ f' = [f EXCEPT ![i] = Frame(lookups[next], "keep_going")]
            /\ next' = next + 1
            /\ result' = IF f[i].state = "keep_going" /\ ran.state = "found"
                         THEN result + 1 ELSE result
      /\ i' = Previous(i) /\ algo' = algo /\ streams' = streams /\ lookups' = lookups
      /\ repeat' = repeat /\ total' = total /\ UNCHANGED coroVars
  BY DEF SmLookup
<1>2. Arguments'
  BY <1>1 DEF SumInv, Arguments, Coroutines
<1>3. LiveSearch' /\ CoroCounts'
  BY <1>1, CorosRest DEF Coroutines
<1>4. Totals'
  BY <1>1, TotalStays
<1>5. CASE ran.state = "keep_going"
  <2>1. f[i].state = "keep_going" /\ Step(f[i]).state = "keep_going" /\ ran = Step(f[i])
    BY <1>5
  <2>2. SmSearch' /\ SmCounts'
    BY <1>1, <2>1, SmLookupWaits
  <2> QED
    BY <1>2, <1>3, <1>4, <2>2 DEF SumInv
<1>6. CASE ran.state # "keep_going"
  <2>1. /\ f[i].state = "keep_going" => Step(f[i]).state # "keep_going"
        /\ f' = [f EXCEPT ![i] = Frame(lookups[next], "keep_going")]
        /\ next' = next + 1
        /\ result' = IF f[i].state = "keep_going" /\ Step(f[i]).state = "found"
                     THEN result + 1 ELSE result
    BY <1>1, <1>6
  <2>2. SmSearch' /\ SmCounts'
    BY <1>1, <2>1, SmLookupTaken
  <2> QED
    BY <1>2, <1>3, <1>4, <2>2 DEF SumInv
<1> QED
  BY <1>5, <1>6


(* A pass over all frames counts those that it finds, and they are done. *)
LEMMA SmPass ==
  ASSUME NtInv, SumInv, nt_pc = "sm_lookup",
         f' = [s \in DOMAIN f |-> IF s \in Going THEN Step(f[s]) ELSE f[s]],
         result' = result + Cardinality({s \in Going : Step(f[s]).state = "found"}),
         UNCHANGED <<nt_pc, streams, lookups, next, i>>
  PROVE  SmSearch' /\ SmCounts'
<1> DEFINE hits == {s \in Going : Step(f[s]).state = "found"}
<1>0. SmSearch /\ SmCounts
  BY DEF SumInv
<1>1. /\ DOMAIN f = 0..(streams - 1) /\ Going \subseteq 0..(streams - 1)
      /\ \A s \in Going : f[s].val \in Nat /\ Searches(f[s], f[s].val)
  BY <1>0 DEF SmSearch, Going
<1>2. /\ f' = [s \in 0..(streams - 1) |-> f'[s]]
      /\ \A s \in Going : f'[s] = Step(f[s])
      /\ \A s \in (0..(streams - 1)) \ Going : f'[s] = f[s] /\ f[s].state # "keep_going"
  BY <1>1 DEF Going
<1>3. ASSUME NEW s \in Going
      PROVE  /\ f'[s].state \in {"found", "not_found", "keep_going"}
             /\ f'[s].state = "found" => Present(f[s].val)
             /\ f'[s].state = "not_found" => ~Present(f[s].val)
             /\ f'[s].state = "keep_going" => Searches(f'[s], f[s].val)
  BY <1>1, <1>2, StepDoes
<1>4. Going' = {s \in Going : f'[s].state = "keep_going"}
  BY <1>1, <1>2 DEF Going
<1>5. ASSUME NEW s \in Going'
      PROVE  s \in Going /\ f'[s].val = f[s].val /\ f'[s].val \in Nat /\ Searches(f'[s], f'[s].val)
  <2>1. s \in Going /\ f'[s].state = "keep_going"
    BY <1>4
  <2>2. Searches(f'[s], f[s].val)
    BY <1>3, <2>1
  <2>3. f'[s].val = f[s].val
    BY <2>2 DEF Searches
  <2> QED
    BY <1>1, <2>1, <2>2, <2>3
<1>6. SmSearch'
  BY <1>0, <1>2, <1>5 DEF SmSearch
<1>7. GoingHits' = GoingHits \ hits /\ GoingHits \cap hits = hits
  <2>1. hits = {s \in Going : f'[s].state = "found"}
    BY <1>2
  <2> HIDE DEF hits
  <2>2. GoingHits' = {s \in Going' : Present(f'[s].val)}
    BY DEF GoingHits
  <2>3. GoingHits' = {s \in Going' : Present(f[s].val)}
    BY <1>5, <2>2
  <2>4. \A s : s \in GoingHits' <=> (s \in Going /\ f'[s].state = "keep_going" /\ Present(f[s].val))
    BY <1>4, <2>3
  <2>5. \A s : s \in GoingHits <=> (s \in Going /\ Present(f[s].val))
    BY DEF GoingHits
  <2> QED
    BY <1>3, <2>1, <2>4, <2>5
<1> HIDE DEF hits
<1>8. IsFiniteSet(GoingHits) /\ Cardinality(GoingHits) \in Nat
  BY GoingFinite
<1>9. IsFiniteSet(hits) /\ Cardinality(hits) \in Nat
  <2>1. hits \in SUBSET GoingHits
    BY <1>7
  <2>2. IsFiniteSet(hits)
    BY <1>8, <2>1, FS_Subset
  <2> QED
    BY <2>2, FS_CardinalityType
<1>10. Cardinality(GoingHits') = Cardinality(GoingHits) - Cardinality(hits)
  <2>1. Cardinality(GoingHits \ hits) = Cardinality(GoingHits) - Cardinality(GoingHits \cap hits)
    BY ONLY <1>8, FS_Difference
  <2> QED
    BY <1>7, <2>1
<1>11. result' = result + Cardinality(hits) /\ result \in Nat
  BY <1>0 DEF SmCounts, hits
<1>12. result + Cardinality(GoingHits) = Cardinality(Hits(lookups, 1..(next - 1)))
  BY <1>0 DEF SmCounts
<1>13. result' + Cardinality(GoingHits') = Cardinality(Hits(lookups, 1..(next - 1))) /\ result' \in Nat
  BY <1>8, <1>9, <1>10, <1>11, <1>12
<1>14. SmCounts'
  BY <1>13 DEF SmCounts
<1> QED
  BY <1>6, <1>14

LEMMA SmDrainSum ==
  ASSUME NtInv, SumInv, SmDrain
  PROVE  SumInv'
<1>0. /\ Arguments /\ Totals /\ SmCounts /\ SmSearch /\ next \in 1..(Lookups + 1)
      /\ DOMAIN f = 0..(streams - 1)
  BY DEF SumInv, NtInv, NtTypes, SmSearch
<1>1. /\ nt_pc = "sm_lookup" /\ next > Lookups
      /\ algo' = algo /\ streams' = streams /\ lookups' = lookups /\ next' = next /\ i' = i
      /\ UNCHANGED coroVars
  BY DEF SmDrain
<1>2. {s \in DOMAIN f : f[s].state = "keep_going"} = Going
  BY <1>0 DEF Going
<1>3. \/ /\ Going # {}
         /\ f' = [s \in DOMAIN f |-> IF s \in Going THEN Step(f[s]) ELSE f[s]]
         /\ result' = result + Cardinality({s \in Going : Step(f[s]).state = "found"})
         /\ nt_pc' = nt_pc /\ repeat' = repeat /\ total' = total
      \/ /\ Going = {}
         /\ total' = total + result /\ repeat' = repeat - 1 /\ nt_pc' = "main"
         /\ f' = f /\ result' = result
  BY <1>2 DEF SmDrain
<1>4. CASE nt_pc' = "sm_lookup"
  <2>1. /\ f' = [s \in DOMAIN f |-> IF s \in Going THEN Step(f[s]) ELSE f[s]]
        /\ result' = result + Cardinality({s \in Going : Step(f[s]).state = "found"})
        /\ nt_pc' = nt_pc /\ repeat' = repeat /\ total' = total
    BY <1>1, <1>3, <1>4
  <2>2. Arguments'
    BY <1>0, <1>1, <2>1 DEF Arguments, Coroutines
  <2>3. LiveSearch' /\ CoroCounts'
    BY <1>1, <1>4, CorosRest DEF Coroutines
  <2>4. Totals'
    BY <1>1, <1>4, <2>1, TotalStays
  <2>5. SmSearch' /\ SmCounts'
    BY <1>1, <2>1, SmPass
  <2> QED
    BY <2>2, <2>3, <2>4, <2>5 DEF SumInv
<1>5. CASE nt_pc' # "sm_lookup"
  <2>1. /\ Going = {} /\ total' = total + result /\ repeat' = repeat - 1 /\ nt_pc' = "main"
        /\ f' = f /\ result' = result
    BY <1>1, <1>3, <1>5
  <2>2. repeat \in 0..Repeat /\ repeat > 0 /\ algo = "sm"
    BY <1>0, <1>1 DEF Arguments
  <2>3. PICK c \in Nat : c = Cardinality(Hits(lookups, 1..Lookups))
    BY HitsAndMisses
  <2>4. result = c
    <3>1. GoingHits = {} /\ next - 1 = Lookups
      BY <1>0, <1>1, <2>1, NtSizes DEF GoingHits
    <3>2. Cardinality(GoingHits) = 0
      BY <3>1, FS_EmptySet
    <3>3. result \in Nat /\ result + Cardinality(GoingHits) = Cardinality(Hits(lookups, 1..(next - 1)))
      BY <1>0, <1>1 DEF SmCounts
    <3> QED
      BY <2>3, <3>1, <3>2, <3>3
  <2>5. (Repeat - (repeat - 1)) * c = (Repeat - repeat) * c + c /\ repeat - 1 \in 0..Repeat
    BY <2>2, OneRepetitionMore
  <2>6. total = (Repeat - repeat) * c
    BY <1>0, <2>3 DEF Totals
  <2>7. total' = (Repeat - repeat') * Cardinality(Hits(lookups', 1..Lookups))
    BY <1>1, <2>1, <2>3, <2>4, <2>5, <2>6
  <2>8. Totals'
    BY <1>1, <2>2, <2>7 DEF Totals
  <2>9. Arguments'
    BY <1>0, <1>1, <2>1, <2>5 DEF Arguments, Coroutines
  <2>10. LiveSearch' /\ CoroCounts'
    BY <1>1, <2>1, CorosRest DEF Coroutines
  <2>11. SmSearch' /\ SmCounts'
    BY <1>1, <1>5, <2>1, SmRests DEF smVars
  <2> QED
    BY <2>8, <2>9, <2>10, <2>11 DEF SumInv
<1> QED
  BY <1>4, <1>5


LEMMA TestCoroSum ==
  ASSUME NtInv, SumInv, TestCoro
  PROVE  SumInv'
<1>1. /\ nt_pc = "main" /\ nt_pc' = "call" /\ repeat > 0 /\ algo = "coro"
      /\ found_count' = 0 /\ not_found_count' = 0 /\ next' = 1
      /\ algo' = algo /\ streams' = streams /\ lookups' = lookups /\ frame' = frame
      /\ repeat' = repeat /\ total' = total /\ UNCHANGED smVars
  BY DEF TestCoro
<1>2. Arguments'
  BY <1>1 DEF SumInv, Arguments, Coroutines
<1>3. LiveSearch'
  BY <1>1 DEF SumInv, LiveSearch, Live
<1>4. CoroCounts'
  <2>1. 1..(next' - 1) = {}
    BY <1>1
  <2>2. Answered' = {}
    BY <2>1 DEF Answered
  <2>3. Cardinality(Hits(lookups', {})) = 0 /\ Cardinality(Misses(lookups', {})) = 0
    BY HitsAndMisses
  <2> QED
    BY <1>1, <2>2, <2>3 DEF CoroCounts
<1>5. SmSearch' /\ SmCounts'
  BY <1>1, SmRests
<1>6. Totals'
  BY <1>1, TotalStays
<1> QED
  BY <1>2, <1>3, <1>4, <1>5, <1>6 DEF SumInv

(* Nothing is counted while coroutines are made, put into the ring, taken  *)
(* out of it, and go on with their searches.                               *)
LEMMA NothingCounted ==
  ASSUME NtInv, SumInv, nt_pc \in Coroutines, nt_pc' \in Coroutines,
         Answered' = Answered, LiveSearch',
         UNCHANGED <<algo, streams, lookups, repeat, total, smVars, found_count, not_found_count>>
  PROVE  SumInv'
<1>1. Arguments'
  BY DEF SumInv, Arguments, Coroutines
<1>2. CoroCounts'
  BY DEF SumInv, CoroCounts
<1>3. nt_pc' # "sm_lookup" /\ nt_pc' # "main"
  BY DEF Coroutines
<1>4. SmSearch' /\ SmCounts'
  BY <1>3, SmRests
<1>5. Totals'
  BY <1>3, TotalStays
<1> QED
  BY <1>1, <1>2, <1>4, <1>5 DEF SumInv

LEMMA CallCoroutineSum ==
  ASSUME NtInv, SumInv, CallCoroutine
  PROVE  SumInv'
<1>1. /\ nt_pc = "call" /\ nt_pc' = "spawn" /\ next <= Lookups /\ next' = next
      /\ frame' = [frame EXCEPT ![next] = Frame(lookups[next], "initial")]
      /\ UNCHANGED <<algo, streams, lookups, repeat, total, smVars, found_count, not_found_count>>
  BY DEF CallCoroutine
<1>2. next \in 1..Lookups /\ frame = [k \in 1..Lookups |-> frame[k]]
  BY <1>1, NtSizes DEF NtInv, NtTypes
<1>3. /\ frame'[next] = Frame(lookups[next], "initial")
      /\ \A k \in 1..Lookups : k # next => frame'[k] = frame[k]
  BY <1>1, <1>2
<1>4. \A k \in 1..(next - 1) : k \in 1..Lookups /\ k # next
  BY <1>2, NtSizes
<1>5. Answered' = Answered
  BY <1>1, <1>3, <1>4 DEF Answered
<1>6. LiveSearch'
  BY <1>1, <1>2, <1>3 DEF SumInv, LiveSearch, Live
<1> QED
  BY <1>1, <1>5, <1>6, NothingCounted DEF Coroutines

LEMMA SpawnSum ==
  ASSUME NtInv, SumInv, Spawn
  PROVE  SumInv'
<1>1. /\ nt_pc = "spawn" /\ nt_pc' = "push" /\ next' = next /\ frame' = frame
      /\ UNCHANGED <<algo, streams, lookups, repeat, total, smVars, found_count, not_found_count>>
  BY DEF Spawn
<1>2. Answered' = Answered
  BY <1>1 DEF Answered
<1>3. LiveSearch'
  BY <1>1 DEF SumInv, LiveSearch, Live
<1> QED
  BY <1>1, <1>2, <1>3, NothingCounted DEF Coroutines

LEMMA SpawnPushSum ==
  ASSUME NtInv, SumInv, SpawnPush
  PROVE  SumInv'
<1>1. /\ nt_pc = "push" /\ nt_pc' = "call" /\ next' = next + 1 /\ frame' = frame
      /\ UNCHANGED <<algo, streams, lookups, repeat, total, smVars, found_count, not_found_count>>
  BY DEF SpawnPush
<1>2. next \in 1..(Lookups + 1) /\ frame[next] # NoFrame
  BY <1>1 DEF NtInv, NtTypes, Scheduled, Called, Live
<1>3. 1..(next' - 1) = 1..(next - 1) \cup {next}
  BY <1>1, <1>2, NtSizes
<1>4. Answered' = Answered
  BY <1>1, <1>2, <1>3 DEF Answered
<1>5. LiveSearch'
  BY <1>1 DEF SumInv, LiveSearch, Live
<1> QED
  BY <1>1, <1>4, <1>5, NothingCounted DEF Coroutines

(* The coroutine that runs has a frame, and it searches or has not begun. *)
LEMMA RunningSearches ==
  ASSUME NtInv, SumInv, cur # 0
  PROVE  /\ cur \in 1..Lookups /\ cur \in 1..(next - 1) /\ lookups[cur] \in Nat
         /\ frame = [k \in 1..Lookups |-> frame[k]] /\ frame[cur] # NoFrame
         /\ nt_pc \in Coroutines
         /\ frame[cur] = Frame(lookups[cur], "initial") \/ Searches(frame[cur], lookups[cur])
<1>1. cur \in Live \ Called /\ \A k \in Live \ Called : k < next
  BY DEF NtInv, Scheduled
<1>2. cur \in 1..Lookups /\ frame[cur] # NoFrame /\ cur < next
  BY <1>1 DEF Live
<1>3. cur \in 1..(next - 1)
  BY <1>2, NtSizes DEF NtInv, NtTypes
<1>4. nt_pc \in Coroutines
  BY DEF NtInv, NtTypes, Control, Coroutines
<1>5. lookups[cur] \in Nat
  BY <1>2 DEF SumInv, Arguments
<1>6. frame[cur] = Frame(lookups[cur], "initial") \/ Searches(frame[cur], lookups[cur])
  BY <1>1 DEF SumInv, LiveSearch
<1>7. frame = [k \in 1..Lookups |-> frame[k]]
  BY DEF NtInv, NtTypes
<1> QED
  BY <1>2, <1>3, <1>4, <1>5, <1>6, <1>7


LEMMA ResumeToAwaitSum ==
  ASSUME NtInv, SumInv, ResumeToAwait
  PROVE  SumInv'
<1> DEFINE ran == IF frame[cur].state = "initial" THEN Frame(frame[cur].val, "keep_going")
                  ELSE Step(frame[cur])
<1>1. /\ cur # 0 /\ ran.state = "keep_going" /\ nt_pc' = nt_pc /\ next' = next
      /\ frame' = [frame EXCEPT ![cur] = ran]
      /\ UNCHANGED <<algo, streams, lookups, repeat, total, smVars, found_count, not_found_count>>
  BY DEF ResumeToAwait
<1>2. /\ cur \in 1..Lookups /\ cur \in 1..(next - 1) /\ lookups[cur] \in Nat
      /\ frame = [k \in 1..Lookups |-> frame[k]] /\ frame[cur] # NoFrame
      /\ nt_pc \in Coroutines
      /\ frame[cur] = Frame(lookups[cur], "initial") \/ Searches(frame[cur], lookups[cur])
  BY <1>1, RunningSearches
<1>3. Searches(ran, lookups[cur])
  <2>1. CASE frame[cur] = Frame(lookups[cur], "initial")
    <3>1. ran = Frame(lookups[cur], "keep_going")
      BY <2>1 DEF Frame
    <3> HIDE DEF ran
    <3> QED
      BY <1>2, <3>1, StartsToSearch
  <2>2. CASE Searches(frame[cur], lookups[cur])
    <3>1. frame[cur].state = "keep_going"
      BY <2>2 DEF Searches
    <3>2. ran = Step(frame[cur])
      BY <3>1
    <3>3. Step(frame[cur]).state = "keep_going"
      BY <1>1, <3>2
    <3> HIDE DEF ran
    <3> QED
      BY <1>2, <2>2, <3>2, <3>3, StepDoes
  <2> QED
    BY <1>2, <2>1, <2>2
<1> HIDE DEF ran
<1>4. /\ frame'[cur] = ran /\ \A k \in 1..Lookups : k # cur => frame'[k] = frame[k]
  BY <1>1, <1>2
<1>5. ran # NoFrame
  BY <1>1 DEF NoFrame
<1>6. \A k \in 1..(next - 1) : k \in 1..Lookups
  BY NtSizes DEF NtInv, NtTypes
<1>7. Answered' = Answered
  BY <1>1, <1>2, <1>4, <1>5, <1>6 DEF Answered
<1>8. LiveSearch'
  <2>1. lookups' = lookups /\ LiveSearch
    BY <1>1 DEF SumInv
  <2> SUFFICES ASSUME NEW k \in Live'
               PROVE  frame'[k] = Frame(lookups[k], "initial") \/ Searches(frame'[k], lookups[k])
    BY <2>1 DEF LiveSearch
  <2>2. k \in 1..Lookups /\ frame'[k] # NoFrame
    BY DEF Live
  <2>3. CASE k = cur
    BY <1>3, <1>4, <2>3
  <2>4. CASE k # cur
    BY <1>4, <2>1, <2>2, <2>4 DEF LiveSearch, Live
  <2> QED
    BY <2>3, <2>4
<1> QED
  BY <1>1, <1>2, <1>7, <1>8, NothingCounted

(* A coroutine that ends is counted, as what it is. *)
LEMMA ResumeToEndSum ==
  ASSUME NtInv, SumInv, ResumeToEnd
  PROVE  SumInv'
<1>1. /\ cur # 0 /\ frame[cur].state = "keep_going" /\ Step(frame[cur]).state # "keep_going"
      /\ found_count' = IF Step(frame[cur]).state = "found" THEN found_count + 1 ELSE found_count
      /\ not_found_count' = IF Step(frame[cur]).state = "found" THEN not_found_count
                            ELSE not_found_count + 1
      /\ frame' = [frame EXCEPT ![cur] = NoFrame] /\ nt_pc' = nt_pc /\ next' = next
      /\ algo' = algo /\ streams' = streams /\ lookups' = lookups
      /\ repeat' = repeat /\ total' = total /\ UNCHANGED smVars
  BY DEF ResumeToEnd
<1>2. /\ cur \in 1..Lookups /\ cur \in 1..(next - 1) /\ lookups[cur] \in Nat
      /\ frame = [k \in 1..Lookups |-> frame[k]] /\ frame[cur] # NoFrame
      /\ nt_pc \in Coroutines
      /\ frame[cur] = Frame(lookups[cur], "initial") \/ Searches(frame[cur], lookups[cur])
  BY <1>1, RunningSearches
<1>3. Searches(frame[cur], lookups[cur])
  <2>1. frame[cur] # Frame(lookups[cur], "initial")
    BY <1>1 DEF Frame
  <2> QED
    BY <1>2, <2>1
<1>4. Step(frame[cur]).state = "found" <=> Present(lookups[cur])
  <2>1. /\ Step(frame[cur]).state \in {"found", "not_found"}
        /\ Step(frame[cur]).state = "found" => Present(lookups[cur])
        /\ Step(frame[cur]).state = "not_found" => ~Present(lookups[cur])
    BY <1>1, <1>2, <1>3, StepDoes
  <2> QED
    BY <2>1
<1>5. /\ frame'[cur] = NoFrame /\ \A k \in 1..Lookups : k # cur => frame'[k] = frame[k]
  BY <1>1, <1>2
<1>6. \A k \in 1..(next - 1) : k \in 1..Lookups
  BY NtSizes DEF NtInv, NtTypes
<1>7. Answered' = Answered \cup {cur} /\ cur \notin Answered /\ Answered \subseteq 1..Lookups
  BY <1>1, <1>2, <1>5, <1>6 DEF Answered
<1>8. CoroCounts'
  <2>1. /\ found_count = Cardinality(Hits(lookups, Answered))
        /\ not_found_count = Cardinality(Misses(lookups, Answered))
    BY <1>2 DEF SumInv, CoroCounts
  <2>2. /\ Cardinality(Hits(lookups, Answered)) \in Nat
        /\ Cardinality(Misses(lookups, Answered)) \in Nat
    BY <1>7, HitsFinite
  <2>3. /\ Cardinality(Hits(lookups, Answered \cup {cur}))
             = Cardinality(Hits(lookups, Answered)) + (IF Present(lookups[cur]) THEN 1 ELSE 0)
        /\ Cardinality(Misses(lookups, Answered \cup {cur}))
             = Cardinality(Misses(lookups, Answered)) + (IF Present(lookups[cur]) THEN 0 ELSE 1)
    BY ONLY <1>7, HitsGrow
  <2>4. /\ found_count' = Cardinality(Hits(lookups, Answered \cup {cur}))
        /\ not_found_count' = Cardinality(Misses(lookups, Answered \cup {cur}))
    BY <1>1, <1>4, <2>1, <2>2, <2>3
  <2> QED
    BY <1>1, <1>7, <2>4 DEF CoroCounts
<1>9. LiveSearch'
  <2>1. lookups' = lookups /\ LiveSearch
    BY <1>1 DEF SumInv
  <2> SUFFICES ASSUME NEW k \in Live'
               PROVE  frame'[k] = Frame(lookups[k], "initial") \/ Searches(frame'[k], lookups[k])
    BY <2>1 DEF LiveSearch
  <2>2. k \in 1..Lookups /\ frame'[k] # NoFrame
    BY DEF Live
  <2> QED
    BY <1>5, <2>1, <2>2 DEF LiveSearch, Live
<1>10. nt_pc' # "sm_lookup" /\ nt_pc' # "main"
  BY <1>1, <1>2 DEF Coroutines
<1>11. SmSearch' /\ SmCounts'
  BY <1>1, <1>10, SmRests
<1>12. Totals'
  BY <1>1, <1>10, TotalStays
<1>13. Arguments'
  BY <1>1, <1>2 DEF SumInv, Arguments
<1> QED
  BY <1>8, <1>9, <1>11, <1>12, <1>13 DEF SumInv

(* When the ring is empty all coroutines have ended, and been counted. *)
LEMMA SchedulerRunSum ==
  ASSUME NtInv, SumInv, SchedulerRun
  PROVE  SumInv'
<1>1. /\ nt_pc = "call" /\ next > Lookups /\ cur = 0 /\ next' = next /\ frame' = frame
      /\ \/ nt_pc' = nt_pc /\ repeat' = repeat /\ total' = total
         \/ /\ head = tail /\ nt_pc' = "main"
            /\ total' = total + found_count /\ repeat' = repeat - 1
      /\ algo' = algo /\ streams' = streams /\ lookups' = lookups
      /\ found_count' = found_count /\ not_found_count' = not_found_count
      /\ UNCHANGED smVars
  BY DEF SchedulerRun
<1>2. LiveSearch'
  BY <1>1 DEF SumInv, LiveSearch, Live
<1>3. Answered' = Answered
  BY <1>1 DEF Answered
<1>4. CASE nt_pc' = nt_pc /\ repeat' = repeat /\ total' = total
  BY <1>1, <1>2, <1>3, <1>4, NothingCounted DEF Coroutines
<1>5. CASE /\ head = tail /\ nt_pc' = "main"
           /\ total' = total + found_count /\ repeat' = repeat - 1
  <2>0. Arguments /\ Totals /\ CoroCounts /\ Scheduled /\ next \in 1..(Lookups + 1)
    BY DEF SumInv, NtInv, NtTypes
  <2>1. Live = {}
    <3>1. Suspended = {}
      BY <1>5, <2>0, EmptyRing
    <3> QED
      BY <1>1, <3>1 DEF Suspended, Called, Live
  <2>2. next - 1 = Lookups
    BY <1>1, <2>0, NtSizes
  <2>3. Answered = 1..Lookups
    BY <2>1, <2>2 DEF Answered, Live
  <2>4. PICK c \in Nat : c = Cardinality(Hits(lookups, 1..Lookups))
    BY HitsAndMisses
  <2>5. found_count = c /\ not_found_count = Cardinality(Misses(lookups, 1..Lookups))
    BY <1>1, <2>0, <2>3, <2>4 DEF CoroCounts, Coroutines
  <2>6. found_count + not_found_count = Lookups
    BY <2>4, <2>5, HitsAndMisses
  <2>7. repeat \in 0..Repeat /\ repeat > 0
    BY <1>1, <2>0 DEF Arguments, Coroutines
  <2>8. (Repeat - (repeat - 1)) * c = (Repeat - repeat) * c + c /\ repeat - 1 \in 0..Repeat
    BY <2>7, OneRepetitionMore
  <2>9. total = (Repeat - repeat) * c
    BY <2>0, <2>4 DEF Totals
  <2>10. total' = (Repeat - repeat') * Cardinality(Hits(lookups', 1..Lookups))
    BY <1>1, <1>5, <2>4, <2>5, <2>8, <2>9
  <2>11. Totals'
    BY <1>1, <2>6, <2>10 DEF Totals
  <2>12. Arguments'
    BY <1>1, <1>5, <2>0, <2>8 DEF Arguments, Coroutines
  <2>13. CoroCounts'
    BY <1>5 DEF CoroCounts, Coroutines
  <2>14. SmSearch' /\ SmCounts'
    BY <1>1, <1>5, SmRests
  <2> QED
    BY <1>2, <2>11, <2>12, <2>13, <2>14 DEF SumInv
<1> QED
  BY <1>1, <1>4, <1>5

LEMMA UnchangedSum ==
  ASSUME SumInv, UNCHANGED ntVars
  PROVE  SumInv'
<1>1. UNCHANGED <<algo, streams, lookups, nt_pc, repeat, total, next, frame, found_count,
                  not_found_count, f, i, result>>
  BY DEF ntVars, coroVars, smVars
<1>2. Live' = Live /\ Answered' = Answered /\ Going' = Going /\ GoingHits' = GoingHits
  BY <1>1 DEF Live, Answered, Going, GoingHits
<1>3. Arguments' /\ LiveSearch' /\ CoroCounts'
  BY <1>1, <1>2 DEF SumInv, Arguments, LiveSearch, CoroCounts
<1>4. SmSearch' /\ SmCounts' /\ Totals'
  BY <1>1, <1>2 DEF SumInv, SmSearch, SmCounts, Totals
<1> QED
  BY <1>3, <1>4 DEF SumInv

LEMMA SumStep == NtInv /\ SumInv /\ [NtNext]_ntVars => SumInv'
BY NaiveSum, TestSmSum, SmLookupSum, SmDrainSum, TestCoroSum, CallCoroutineSum, SpawnSum,
   SpawnPushSum, ResumeToAwaitSum, ResumeToEndSum, SchedulerRunSum, UnchangedSum
   DEF NtNext, Sm, Coro, NtExit

(* The sum that main prints after its repetitions is right for every size  *)
(* of the vector, all lookups and any number of streams, fewer than N for  *)
(* coroutines: the naive search, the state machine and the coroutines      *)
(* count the same, and every coroutine is counted once, found or not.      *)
THEOREM SumIsRightHolds == NtSpec => []SumIsRight
<1>1. NtInit => (RingFits => SumInv)
  BY SumInitInv
<1>2. /\ (RingFits => NtInv /\ HasRoom) /\ (RingFits => SumInv) /\ [NtNext]_ntVars
      => (RingFits => SumInv)'
  <2>1. [NtNext]_ntVars => (RingFits' <=> RingFits)
    BY ArgumentsStay DEF RingFits
  <2> QED
    BY <2>1, SumStep
<1>3. (RingFits => SumInv) => SumIsRight
  BY FoundIsHits DEF SumInv, Totals, SumIsRight
<1> QED
  BY <1>1, <1>2, <1>3, NtInvariance, PTL DEF NtSpec


(***************************************************************************)
(* bin_search.cpp's binarySearch.  While it has not found the key, low and *)
(* high enclose its place, if it has one, and come closer in every round.  *)
(***************************************************************************)
Mid(s) == (s.low + s.high) \div 2

Halve(array, key, s) ==
  IF s.low > s.high \/ array[Mid(s) + 1] = key THEN s
  ELSE IF array[Mid(s) + 1] < key THEN [s EXCEPT !.low = Mid(s) + 1]
  ELSE [s EXCEPT !.high = Mid(s) - 1]

AreHalves(array, key, S, h) ==
  h = [n \in S |-> IF n = 0 THEN [low |-> 0, high |-> Len(array) - 1]
                   ELSE Halve(array, key, h[n - 1])]

LEMMA BinarySearchIsHalves ==
  ASSUME NEW array, NEW key, NEW s,
         s = (CHOOSE g : AreHalves(array, key, 0..Len(array), g))[Len(array)]
  PROVE  BinarySearch(array, key) = IF s.low <= s.high THEN Mid(s) ELSE -1
<1> DEFINE last == (CHOOSE g : AreHalves(array, key, 0..Len(array), g))[Len(array)]
<1>1. BinarySearch(array, key) = IF last.low <= last.high THEN Mid(last) ELSE -1
  BY ONLY TRUE DEF BinarySearch, AreHalves, Halve, Mid
<1>2. s = last
  OBVIOUS
<1> HIDE DEF last
<1> QED
  BY <1>1, <1>2

LEMMA HalvesExist ==
  ASSUME NEW array, NEW key
  PROVE  \A m \in Nat : \E h : AreHalves(array, key, 0..m, h)
<1> DEFINE base == [low |-> 0, high |-> Len(array) - 1]
           X == {m \in Nat : \E h : AreHalves(array, key, 0..m, h)}
<1>0. \A S, h : AreHalves(array, key, S, h)
                  <=> h = [n \in S |-> IF n = 0 THEN base ELSE Halve(array, key, h[n - 1])]
  BY DEF AreHalves
<1> HIDE DEF base
<1>1. 0 \in X
  <2> DEFINE h == [n \in 0..0 |-> base]
  <2>1. h = [n \in 0..0 |-> IF n = 0 THEN base ELSE Halve(array, key, h[n - 1])]
    OBVIOUS
  <2> QED
    BY <1>0, <2>1
<1>2. ASSUME NEW m \in Nat, m \in X PROVE m + 1 \in X
  <2>1. PICK h : AreHalves(array, key, 0..m, h)
    BY <1>2
  <2> DEFINE g == [n \in 0..(m + 1) |-> IF n <= m THEN h[n] ELSE Halve(array, key, h[n - 1])]
             body == [n \in 0..(m + 1) |-> IF n = 0 THEN base ELSE Halve(array, key, g[n - 1])]
  <2>2. \A n \in 0..m : h[n] = IF n = 0 THEN base ELSE Halve(array, key, h[n - 1])
    BY <1>0, <2>1
  <2>3. ASSUME NEW n \in 0..(m + 1) PROVE g[n] = body[n]
    <3>1. CASE n = 0
      BY <2>2, <3>1
    <3>2. CASE n # 0
      <4>1. n - 1 \in 0..m /\ g[n - 1] = h[n - 1] /\ body[n] = Halve(array, key, h[n - 1])
        BY <3>2
      <4>2. n <= m => h[n] = Halve(array, key, h[n - 1])
        BY <2>2, <3>2
      <4> QED
        BY <4>1, <4>2
    <3> QED
      BY <3>1, <3>2
  <2>4. g = body
    BY <2>3
  <2>5. AreHalves(array, key, 0..(m + 1), g)
    BY <1>0, <2>4
  <2> QED
    BY <2>5
<1> QED
  <2> HIDE DEF X
  <2>1. Nat \subseteq X
    BY <1>1, <1>2, NatSetInduction
  <2> QED
    BY <2>1 DEF X

(* s encloses the key's place in the array of len even numbers, and has at *)
(* most w elements unless its middle is the key.                           *)
Encloses(s, len, key, w) ==
  /\ s \in [low : Int, high : Int]
  /\ s.low >= 0 /\ s.high < len
  /\ \A n \in 0..(len - 1) : V(n) = key => s.low <= n /\ n <= s.high
  /\ \/ s.high - s.low + 1 <= w
     \/ s.low <= s.high /\ V(Mid(s)) = key

LEMMA MidIsBetween ==
  ASSUME NEW s \in [low : Int, high : Int], s.low <= s.high
  PROVE  Mid(s) \in Int /\ s.low <= Mid(s) /\ Mid(s) <= s.high
<1>1. s.low \in Int /\ s.high \in Int
  OBVIOUS
<1> QED
  BY <1>1 DEF Mid

LEMMA HalveNarrows ==
  ASSUME NEW len \in Nat, NEW key \in Nat, NEW w \in Nat, NEW s, Encloses(s, len, key, w + 1),
         NEW array, \A n \in 1..len : array[n] = V(n - 1)
  PROVE  Encloses(Halve(array, key, s), len, key, w)
<1>1. /\ s \in [low : Int, high : Int] /\ s.low \in Int /\ s.high \in Int
      /\ s.low >= 0 /\ s.high < len
      /\ \A n \in 0..(len - 1) : V(n) = key => s.low <= n /\ n <= s.high
      /\ \/ s.high - s.low + 1 <= w + 1
         \/ s.low <= s.high /\ V(Mid(s)) = key
      /\ s = [low |-> s.low, high |-> s.high]
  BY DEF Encloses
<1>2. CASE s.low > s.high
  <2>1. Halve(array, key, s) = s
    BY <1>2 DEF Halve
  <2>2. s.high - s.low + 1 <= w
    BY <1>1, <1>2
  <2> QED
    BY <1>1, <2>1, <2>2 DEF Encloses
<1>3. CASE s.low <= s.high
  <2>1. PICK m : m = Mid(s)
    OBVIOUS
  <2>2. m \in Int /\ s.low <= m /\ m <= s.high
    BY <1>1, <1>3, <2>1, MidIsBetween
  <2>3. array[m + 1] = 2 * m
    <3>1. m + 1 \in 1..len /\ (m + 1) - 1 = m
      BY <1>1, <2>2
    <3> QED
      BY <3>1 DEF V
  <2>4. CASE 2 * m = key
    <3>1. Halve(array, key, s) = s /\ V(Mid(s)) = key
      BY <2>1, <2>3, <2>4 DEF Halve, V
    <3> QED
      BY <1>1, <1>3, <3>1 DEF Encloses
  <2>5. CASE 2 * m # key
    <3>0. s.high - s.low + 1 <= w + 1
      BY <1>1, <2>1, <2>5 DEF V
    <3>1. CASE 2 * m < key
      <4>1. PICK t : t = [s EXCEPT !.low = m + 1]
        OBVIOUS
      <4>2. Halve(array, key, s) = t
        <5>1. ~(s.low > s.high)
          BY <1>1, <1>3
        <5> QED
          BY <2>1, <2>3, <2>5, <3>1, <4>1, <5>1 DEF Halve
      <4>3. t \in [low : Int, high : Int] /\ t.low = m + 1 /\ t.high = s.high
        BY <1>1, <2>2, <4>1
      <4>4. ASSUME NEW n \in 0..(len - 1), V(n) = key PROVE t.low <= n /\ n <= t.high
        <5>1. n \in Int /\ 2 * n = key /\ n <= s.high
          BY <1>1, <4>4 DEF V
        <5> QED
          BY <1>1, <2>2, <3>1, <4>3, <5>1
      <4>5. t.low >= 0 /\ t.high < len /\ t.high - t.low + 1 <= w
        BY <1>1, <2>2, <3>0, <4>3
      <4> QED
        BY <4>2, <4>3, <4>4, <4>5 DEF Encloses
    <3>2. CASE ~(2 * m < key)
      <4>1. PICK t : t = [s EXCEPT !.high = m - 1]
        OBVIOUS
      <4>2. Halve(array, key, s) = t
        <5>1. ~(s.low > s.high)
          BY <1>1, <1>3
        <5> QED
          BY <2>1, <2>3, <2>5, <3>2, <4>1, <5>1 DEF Halve
      <4>3. t \in [low : Int, high : Int] /\ t.high = m - 1 /\ t.low = s.low
        BY <1>1, <2>2, <4>1
      <4>4. ASSUME NEW n \in 0..(len - 1), V(n) = key PROVE t.low <= n /\ n <= t.high
        <5>1. n \in Int /\ 2 * n = key /\ s.low <= n
          BY <1>1, <4>4 DEF V
        <5> QED
          BY <1>1, <2>2, <2>5, <3>2, <4>3, <5>1
      <4>5. t.low >= 0 /\ t.high < len /\ t.high - t.low + 1 <= w
        BY <1>1, <2>2, <3>0, <4>3
      <4> QED
        BY <4>2, <4>3, <4>4, <4>5 DEF Encloses
    <3> QED
      BY <3>1, <3>2
  <2> QED
    BY <2>4, <2>5
<1> QED
  BY <1>1, <1>2, <1>3


(* In an array of the first even numbers the key is found at its place, or *)
(* nowhere.                                                                *)
LEMMA BinarySearchDoes ==
  ASSUME NEW len \in Nat, NEW key \in Nat, NEW array, array = [n \in 1..len |-> V(n - 1)]
  PROVE  IF \E n \in 1..len : array[n] = key
         THEN /\ BinarySearch(array, key) \in 0..(len - 1)
              /\ array[BinarySearch(array, key) + 1] = key
         ELSE BinarySearch(array, key) = -1
<1>1. Len(array) = len /\ \A n \in 1..len : array[n] = V(n - 1)
  <2>1. array \in Seq(Int)
    BY DEF V
  <2> QED
    BY <2>1
<1>2. PICK h : h = CHOOSE g : AreHalves(array, key, 0..len, g)
  OBVIOUS
<1>3. AreHalves(array, key, 0..len, h)
  BY <1>2, HalvesExist
<1>4. /\ h[0] = [low |-> 0, high |-> len - 1]
      /\ \A n \in 0..len : n # 0 => h[n] = Halve(array, key, h[n - 1])
  BY <1>1, <1>3 DEF AreHalves
<1> DEFINE X == {n \in Nat : n <= len => Encloses(h[n], len, key, len - n)}
<1>5. 0 \in X
  BY <1>4 DEF Encloses
<1>6. ASSUME NEW n \in Nat, n \in X PROVE n + 1 \in X
  <2> SUFFICES ASSUME n + 1 <= len PROVE Encloses(h[n + 1], len, key, len - (n + 1))
    OBVIOUS
  <2>1. PICK w \in Nat : w = len - (n + 1)
    OBVIOUS
  <2>2. len - n = w + 1 /\ n <= len /\ n + 1 \in 0..len /\ n + 1 # 0 /\ (n + 1) - 1 = n
    BY <2>1
  <2>3. Encloses(h[n], len, key, w + 1)
    BY <1>6, <2>2
  <2>4. h[n + 1] = Halve(array, key, h[n])
    BY <1>4, <2>2
  <2>5. Encloses(h[n + 1], len, key, w)
    BY <1>1, <2>3, <2>4, HalveNarrows
  <2> QED
    BY <2>1, <2>5
<1>7. Nat \subseteq X
  <2> HIDE DEF X
  <2> QED
    BY <1>5, <1>6, NatSetInduction
<1>8. PICK s : s = h[len]
  OBVIOUS
<1>9. Encloses(s, len, key, 0)
  BY <1>7, <1>8
<1>10. PICK r : r = BinarySearch(array, key)
  OBVIOUS
<1>11. r = IF s.low <= s.high THEN Mid(s) ELSE -1
  <2>1. s = (CHOOSE g : AreHalves(array, key, 0..Len(array), g))[Len(array)]
    BY <1>1, <1>2, <1>8
  <2>2. BinarySearch(array, key) = IF s.low <= s.high THEN Mid(s) ELSE -1
    BY ONLY <2>1, BinarySearchIsHalves
  <2> QED
    BY <1>10, <2>2
<1>12. /\ s \in [low : Int, high : Int] /\ s.low \in Int /\ s.high \in Int
       /\ s.low >= 0 /\ s.high < len
       /\ \A n \in 0..(len - 1) : V(n) = key => s.low <= n /\ n <= s.high
       /\ s.low <= s.high => V(Mid(s)) = key
  BY <1>9 DEF Encloses
<1>13. CASE s.low <= s.high
  <2>1. r = Mid(s) /\ r \in Int /\ s.low <= r /\ r <= s.high /\ V(r) = key
    BY <1>11, <1>12, <1>13, MidIsBetween
  <2>2. r \in 0..(len - 1) /\ r + 1 \in 1..len /\ (r + 1) - 1 = r
    BY <1>12, <2>1
  <2>3. array[r + 1] = key
    BY <1>1, <2>1, <2>2
  <2> QED
    BY <1>10, <2>2, <2>3
<1>14. CASE ~(s.low <= s.high)
  <2>1. r = -1
    BY <1>11, <1>14
  <2>2. ASSUME NEW n \in 1..len, array[n] = key PROVE FALSE
    <3>1. n - 1 \in 0..(len - 1) /\ V(n - 1) = key
      BY <1>1, <2>2
    <3>2. s.low <= n - 1 /\ n - 1 <= s.high
      BY <1>12, <3>1
    <3> QED
      BY <1>12, <1>14, <3>1, <3>2
  <2> QED
    BY <1>10, <2>1, <2>2
<1> QED
  BY <1>13, <1>14

(* binarySearch finds every key that is in the array, at its place, and no *)
(* other, for arrays of every length up to twice the vector's.             *)
THEOREM BinarySearchIsRightHolds == NtSpec => []BinarySearchIsRight
<1> DEFINE Drawn == lookups \in [1..Lookups -> Keys]
<1>0. NtInit => Drawn
  BY DEF NtInit
<1>1. Drawn /\ [NtNext]_ntVars => Drawn'
  BY ArgumentsStay
<1>2. Drawn => BinarySearchIsRight
  <2> SUFFICES ASSUME Drawn, NEW len \in 0..(2 * Size), NEW k \in 1..Lookups
               PROVE  LET array == [n \in 1..len |-> V(n - 1)]
                          at == BinarySearch(array, lookups[k])
                      IN  IF \E n \in 1..len : array[n] = lookups[k]
                          THEN at \in 0..(len - 1) /\ array[at + 1] = lookups[k]
                          ELSE at = -1
    BY DEF BinarySearchIsRight
  <2>1. len \in Nat /\ lookups[k] \in Nat
    <3>1. lookups[k] \in 0..(2 * Size) /\ Size \in Nat
      BY NanotestAssumption
    <3>2. \A n \in 0..(2 * Size) : n \in Nat
      BY <3>1
    <3> QED
      BY <3>1, <3>2
  <2>2. PICK key \in Nat : key = lookups[k]
    BY <2>1
  <2>3. PICK array : array = [n \in 1..len |-> V(n - 1)]
    OBVIOUS
  <2>4. IF \E n \in 1..len : array[n] = key
        THEN /\ BinarySearch(array, key) \in 0..(len - 1)
             /\ array[BinarySearch(array, key) + 1] = key
        ELSE BinarySearch(array, key) = -1
    BY ONLY <2>1, <2>3, BinarySearchDoes
  <2> QED
    BY <2>2, <2>3, <2>4
<1> QED
  BY <1>0, <1>1, <1>2, PTL DEF NtSpec

-----------------------------------------------------------------------------
(***************************************************************************)
(* The hash map.  Its invariant: a value is in the bucket of its hash, and *)
(* there once, as find looks at one bucket and remove takes out one place. *)
(***************************************************************************)
Buckets == 0..(BucketCount - 1)

(* What the bucket e holds. *)
SoundBucket(bucket, e) ==
  /\ bucket \in Seq(Nat)
  /\ \A n \in 1..Len(bucket) : GetEntry(bucket[n]) = e
  /\ \A m, n \in 1..Len(bucket) : bucket[m] = bucket[n] => m = n

HmInv ==
  /\ DOMAIN m_values = Buckets
  /\ m_values = [e \in Buckets |-> m_values[e]]
  /\ \A e \in Buckets : SoundBucket(m_values[e], e)

LEMMA EntryIsBucket ==
  ASSUME NEW v \in Nat
  PROVE  GetEntry(v) \in Buckets
BY HashMapAssumption DEF GetEntry, Buckets

(* find looks where the value would be. *)
LEMMA FindIsIn ==
  ASSUME HmInv, NEW v \in Nat
  PROVE  Find(v) <=> v \in Contents(m_values)
<1>1. GetEntry(v) \in Buckets /\ DOMAIN m_values = Buckets
  BY EntryIsBucket DEF HmInv
<1>2. \A e \in Buckets : DOMAIN m_values[e] = 1..Len(m_values[e])
  BY DEF HmInv, SoundBucket
<1>3. ASSUME v \in Contents(m_values) PROVE Find(v)
  <2>1. PICK e \in Buckets : v \in InBucket(m_values[e])
    BY <1>1, <1>3 DEF Contents
  <2>2. PICK n \in 1..Len(m_values[e]) : m_values[e][n] = v
    BY <1>2, <2>1 DEF InBucket
  <2>3. GetEntry(v) = e
    BY <2>2 DEF HmInv, SoundBucket
  <2> QED
    BY <2>1, <2>3 DEF Find
<1>4. ASSUME Find(v) PROVE v \in Contents(m_values)
  BY <1>1, <1>4 DEF Find, Contents
<1> QED
  BY <1>3, <1>4

(* Changing one bucket changes the contents by what it does to the bucket. *)
Changed(m, w, e) ==
  /\ DOMAIN m = Buckets /\ DOMAIN w = Buckets /\ e \in Buckets
  /\ \A d \in Buckets \ {e} : w[d] = m[d]

LEMMA ContentsWith ==
  ASSUME NEW m, NEW w, NEW e, NEW v, Changed(m, w, e),
         InBucket(w[e]) = InBucket(m[e]) \cup {v}
  PROVE  Contents(w) = Contents(m) \cup {v}
BY DEF Contents, Changed

LEMMA ContentsWithout ==
  ASSUME NEW m, NEW w, NEW e, NEW v, Changed(m, w, e),
         InBucket(w[e]) = InBucket(m[e]) \ {v},
         \A d \in Buckets \ {e} : v \notin InBucket(m[d])
  PROVE  Contents(w) = Contents(m) \ {v}
<1>1. \A x : x \in Contents(w) <=> (\/ x \in InBucket(w[e])
                                  \/ \E d \in Buckets \ {e} : x \in InBucket(m[d]))
  BY DEF Contents, Changed
<1>2. \A x : x \in Contents(m) <=> (\/ x \in InBucket(m[e])
                                  \/ \E d \in Buckets \ {e} : x \in InBucket(m[d]))
  BY DEF Contents, Changed
<1> QED
  BY <1>1, <1>2

LEMMA AppendToBucket ==
  ASSUME NEW b \in Seq(Nat), NEW v \in Nat, v \notin InBucket(b),
         \A m, n \in 1..Len(b) : b[m] = b[n] => m = n
  PROVE  LET a == Append(b, v)
         IN  /\ a \in Seq(Nat) /\ InBucket(a) = InBucket(b) \cup {v}
             /\ \A n \in 1..Len(a) : a[n] = v \/ \E m \in 1..Len(b) : a[n] = b[m]
             /\ \A m, n \in 1..Len(a) : a[m] = a[n] => m = n
<1> DEFINE a == Append(b, v)
           l == Len(b)
<1>1. /\ a \in Seq(Nat) /\ Len(a) = l + 1 /\ l \in Nat /\ a[l + 1] = v
      /\ \A n \in 1..l : a[n] = b[n]
  BY AppendProperties, LenProperties
<1>2. DOMAIN a = 1..(l + 1) /\ DOMAIN b = 1..l
  BY <1>1
<1> HIDE DEF a, l
<1>3. /\ \A n \in 1..(l + 1) : n = l + 1 \/ n \in 1..l
      /\ l + 1 \in 1..(l + 1) /\ \A n \in 1..l : n \in 1..(l + 1)
  BY <1>1
<1>4. \A n \in 1..l : b[n] # v
  BY <1>2 DEF InBucket
<1>5. InBucket(a) = InBucket(b) \cup {v}
  <2>1. ASSUME NEW x \in InBucket(a) PROVE x \in InBucket(b) \cup {v}
    <3>1. PICK n \in 1..(l + 1) : x = a[n]
      BY <1>2, <2>1 DEF InBucket
    <3>2. CASE n = l + 1
      BY <1>1, <3>1, <3>2
    <3>3. CASE n \in 1..l
      BY <1>1, <1>2, <3>1, <3>3 DEF InBucket
    <3> QED
      BY <1>3, <3>2, <3>3
  <2>2. ASSUME NEW x \in InBucket(b) PROVE x \in InBucket(a)
    <3>1. PICK n \in 1..l : x = b[n]
      BY <1>2, <2>2 DEF InBucket
    <3>2. n \in DOMAIN a /\ x = a[n]
      BY <1>1, <1>2, <1>3, <3>1
    <3> QED
      BY <3>2 DEF InBucket
  <2>3. v \in InBucket(a)
    BY <1>1, <1>2, <1>3 DEF InBucket
  <2> QED
    BY <2>1, <2>2, <2>3
<1>6. \A n \in 1..(l + 1) : a[n] = v \/ \E m \in 1..l : a[n] = b[m]
  BY <1>1, <1>3
<1>7. \A m, n \in 1..(l + 1) : a[m] = a[n] => m = n
  BY <1>1, <1>3, <1>4 DEF l
<1> QED
  BY <1>1, <1>5, <1>6, <1>7 DEF a, l

Distinct(b) == \A m, n \in 1..Len(b) : b[m] = b[n] => m = n
DrawnFrom(r, b) == \A n \in 1..Len(r) : \E m \in 1..Len(b) : r[n] = b[m]

LEMMA RemoveFromBucket ==
  ASSUME NEW b, b \in Seq(Nat), Distinct(b), NEW v, v \in InBucket(b),
         NEW r, r = Removed(b, v)
  PROVE  r \in Seq(Nat) /\ InBucket(r) = InBucket(b) \ {v} /\ DrawnFrom(r, b) /\ Distinct(r)
<1> DEFINE l == Len(b)
           it == CHOOSE n \in DOMAIN b : b[n] = v
           s == [b EXCEPT ![it] = b[l]]
           a == SubSeq(s, 1, l - 1)
<1>1. l \in Nat /\ DOMAIN b = 1..l /\ b \in [1..l -> Nat]
  BY LenProperties
<1>2. it \in 1..l /\ b[it] = v
  BY <1>1 DEF InBucket
<1> HIDE DEF it
<1>3. l \in 1..l /\ b[l] \in Nat
  BY <1>1, <1>2
<1>4. s \in [1..l -> Nat] /\ \A n \in 1..l : s[n] = IF n = it THEN b[l] ELSE b[n]
  BY <1>1, <1>3
<1>5. s \in Seq(Nat) /\ Len(s) = l
  BY <1>1, <1>4
<1> HIDE DEF s, l
<1>6. a \in Seq(Nat) /\ Len(a) = l - 1 /\ \A n \in 1..(l - 1) : a[n] = s[n]
  BY <1>1, <1>3, <1>5, SubSeqProperties
<1>7. DOMAIN a = 1..(l - 1)
  BY <1>1, <1>3, <1>6
<1> HIDE DEF a
<1>8. \A n \in 1..(l - 1) : n \in 1..l /\ n # l
  BY <1>1
<1>9. \A n \in 1..l : n = l \/ n \in 1..(l - 1)
  BY <1>1
<1>10. \A n \in 1..(l - 1) : a[n] = IF n = it THEN b[l] ELSE b[n]
  BY <1>4, <1>6, <1>8
<1>11. \A m, n \in 1..l : b[m] = b[n] => m = n
  BY DEF l, Distinct
<1>12. InBucket(a) = InBucket(b) \ {v}
  <2>1. ASSUME NEW n \in 1..(l - 1) PROVE a[n] \in InBucket(b) /\ a[n] # v
    <3>1. CASE n = it
      BY <1>1, <1>2, <1>3, <1>8, <1>10, <1>11, <3>1 DEF InBucket
    <3>2. CASE n # it
      BY <1>1, <1>2, <1>8, <1>10, <1>11, <3>2 DEF InBucket
    <3> QED
      BY <3>1, <3>2
  <2>2. ASSUME NEW n \in 1..l, b[n] # v PROVE \E m \in 1..(l - 1) : a[m] = b[n]
    <3>1. n # it
      BY <1>2, <2>2
    <3>2. CASE n = l
      <4>1. it \in 1..(l - 1)
        BY <1>2, <1>9, <3>1, <3>2
      <4> QED
        BY <1>10, <3>2, <4>1
    <3>3. CASE n # l
      BY <1>9, <1>10, <3>1, <3>3
    <3> QED
      BY <3>2, <3>3
  <2>3. InBucket(a) \subseteq InBucket(b) \ {v}
    BY <1>7, <2>1 DEF InBucket
  <2>4. ASSUME NEW x \in InBucket(b), x # v PROVE x \in InBucket(a)
    <3>1. PICK n \in 1..l : b[n] = x
      BY <1>1 DEF InBucket
    <3>2. PICK m \in 1..(l - 1) : a[m] = b[n]
      BY <2>2, <2>4, <3>1
    <3> QED
      BY <1>7, <3>1, <3>2 DEF InBucket
  <2> QED
    BY <2>3, <2>4
<1>13. \A n \in 1..(l - 1) : \E m \in 1..l : a[n] = b[m]
  BY <1>3, <1>8, <1>10
<1>14. \A m, n \in 1..(l - 1) : a[m] = a[n] => m = n
  BY <1>3, <1>8, <1>10, <1>11
<1>15. a = r
  BY DEF Removed, a, s, it, l
<1> QED
  BY <1>6, <1>12, <1>13, <1>14, <1>15 DEF l, Distinct, DrawnFrom


(* A call that replaces one bucket by a sound one keeps the map sound. *)
LEMMA ReplaceBucket ==
  ASSUME HmInv, NEW e \in Buckets, NEW a, SoundBucket(a, e),
         m_values' = [m_values EXCEPT ![e] = a]
  PROVE  HmInv'
<1>1. /\ DOMAIN m_values' = Buckets /\ m_values' = [d \in Buckets |-> m_values'[d]]
      /\ m_values'[e] = a /\ \A d \in Buckets \ {e} : m_values'[d] = m_values[d]
  BY DEF HmInv
<1>2. ASSUME NEW d \in Buckets PROVE SoundBucket(m_values'[d], d)
  <2>1. CASE d = e
    BY <1>1, <2>1
  <2>2. CASE d # e
    BY <1>1, <2>2 DEF HmInv
  <2> QED
    BY <2>1, <2>2
<1> QED
  BY <1>1, <1>2 DEF HmInv, SoundBucket, Buckets, GetEntry

LEMMA HmInsertDoes ==
  ASSUME HmInv, NEW v \in Nat, HmInsert(v)
  PROVE  HmInv' /\ Contents(m_values') = Contents(m_values) \cup {v}
<1>1. CASE Find(v)
  <2>1. m_values' = m_values
    BY <1>1 DEF HmInsert
  <2>2. HmInv'
    BY <2>1 DEF HmInv, SoundBucket, Buckets, GetEntry
  <2>3. v \in Contents(m_values)
    BY <1>1, FindIsIn
  <2> QED
    BY <2>1, <2>2, <2>3
<1>2. CASE ~Find(v)
  <2>1. PICK e \in Buckets : e = GetEntry(v)
    BY EntryIsBucket
  <2>2. PICK b : b = m_values[e]
    OBVIOUS
  <2>3. PICK a : a = Append(b, v)
    OBVIOUS
  <2>4. m_values' = [m_values EXCEPT ![e] = a]
    BY <1>2, <2>1, <2>2, <2>3 DEF HmInsert
  <2>5. /\ b \in Seq(Nat) /\ v \notin InBucket(b)
        /\ \A n \in 1..Len(b) : GetEntry(b[n]) = e
        /\ \A m, n \in 1..Len(b) : b[m] = b[n] => m = n
    BY <1>2, <2>1, <2>2 DEF HmInv, SoundBucket, Find
  <2>6. /\ a \in Seq(Nat) /\ InBucket(a) = InBucket(b) \cup {v}
        /\ \A n \in 1..Len(a) : a[n] = v \/ \E m \in 1..Len(b) : a[n] = b[m]
        /\ \A m, n \in 1..Len(a) : a[m] = a[n] => m = n
    BY <2>3, <2>5, AppendToBucket
  <2>7. SoundBucket(a, e)
    BY <2>1, <2>5, <2>6 DEF SoundBucket
  <2>8. HmInv'
    BY <2>4, <2>7, ReplaceBucket
  <2>9. DOMAIN m_values = Buckets
    BY DEF HmInv
  <2>10. Contents(m_values') = Contents(m_values) \cup {v}
    <3>1. PICK m, w : m = m_values /\ w = m_values'
      OBVIOUS
    <3>2. Changed(m, w, e) /\ InBucket(w[e]) = InBucket(m[e]) \cup {v}
      BY <2>2, <2>4, <2>6, <2>9, <3>1 DEF Changed
    <3>4. Contents(w) = Contents(m) \cup {v}
      BY ONLY <3>2, ContentsWith
    <3> QED
      BY <3>1, <3>4
  <2> QED
    BY <2>8, <2>10
<1> QED
  BY <1>1, <1>2

LEMMA HmRemoveDoes ==
  ASSUME HmInv, NEW v \in Nat, HmRemove(v)
  PROVE  HmInv' /\ Contents(m_values') = Contents(m_values) \ {v}
<1>1. CASE ~Find(v)
  <2>1. m_values' = m_values
    BY <1>1 DEF HmRemove
  <2>2. HmInv'
    BY <2>1 DEF HmInv, SoundBucket, Buckets, GetEntry
  <2>3. v \notin Contents(m_values)
    BY <1>1, FindIsIn
  <2> QED
    BY <2>1, <2>2, <2>3
<1>2. CASE Find(v)
  <2>1. PICK e \in Buckets : e = GetEntry(v)
    BY EntryIsBucket
  <2>2. PICK b : b = m_values[e]
    OBVIOUS
  <2>3. PICK a : a = Removed(b, v)
    OBVIOUS
  <2>4. m_values' = [m_values EXCEPT ![e] = a]
    BY <1>2, <2>1, <2>2, <2>3 DEF HmRemove
  <2>5. /\ b \in Seq(Nat) /\ v \in InBucket(b) /\ Distinct(b)
        /\ \A n \in 1..Len(b) : GetEntry(b[n]) = e
    BY <1>2, <2>1, <2>2 DEF HmInv, SoundBucket, Distinct, Find
  <2>6. a \in Seq(Nat) /\ InBucket(a) = InBucket(b) \ {v} /\ DrawnFrom(a, b) /\ Distinct(a)
    BY ONLY <2>3, <2>5, RemoveFromBucket
  <2>7. SoundBucket(a, e)
    BY <2>5, <2>6 DEF SoundBucket, DrawnFrom, Distinct
  <2>8. HmInv'
    BY <2>4, <2>7, ReplaceBucket
  <2>9. DOMAIN m_values = Buckets
    BY DEF HmInv
  <2>10. ASSUME NEW d \in Buckets \ {e} PROVE v \notin InBucket(m_values[d])
    <3>1. /\ m_values[d] \in Seq(Nat)
          /\ \A n \in 1..Len(m_values[d]) : GetEntry(m_values[d][n]) = d
      BY DEF HmInv, SoundBucket
    <3> QED
      BY <2>1, <3>1 DEF InBucket
  <2>11. Contents(m_values') = Contents(m_values) \ {v}
    <3>1. PICK m, w : m = m_values /\ w = m_values'
      OBVIOUS
    <3>2. Changed(m, w, e) /\ InBucket(w[e]) = InBucket(m[e]) \ {v}
      BY <2>2, <2>4, <2>6, <2>9, <3>1 DEF Changed
    <3>3. \A d \in Buckets \ {e} : v \notin InBucket(m[d])
      BY <2>10, <3>1
    <3>4. Contents(w) = Contents(m) \ {v}
      BY ONLY <3>2, <3>3, ContentsWithout
    <3> QED
      BY <3>1, <3>4
  <2> QED
    BY <2>8, <2>11
<1> QED
  BY <1>1, <1>2


(***************************************************************************)
(* The ring of hashes of find_multiple_interleave.  When the search is at  *)
(* i, the ring holds the hashes of the next look_ahead values, each at its *)
(* index modulo look_ahead.                                                *)
(***************************************************************************)
RingStep(q, n, r) ==
  LET j == (n - 1) + LookAhead
  IN  IF j >= Len(q) THEN r ELSE [r EXCEPT ![j % LookAhead] = GetEntry(q[j + 1])]

IsRing(q, S, h) ==
  h = [n \in S |-> IF n = 0 THEN [k \in 0..(LookAhead - 1) |-> GetEntry(q[k + 1])]
                   ELSE RingStep(q, n, h[n - 1])]

LEMMA HashesIsRing ==
  ASSUME NEW q
  PROVE  Hashes(q) = CHOOSE h : IsRing(q, 0..(Len(q) - 1), h)
BY DEF Hashes, IsRing, RingStep

(* A ring for the first m + 1 positions gives one for the next. *)
LEMMA RingExists ==
  ASSUME NEW q
  PROVE  \A m \in Nat : \E h : IsRing(q, 0..m, h)
<1> DEFINE base == [k \in 0..(LookAhead - 1) |-> GetEntry(q[k + 1])]
           X == {m \in Nat : \E h : IsRing(q, 0..m, h)}
<1>1. 0 \in X
  <2> DEFINE h == [n \in 0..0 |-> base]
  <2> HIDE DEF base
  <2>1. h = [n \in 0..0 |-> IF n = 0 THEN base ELSE RingStep(q, n, h[n - 1])]
    OBVIOUS
  <2> QED
    BY <2>1 DEF IsRing, base
<1>2. ASSUME NEW m \in Nat, m \in X PROVE m + 1 \in X
  <2>1. PICK h : IsRing(q, 0..m, h)
    BY <1>2
  <2> DEFINE g == [n \in 0..(m + 1) |-> IF n <= m THEN h[n] ELSE RingStep(q, n, h[n - 1])]
             body == [n \in 0..(m + 1) |-> IF n = 0 THEN base ELSE RingStep(q, n, g[n - 1])]
  <2> HIDE DEF base
  <2>2. \A n \in 0..m : h[n] = IF n = 0 THEN base ELSE RingStep(q, n, h[n - 1])
    BY <2>1 DEF IsRing, base
  <2>3. ASSUME NEW n \in 0..(m + 1) PROVE g[n] = body[n]
    <3>1. CASE n = 0
      BY <2>2, <3>1
    <3>2. CASE n # 0
      <4>1. n - 1 \in 0..m /\ g[n - 1] = h[n - 1] /\ body[n] = RingStep(q, n, h[n - 1])
        BY <3>2
      <4>2. n <= m => h[n] = RingStep(q, n, h[n - 1])
        BY <2>2, <3>2
      <4> QED
        BY <4>1, <4>2
    <3> QED
      BY <3>1, <3>2
  <2>4. g = body
    BY <2>3
  <2>5. IsRing(q, 0..(m + 1), g)
    BY <2>4 DEF IsRing, base
  <2> QED
    BY <2>5
<1> QED
  <2> HIDE DEF X
  <2>1. Nat \subseteq X
    BY <1>1, <1>2, NatSetInduction
  <2> QED
    BY <2>1 DEF X

(* Two values less than look_ahead apart do not share a place. *)
LEMMA PlacesDiffer ==
  ASSUME NEW a \in Nat, NEW b \in Nat, NEW m \in Nat \ {0}, a < b, b < a + m
  PROVE  a % m # b % m
<1> SUFFICES ASSUME a % m = b % m PROVE FALSE
  OBVIOUS
<1> DEFINE c == a \div m
           d == b \div m
           r == a % m
<1>1. m \in Nat /\ m > 0
  OBVIOUS
<1>2. c \in Int /\ r \in 0..(m - 1) /\ a = m * c + r
  BY <1>1
<1>3. d \in Int /\ b = m * d + r
  BY <1>1
<1> HIDE DEF c, d, r
<1>4. b - a = m * d - m * c
  BY <1>1, <1>2, <1>3
<1>5. m * d - m * c = m * (d - c)
  BY <1>1, <1>2, <1>3
<1>6. CASE d - c <= 0
  <2>1. m * (d - c) <= 0
    BY <1>1, <1>2, <1>3, <1>6
  <2> QED
    BY <1>4, <1>5, <2>1
<1>7. CASE d - c >= 1
  <2>1. m * (d - c) >= m
    BY <1>1, <1>2, <1>3, <1>7
  <2> QED
    BY <1>1, <1>4, <1>5, <2>1
<1> QED
  BY <1>2, <1>3, <1>6, <1>7

InWindow(q, r, p) ==
  /\ DOMAIN r = 0..(LookAhead - 1)
  /\ \A j \in p..(p + LookAhead - 1) : j < Len(q) => r[j % LookAhead] = GetEntry(q[j + 1])

LEMMA WindowMoves ==
  ASSUME NEW q, q \in Seq(Nat), NEW r, NEW p, p \in Nat, InWindow(q, r, p)
  PROVE  InWindow(q, RingStep(q, p + 1, r), p + 1)
<1> DEFINE j0 == p + LookAhead
           s == RingStep(q, p + 1, r)
<1>0. LookAhead \in Nat \ {0} /\ Len(q) \in Nat /\ j0 \in Nat
  BY HashMapAssumption
<1>1. s = IF j0 >= Len(q) THEN r ELSE [r EXCEPT ![j0 % LookAhead] = GetEntry(q[j0 + 1])]
  BY <1>0 DEF RingStep
<1>2. j0 % LookAhead \in 0..(LookAhead - 1)
  BY <1>0
<1>3. DOMAIN s = 0..(LookAhead - 1)
  BY <1>1 DEF InWindow
<1>4. ASSUME NEW j \in (p + 1)..(p + 1 + LookAhead - 1), j < Len(q)
      PROVE  s[j % LookAhead] = GetEntry(q[j + 1])
  <2>1. CASE j = j0
    <3>1. s = [r EXCEPT ![j % LookAhead] = GetEntry(q[j + 1])] /\ j % LookAhead \in DOMAIN r
      BY <1>0, <1>1, <1>2, <1>4, <2>1 DEF InWindow
    <3> HIDE DEF s
    <3> QED
      BY <3>1
  <2>2. CASE j # j0
    <3>1. j \in Nat /\ j \in p..(p + LookAhead - 1) /\ j < j0 /\ j0 < j + LookAhead
      BY <1>0, <2>2
    <3>2. j % LookAhead # j0 % LookAhead
      BY ONLY <1>0, <3>1, PlacesDiffer
    <3>3. r[j % LookAhead] = GetEntry(q[j + 1])
      BY <1>4, <3>1 DEF InWindow
    <3> HIDE DEF j0, s
    <3> QED
      BY <1>1, <3>2, <3>3 DEF InWindow
  <2> QED
    BY <2>1, <2>2
<1> QED
  BY <1>3, <1>4 DEF InWindow


(* The search finds the hash of its own value in the ring. *)
LEMMA HashIsInRing ==
  ASSUME NEW q, q \in Seq(Nat), Len(q) >= LookAhead
  PROVE  \A p \in 0..(Len(q) - 1) : Hashes(q)[p][p % LookAhead] = GetEntry(q[p + 1])
<1>0. LookAhead \in Nat \ {0} /\ Len(q) \in Nat /\ Len(q) - 1 \in Nat
  BY HashMapAssumption
<1> DEFINE h == Hashes(q)
           base == [k \in 0..(LookAhead - 1) |-> GetEntry(q[k + 1])]
           X == {p \in Nat : p <= Len(q) - 1 => InWindow(q, h[p], p)}
<1>1. IsRing(q, 0..(Len(q) - 1), h)
  <2>1. \E g : IsRing(q, 0..(Len(q) - 1), g)
    BY <1>0, RingExists
  <2> QED
    BY <2>1, HashesIsRing
<1> HIDE DEF h
<1>2. /\ \A p \in 0..(Len(q) - 1) : p = 0 => h[p] = base
      /\ \A p \in 0..(Len(q) - 1) : p # 0 => h[p] = RingStep(q, p, h[p - 1])
  BY <1>1 DEF IsRing
<1>3. 0 \in X
  <2>1. h[0] = base
    BY <1>0, <1>2
  <2>2. ASSUME NEW j \in 0..(0 + LookAhead - 1) PROVE j % LookAhead = j /\ j \in 0..(LookAhead - 1)
    BY <1>0
  <2>3. InWindow(q, base, 0)
    BY <2>2 DEF InWindow
  <2> QED
    BY <2>1, <2>3
<1>4. ASSUME NEW p \in Nat, p \in X PROVE p + 1 \in X
  <2> SUFFICES ASSUME p + 1 <= Len(q) - 1 PROVE InWindow(q, h[p + 1], p + 1)
    OBVIOUS
  <2>1. InWindow(q, h[p], p)
    BY <1>0, <1>4
  <2>2. p + 1 \in 0..(Len(q) - 1) /\ p + 1 # 0 /\ (p + 1) - 1 = p
    BY <1>0
  <2>3. h[p + 1] = RingStep(q, p + 1, h[p])
    BY <1>2, <2>2
  <2> QED
    BY <2>1, <2>3, WindowMoves
<1>5. Nat \subseteq X
  <2> HIDE DEF X
  <2> QED
    BY <1>3, <1>4, NatSetInduction
<1>6. ASSUME NEW p \in 0..(Len(q) - 1) PROVE h[p][p % LookAhead] = GetEntry(q[p + 1])
  <2>1. InWindow(q, h[p], p)
    BY <1>0, <1>5
  <2>2. p \in p..(p + LookAhead - 1) /\ p < Len(q)
    BY <1>0
  <2> QED
    BY <2>1, <2>2 DEF InWindow
<1> QED
  BY <1>6 DEF h

(* Each of the three looks up every value in the bucket of its hash. *)
LEMMA FindAllDoes ==
  ASSUME HmInv, NEW q \in Queries,
         FindMultipleSimple(q) \/ FindMultipleInterleave(q) \/ FindMultipleBatch(q)
  PROVE  m_values' = m_values /\ returned' = [n \in DOMAIN q |-> Find(q[n])]
<1>0. q \in Seq(Nat) /\ LookAhead \in Nat \ {0} /\ Len(q) \in Nat /\ DOMAIN q = 1..Len(q)
  BY HashMapAssumption
<1>1. CASE FindMultipleSimple(q)
  BY <1>1 DEF FindMultipleSimple
<1>2. CASE FindMultipleInterleave(q)
  <2> DEFINE bits(n) ==
               LET i1 == n - 1
               IN  IF i1 < Len(q) - LookAhead
                   THEN q[n] \in InBucket(m_values[Hashes(q)[i1][i1 % LookAhead]])
                   ELSE Find(q[n])
  <2>1. Len(q) >= LookAhead /\ m_values' = m_values /\ returned' = [n \in DOMAIN q |-> bits(n)]
    BY <1>2 DEF FindMultipleInterleave
  <2>2. ASSUME NEW n \in DOMAIN q PROVE bits(n) = Find(q[n])
    <3>1. n - 1 \in 0..(Len(q) - 1) /\ (n - 1) + 1 = n
      BY <1>0
    <3>2. Hashes(q)[n - 1][(n - 1) % LookAhead] = GetEntry(q[n])
      BY <1>0, <2>1, <3>1, HashIsInRing
    <3> QED
      BY <3>2 DEF Find
  <2> HIDE DEF bits
  <2> QED
    BY <2>1, <2>2
<1>3. CASE FindMultipleBatch(q)
  <2> DEFINE HashesOf(i1) == [k \in 0..(LookAhead - 1) |-> GetEntry(q[i1 + k + 1])]
             bits(n) ==
               LET j == n - 1
                   i1 == j - (j % LookAhead)
               IN  IF j < (Len(q) \div LookAhead) * LookAhead
                   THEN q[n] \in InBucket(m_values[HashesOf(i1)[j - i1]])
                   ELSE Find(q[n])
  <2>1. m_values' = m_values /\ returned' = [n \in DOMAIN q |-> bits(n)]
    BY <1>3 DEF FindMultipleBatch
  <2>2. ASSUME NEW n \in DOMAIN q PROVE bits(n) = Find(q[n])
    <3> DEFINE k == (n - 1) % LookAhead
               i1 == (n - 1) - k
    <3>1. n \in Int /\ n - 1 \in Nat /\ k \in Int /\ k \in 0..(LookAhead - 1)
      BY <1>0
    <3>2. (n - 1) - i1 = k /\ i1 + k + 1 = n
      <4> HIDE DEF k
      <4> QED
        BY <3>1
    <3>3. HashesOf(i1)[(n - 1) - i1] = GetEntry(q[n])
      <4> HIDE DEF k, i1
      <4> QED
        BY <3>1, <3>2
    <3> QED
      BY <3>3 DEF Find
  <2> HIDE DEF bits
  <2> QED
    BY <2>1, <2>2
<1> QED
  BY <1>1, <1>2, <1>3

LEMMA HmInitInv == HmInit => HmInv /\ Contents(m_values) = {}
<1> SUFFICES ASSUME HmInit PROVE HmInv /\ Contents(m_values) = {}
  OBVIOUS
<1>1. m_values = [e \in Buckets |-> <<>>]
  BY DEF HmInit, Buckets
<1>2. SoundBucket(<<>>, 0) /\ \A e : SoundBucket(<<>>, e)
  BY DEF SoundBucket
<1>3. InBucket(<<>>) = {}
  BY DEF InBucket
<1> QED
  BY <1>1, <1>2, <1>3 DEF HmInv, Contents


(* Every step keeps the buckets sound and is a step of the set. *)
LEMMA HmStep ==
  HmInv /\ [HmNext]_hmVars =>
    HmInv' /\ [Abstract!Next]_<<Contents(m_values), returned>>
<1> SUFFICES ASSUME HmInv, [HmNext]_hmVars
             PROVE  HmInv' /\ [Abstract!Next]_<<Contents(m_values), returned>>
  OBVIOUS
<1>1. CASE UNCHANGED hmVars
  BY <1>1 DEF hmVars, HmInv, SoundBucket, Buckets, GetEntry
<1>2. ASSUME NEW v \in Values, HmInsert(v)
      PROVE  HmInv' /\ Abstract!Insert(v)
  <2>0. v \in Nat
    BY HashMapAssumption
  <2>1. HmInv' /\ Contents(m_values') = Contents(m_values) \cup {v}
    BY <1>2, <2>0, HmInsertDoes
  <2>2. (~Find(v)) = (v \notin Contents(m_values))
    BY <2>0, FindIsIn
  <2>3. returned' = <<v \notin Contents(m_values)>>
    BY <1>2, <2>2 DEF HmInsert
  <2> QED
    BY <2>1, <2>3 DEF Abstract!Insert
<1>3. ASSUME NEW v \in Values, HmRemove(v)
      PROVE  HmInv' /\ Abstract!Remove(v)
  <2>0. v \in Nat
    BY HashMapAssumption
  <2>1. HmInv' /\ Contents(m_values') = Contents(m_values) \ {v}
    BY <1>3, <2>0, HmRemoveDoes
  <2>2. Find(v) = (v \in Contents(m_values))
    BY <2>0, FindIsIn DEF Find
  <2>3. returned' = <<v \in Contents(m_values)>>
    BY <1>3, <2>2 DEF HmRemove
  <2> QED
    BY <2>1, <2>3 DEF Abstract!Remove
<1>4. ASSUME NEW q \in Queries,
             FindMultipleSimple(q) \/ FindMultipleInterleave(q) \/ FindMultipleBatch(q)
      PROVE  HmInv' /\ Abstract!FindAll(q)
  <2>1. m_values' = m_values /\ returned' = [n \in DOMAIN q |-> Find(q[n])]
    BY <1>4, FindAllDoes
  <2>2. q \in Seq(Nat) /\ \A n \in DOMAIN q : q[n] \in Nat
    BY HashMapAssumption
  <2>3. \A n \in DOMAIN q : Find(q[n]) = (q[n] \in Contents(m_values))
    BY <2>2, FindIsIn DEF Find
  <2>4. [n \in DOMAIN q |-> Find(q[n])] = [n \in DOMAIN q |-> q[n] \in Contents(m_values)]
    BY <2>3
  <2>5. HmInv'
    BY <2>1 DEF HmInv, SoundBucket, Buckets, GetEntry
  <2> QED
    BY <2>1, <2>4, <2>5 DEF Abstract!FindAll
<1> QED
  BY <1>1, <1>2, <1>3, <1>4 DEF HmNext, Abstract!Next

(* The hash map, whatever its size and look_ahead, implements the set: no  *)
(* value is in two places, and the three lookups of many values answer as  *)
(* the set does, the ring of hashes and the batches included.              *)
THEOREM IsASetHolds == HmSpec => IsASet
<1>1. HmInit => HmInv /\ Abstract!Init
  BY HmInitInv DEF HmInit, Abstract!Init
<1>2. HmInv /\ [HmNext]_hmVars => HmInv' /\ [Abstract!Next]_<<Contents(m_values), returned>>
  BY HmStep
<1> QED
  BY <1>1, <1>2, PTL DEF HmSpec, IsASet, Abstract!Spec

-----------------------------------------------------------------------------
(***************************************************************************)
(* The pipeline profile for any number of cores, any log, batch, ring and  *)
(* termination count.  The inductive invariant PpInv is a balance per      *)
(* ring: the work of the core before it is the work of the core after it,  *)
(* the batches in the ring and what the two cores hold in their hands.     *)
(***************************************************************************)
(* What core c has dispatched and not yet pushed; has not yet popped. *)
Unpushed(c) == IF pc[c] = "push" THEN BatchSz ELSE 0
Unpopped(c) == IF pc[c] = "loop" THEN 0 ELSE BatchSz

(* A core works on a batch that is still in its input ring; FirstCore has  *)
(* no input ring and LastCore no output ring.                              *)
HoldsInput ==
  /\ pc[0] # "pop" /\ pc[Last] # "push"
  /\ \A k \in Rings : pc[k + 1] # "loop" => ring[k] > 0

Balance ==
  \A k \in Rings :
    processed_cnt[k]
      = processed_cnt[k + 1] - Unpopped(k + 1) + BatchSz * ring[k] + Unpushed(k)

(* No core starts a batch beyond TERMINATION_COUNT. *)
StopsInTime == \A c \in Cores : processed_cnt[c] < TerminationCount + BatchSz

ReportBalance ==
  /\ tx_cnt <= PrintEvery
  /\ processed_cnt[Last] - Unpopped(Last)
       = BatchSz * (tx_cnt + (PrintEvery + 1) * reports)

PpInv == PpTypeOK /\ CursorInLog /\ HoldsInput /\ Balance /\ StopsInTime /\ ReportBalance

-----------------------------------------------------------------------------
(* The neighbours of a ring are cores, and only they. *)
LEMMA Neighbours ==
  /\ \A k \in Rings : /\ k \in Int /\ k \in Cores /\ k + 1 \in Cores
                      /\ k < Last /\ k + 1 > 0 /\ k + 1 # k
  /\ \A c \in Cores : c > 0 => c - 1 \in Rings /\ c = (c - 1) + 1
  /\ \A c \in Cores : c < Last => c \in Rings
  /\ Last \in Cores /\ 0 \in Cores /\ Last > 0 /\ Last \in Nat
  BY ProfileAssumption DEF Rings, Cores, Last

(* One element more or less in a ring is one batch more or less. *)
LEMMA OneMore ==
  ASSUME NEW r \in Int
  PROVE  /\ BatchSz * (r + 1) = BatchSz * r + BatchSz
         /\ BatchSz * (r - 1) = BatchSz * r - BatchSz
         /\ BatchSz * r \in Int
  BY ProfileAssumption

(* A number of batches between bounds. *)
LEMMA BatchesBounded ==
  ASSUME NEW r \in Nat
  PROVE  /\ BatchSz * r >= 0
         /\ BatchSz * r < BatchSz => r = 0
         /\ r > 0 => BatchSz * r >= BatchSz
         /\ r <= BufSz => BatchSz * r <= BatchSz * BufSz
  <1>1. BatchSz \in Nat /\ BatchSz > 0 /\ BufSz \in Nat
    BY ProfileAssumption
  <1>2. BatchSz * r >= 0
    BY <1>1
  <1>3. r > 0 => BatchSz * r >= BatchSz
    BY <1>1
  <1>4. r <= BufSz => BatchSz * r <= BatchSz * BufSz
    <2>1. SUFFICES ASSUME r <= BufSz PROVE BatchSz * r <= BatchSz * BufSz
      OBVIOUS
    <2>2. BatchSz * (BufSz - r) >= 0
      BY <1>1, <2>1
    <2>3. BatchSz * (BufSz - r) = BatchSz * BufSz - BatchSz * r
      BY <1>1
    <2> QED
      BY <1>1, <2>2, <2>3
  <1> QED
    BY <1>1, <1>2, <1>3, <1>4

LEMMA PpInitInv == PpInit => PpInv
  <1> SUFFICES ASSUME PpInit PROVE PpInv
    OBVIOUS
  <1> USE ProfileAssumption, Neighbours DEF PpInit
  <1>1. PpTypeOK
    BY DEF PpTypeOK, Last, Cores, Rings
  <1>2. CursorInLog /\ HoldsInput /\ StopsInTime
    BY DEF CursorInLog, HoldsInput, StopsInTime
  <1>3. Balance
    BY DEF Balance, Unpushed, Unpopped
  <1>4. ReportBalance
    BY DEF ReportBalance, Unpopped
  <1> QED
    BY <1>1, <1>2, <1>3, <1>4 DEF PpInv

(* dispatch_batch leaves the cursor inside the log. *)
LEMMA RewindInLog ==
  ASSUME NEW n \in Nat, n <= ReadCnt
  PROVE  Rewind(n) + BatchSz \in Nat /\ Rewind(n) + BatchSz <= ReadCnt
  BY ProfileAssumption DEF Rewind

LEMMA DispatchBatchInv ==
  ASSUME PpInv, NEW c \in Cores, DispatchBatch(c) PROVE PpInv'
  <1> USE DEF PpInv
  <1>0. /\ PpTypeOK /\ pc[c] = "loop" /\ processed_cnt[c] < TerminationCount
        /\ pc' = [pc EXCEPT ![c] = IF c < Last THEN "push" ELSE "pop"]
        /\ cnt' = [cnt EXCEPT ![c] = Rewind(cnt[c]) + BatchSz]
        /\ processed_cnt' = [processed_cnt EXCEPT ![c] = processed_cnt[c] + BatchSz]
        /\ c > 0 => ring[c - 1] > 0
        /\ ring' = ring /\ tx_cnt' = tx_cnt /\ reports' = reports /\ joined' = joined
        /\ BatchSz \in Nat /\ BatchSz > 0 /\ TerminationCount \in Nat
    BY ProfileAssumption DEF DispatchBatch, Terminate, PpTypeOK
  <1>1. Rewind(cnt[c]) + BatchSz \in Nat /\ Rewind(cnt[c]) + BatchSz <= ReadCnt
    BY RewindInLog DEF PpTypeOK, CursorInLog
  <1>2. PpTypeOK'
    BY <1>0, <1>1 DEF PpTypeOK
  <1>3. CursorInLog'
    BY <1>0, <1>1 DEF PpTypeOK, CursorInLog
  <1>4. HoldsInput'
    <2>1. pc'[0] # "pop" /\ pc'[Last] # "push"
      BY <1>0, Neighbours DEF PpTypeOK, HoldsInput
    <2>2. ASSUME NEW k \in Rings, pc'[k + 1] # "loop" PROVE ring'[k] > 0
      <3>1. k \in Int /\ k + 1 \in Cores /\ (k + 1) - 1 = k /\ k + 1 > 0
        BY Neighbours
      <3>2. CASE c = k + 1
        BY <1>0, <3>1, <3>2
      <3>3. CASE c # k + 1
        BY <1>0, <2>2, <3>1, <3>3 DEF PpTypeOK, HoldsInput
      <3> QED
        BY <3>2, <3>3
    <2> QED
      BY <2>1, <2>2 DEF HoldsInput
  <1>5. Balance'
    <2> SUFFICES ASSUME NEW k \in Rings
                 PROVE  processed_cnt'[k] = processed_cnt'[k + 1] - Unpopped(k + 1)'
                                            + BatchSz * ring'[k] + Unpushed(k)'
      BY DEF Balance
    <2>1. processed_cnt[k] = processed_cnt[k + 1] - Unpopped(k + 1)
                             + BatchSz * ring[k] + Unpushed(k)
      BY DEF Balance
    <2>2. BatchSz * ring[k] \in Int /\ ring'[k] = ring[k]
      BY <1>0, OneMore DEF PpTypeOK
    <2>3. CASE c = k
      <3>1. k < Last /\ k + 1 # k /\ k + 1 \in Cores
        BY Neighbours
      <3>2. /\ processed_cnt'[k] = processed_cnt[k] + BatchSz
            /\ processed_cnt'[k + 1] = processed_cnt[k + 1]
            /\ processed_cnt[k] \in Int /\ processed_cnt[k + 1] \in Int
        BY <1>0, <2>3, <3>1 DEF PpTypeOK
      <3>3. Unpushed(k) = 0 /\ Unpushed(k)' = BatchSz
        BY <1>0, <2>3, <3>1 DEF PpTypeOK, Unpushed
      <3>4. Unpopped(k + 1)' = Unpopped(k + 1) /\ Unpopped(k + 1) \in Int
        BY <1>0, <2>3, <3>1 DEF PpTypeOK, Unpopped
      <3> QED
        BY <1>0, <2>1, <2>2, <3>2, <3>3, <3>4
    <2>4. CASE c = k + 1
      BY <1>0, <2>1, <2>2, <2>4, Neighbours DEF PpTypeOK, Unpopped, Unpushed
    <2>5. CASE c # k /\ c # k + 1
      BY <1>0, <2>1, <2>2, <2>5, Neighbours DEF PpTypeOK, Unpopped, Unpushed
    <2> QED
      BY <2>3, <2>4, <2>5
  <1>6. StopsInTime'
    BY <1>0 DEF PpTypeOK, StopsInTime
  <1>7. ReportBalance'
    <2>1. CASE c = Last
      BY <1>0, <2>1, Neighbours DEF PpTypeOK, ReportBalance, Unpopped
    <2>2. CASE c # Last
      BY <1>0, <2>2, Neighbours DEF PpTypeOK, ReportBalance, Unpopped
    <2> QED
      BY <2>1, <2>2
  <1> QED
    BY <1>2, <1>3, <1>4, <1>5, <1>6, <1>7

LEMMA PushInv == ASSUME PpInv, NEW c \in Cores, Push(c) PROVE PpInv'
  <1> USE DEF PpInv
  <1>0. /\ PpTypeOK /\ pc[c] = "push" /\ ring[c] < BufSz
        /\ c # Last /\ c \in Rings /\ c + 1 \in Cores /\ c + 1 # c
        /\ pc' = [pc EXCEPT ![c] = IF c > 0 THEN "pop" ELSE "loop"]
        /\ ring' = [ring EXCEPT ![c] = ring[c] + 1]
        /\ cnt' = cnt /\ processed_cnt' = processed_cnt
        /\ tx_cnt' = tx_cnt /\ reports' = reports /\ joined' = joined
        /\ BatchSz \in Nat /\ BatchSz > 0 /\ BufSz \in Nat
    <2>1. c # Last
      BY DEF HoldsInput, Push
    <2>2. c \in Rings /\ c + 1 \in Cores /\ c + 1 # c
      BY <2>1, ProfileAssumption DEF Cores, Rings, Last
    <2> QED
      BY <2>1, <2>2, ProfileAssumption DEF Push, PpTypeOK
  <1>1. PpTypeOK'
    BY <1>0 DEF PpTypeOK
  <1>2. CursorInLog'
    BY <1>0 DEF CursorInLog
  <1>3. HoldsInput'
    BY <1>0, Neighbours DEF PpTypeOK, HoldsInput
  <1>4. Balance'
    <2> SUFFICES ASSUME NEW k \in Rings
                 PROVE  processed_cnt'[k] = processed_cnt'[k + 1] - Unpopped(k + 1)'
                                            + BatchSz * ring'[k] + Unpushed(k)'
      BY DEF Balance
    <2>1. processed_cnt[k] = processed_cnt[k + 1] - Unpopped(k + 1)
                             + BatchSz * ring[k] + Unpushed(k)
      BY DEF Balance
    <2>2. /\ BatchSz * ring[k] \in Int
          /\ BatchSz * (ring[k] + 1) = BatchSz * ring[k] + BatchSz
      BY <1>0, OneMore DEF PpTypeOK
    <2>3. CASE c = k
      BY <1>0, <2>1, <2>2, <2>3, Neighbours DEF PpTypeOK, Unpopped, Unpushed
    <2>4. CASE c = k + 1
      BY <1>0, <2>1, <2>2, <2>4, Neighbours DEF PpTypeOK, Unpopped, Unpushed
    <2>5. CASE c # k /\ c # k + 1
      BY <1>0, <2>1, <2>2, <2>5, Neighbours DEF PpTypeOK, Unpopped, Unpushed
    <2> QED
      BY <2>3, <2>4, <2>5
  <1>5. StopsInTime'
    BY <1>0 DEF StopsInTime
  <1>6. ReportBalance'
    BY <1>0, Neighbours DEF PpTypeOK, ReportBalance, Unpopped
  <1> QED
    BY <1>1, <1>2, <1>3, <1>4, <1>5, <1>6

(* After a batch more, LastCore's count and its reports still add up. *)
LEMMA CountAddsUp ==
  ASSUME PpTypeOK, CountBatch, tx_cnt <= PrintEvery
  PROVE  /\ tx_cnt' \in Nat /\ reports' \in Nat /\ tx_cnt' <= PrintEvery
         /\ tx_cnt' + (PrintEvery + 1) * reports'
              = tx_cnt + (PrintEvery + 1) * reports + 1
  <1>1. tx_cnt \in Nat /\ reports \in Nat /\ PrintEvery \in Nat
    BY ProfileAssumption DEF PpTypeOK
  <1>2. CASE tx_cnt >= PrintEvery
    BY <1>1, <1>2 DEF CountBatch
  <1>3. CASE tx_cnt < PrintEvery
    BY <1>1, <1>3 DEF CountBatch
  <1> QED
    BY <1>1, <1>2, <1>3

LEMMA PopInv == ASSUME PpInv, NEW c \in Cores, Pop(c) PROVE PpInv'
  <1> USE DEF PpInv
  <1>0. /\ PpTypeOK /\ pc[c] = "pop" /\ c > 0 /\ c - 1 \in Rings /\ ring[c - 1] > 0
        /\ pc' = [pc EXCEPT ![c] = "loop"]
        /\ ring' = [ring EXCEPT ![c - 1] = ring[c - 1] - 1]
        /\ cnt' = cnt /\ processed_cnt' = processed_cnt /\ joined' = joined
        /\ BatchSz \in Nat /\ BatchSz > 0 /\ BufSz \in Nat
    <2>1. c # 0
      BY DEF HoldsInput, Pop
    <2>2. c > 0 /\ c - 1 \in Rings /\ (c - 1) + 1 = c
      BY <2>1, ProfileAssumption DEF Cores, Rings, Last
    <2>3. ring[c - 1] > 0
      <3>1. pc[(c - 1) + 1] # "loop"
        BY <2>2 DEF Pop
      <3> QED
        BY <2>2, <3>1 DEF HoldsInput
    <2> QED
      BY <2>2, <2>3, ProfileAssumption DEF Pop, PpTypeOK
  <1>1. /\ tx_cnt' \in Nat /\ reports' \in Nat
        /\ c = Last => CountBatch
        /\ c # Last => tx_cnt' = tx_cnt /\ reports' = reports
    <2>1. CASE c = Last
      BY <2>1, CountAddsUp, ProfileAssumption, Neighbours DEF Pop, ReportBalance
    <2>2. CASE c # Last
      BY <2>2 DEF Pop, PpTypeOK
    <2> QED
      BY <2>1, <2>2
  <1>2. PpTypeOK'
    BY <1>0, <1>1 DEF PpTypeOK
  <1>3. CursorInLog'
    BY <1>0 DEF CursorInLog
  <1>4. HoldsInput'
    BY <1>0, Neighbours DEF PpTypeOK, HoldsInput
  <1>5. Balance'
    <2> SUFFICES ASSUME NEW k \in Rings
                 PROVE  processed_cnt'[k] = processed_cnt'[k + 1] - Unpopped(k + 1)'
                                            + BatchSz * ring'[k] + Unpushed(k)'
      BY DEF Balance
    <2>1. processed_cnt[k] = processed_cnt[k + 1] - Unpopped(k + 1)
                             + BatchSz * ring[k] + Unpushed(k)
      BY DEF Balance
    <2>2. /\ BatchSz * ring[k] \in Int
          /\ BatchSz * (ring[k] - 1) = BatchSz * ring[k] - BatchSz
      BY <1>0, OneMore DEF PpTypeOK
    <2>3. CASE c = k
      BY <1>0, <2>1, <2>2, <2>3, Neighbours DEF PpTypeOK, Unpopped, Unpushed
    <2>4. CASE c = k + 1
      BY <1>0, <2>1, <2>2, <2>4, Neighbours DEF PpTypeOK, Unpopped, Unpushed
    <2>5. CASE c # k /\ c # k + 1
      BY <1>0, <2>1, <2>2, <2>5, Neighbours DEF PpTypeOK, Unpopped, Unpushed
    <2> QED
      BY <2>3, <2>4, <2>5
  <1>6. StopsInTime'
    BY <1>0 DEF StopsInTime
  <1>7. ReportBalance'
    <2> DEFINE counted == tx_cnt + (PrintEvery + 1) * reports
    <2>1. /\ counted \in Int /\ BatchSz * (counted + 1) = BatchSz * counted + BatchSz
          /\ BatchSz * counted \in Int
      <3>1. counted \in Int
        BY ProfileAssumption DEF PpTypeOK
      <3> QED
        BY <3>1, OneMore
    <2>2. CASE c = Last
      <3>1. counted' = counted + 1 /\ tx_cnt' <= PrintEvery
        BY <1>1, <2>2, CountAddsUp DEF ReportBalance
      <3>2. processed_cnt[Last] - BatchSz = BatchSz * counted
        BY <1>0, <2>2 DEF ReportBalance, Unpopped
      <3>3. Unpopped(Last)' = 0
        BY <1>0, <2>2 DEF PpTypeOK, Unpopped
      <3>4. processed_cnt[Last] \in Int /\ processed_cnt'[Last] = processed_cnt[Last]
        BY <1>0, Neighbours DEF PpTypeOK
      <3>5. processed_cnt'[Last] - Unpopped(Last)' = BatchSz * counted'
        <4> HIDE DEF counted
        <4> QED
          BY <1>0, <2>1, <3>1, <3>2, <3>3, <3>4
      <3> QED
        BY <3>1, <3>5 DEF ReportBalance
    <2>3. CASE c # Last
      BY <1>0, <1>1, <2>3, Neighbours DEF PpTypeOK, ReportBalance, Unpopped
    <2> QED
      BY <2>2, <2>3
  <1> QED
    BY <1>2, <1>3, <1>4, <1>5, <1>6, <1>7

LEMMA NextInv == PpInv /\ [PpNext]_ppVars => PpInv'
  <1> SUFFICES ASSUME PpInv, [PpNext]_ppVars PROVE PpInv'
    OBVIOUS
  <1>1. ASSUME NEW c \in Cores, Core(c) PROVE PpInv'
    BY <1>1, DispatchBatchInv, PushInv, PopInv DEF Core
  <1>2. CASE Join
    <2>1. joined' \in 0..(Last + 1)
      BY <1>2, ProfileAssumption DEF Join, Cores, Last
    <2> QED
      BY <1>2, <2>1 DEF Join, PpInv, PpTypeOK, CursorInLog, HoldsInput, Balance,
                        StopsInTime, ReportBalance, Unpopped, Unpushed
  <1>3. CASE UNCHANGED ppVars
    BY <1>3 DEF ppVars, PpInv, PpTypeOK, CursorInLog, HoldsInput, Balance,
                StopsInTime, ReportBalance, Unpopped, Unpushed
  <1> QED
    BY <1>1, <1>2, <1>3 DEF PpNext, Exit

(* The balance of every ring is kept by every step of every core. *)
THEOREM Inductive == PpSpec => []PpInv
  BY PpInitInv, NextInv, PTL DEF PpSpec

(* The type invariant, with the bounds of the rings. *)
THEOREM TypeCorrect == PpSpec => []PpTypeOK
  <1>1. PpInv => PpTypeOK
    BY DEF PpInv
  <1> QED
    BY <1>1, Inductive, PTL

(* No core leaves the log, whatever its length. *)
THEOREM CursorsInLog == PpSpec => []CursorInLog
  <1>1. PpInv => CursorInLog
    BY DEF PpInv
  <1> QED
    BY <1>1, Inductive, PTL

(* Neighbouring cores stay within a ring and a batch of each other. *)
THEOREM CoresInStep == PpSpec => []InStep
  <1>1. PpInv => InStep
    <2> SUFFICES ASSUME PpInv, NEW k \in Rings
                 PROVE  /\ processed_cnt[k + 1] <= processed_cnt[k]
                        /\ processed_cnt[k] - processed_cnt[k + 1]
                             <= (BufSz + 1) * BatchSz
      BY DEF InStep
    <2>1. processed_cnt[k] = processed_cnt[k + 1] - Unpopped(k + 1)
                             + BatchSz * ring[k] + Unpushed(k)
      BY DEF PpInv, Balance
    <2>2. /\ processed_cnt[k] \in Nat /\ processed_cnt[k + 1] \in Nat
          /\ ring[k] \in Nat /\ ring[k] <= BufSz
          /\ BatchSz \in Nat /\ BatchSz > 0 /\ BufSz \in Nat
      BY ProfileAssumption, Neighbours DEF PpInv, PpTypeOK
    <2>3. /\ BatchSz * ring[k] \in Int /\ BatchSz * ring[k] >= 0
          /\ BatchSz * ring[k] <= BatchSz * BufSz
          /\ ring[k] > 0 => BatchSz * ring[k] >= BatchSz
      BY <2>2, OneMore, BatchesBounded
    <2>4. (BufSz + 1) * BatchSz = BatchSz * BufSz + BatchSz /\ BatchSz * BufSz \in Int
      BY <2>2
    <2>5. Unpopped(k + 1) \in {0, BatchSz} /\ Unpushed(k) \in {0, BatchSz}
      BY DEF Unpopped, Unpushed
    <2>6. Unpopped(k + 1) = BatchSz => BatchSz * ring[k] >= BatchSz
      BY <2>2, <2>3 DEF PpInv, HoldsInput, Unpopped
    <2> QED
      BY <2>1, <2>2, <2>3, <2>4, <2>5, <2>6
  <1> QED
    BY <1>1, Inductive, PTL

(* Cores that end have emptied the ring between them. *)
THEOREM RingsEmptied == PpSpec => []NoBatchLeft
  <1>1. PpInv => NoBatchLeft
    <2> SUFFICES ASSUME PpInv, NEW k \in Rings, Ended(k), Ended(k + 1)
                 PROVE  ring[k] = 0
      BY DEF NoBatchLeft
    <2>1. processed_cnt[k] = processed_cnt[k + 1] + BatchSz * ring[k]
      <3>1. Unpopped(k + 1) = 0 /\ Unpushed(k) = 0
        BY DEF Ended, Unpopped, Unpushed
      <3>2. /\ processed_cnt[k] \in Int /\ processed_cnt[k + 1] \in Int
            /\ BatchSz * ring[k] \in Int
        BY Neighbours, OneMore DEF PpInv, PpTypeOK
      <3> QED
        BY <3>1, <3>2 DEF PpInv, Balance
    <2>2. /\ processed_cnt[k] < TerminationCount + BatchSz
          /\ processed_cnt[k + 1] >= TerminationCount
          /\ processed_cnt[k] \in Nat /\ processed_cnt[k + 1] \in Nat
          /\ ring[k] \in Nat /\ TerminationCount \in Nat /\ BatchSz \in Nat
      BY ProfileAssumption, Neighbours DEF PpInv, StopsInTime, PpTypeOK, Ended, Terminate
    <2>3. BatchSz * ring[k] \in Int
      BY <2>2, OneMore
    <2>4. BatchSz * ring[k] < BatchSz
      BY <2>1, <2>2, <2>3
    <2> QED
      BY <2>2, <2>4, BatchesBounded
  <1> QED
    BY <1>1, Inductive, PTL

(* LastCore's reports count batches, without losing one. *)
THEOREM ReportsAddUp == PpSpec => []ReportsCountBatches
  <1>1. PpInv => ReportsCountBatches
    <2> SUFFICES ASSUME PpInv, pc[Last] = "loop"
                 PROVE  processed_cnt[Last]
                          = BatchSz * (tx_cnt + (PrintEvery + 1) * reports)
      BY DEF ReportsCountBatches
    <2> QED
      BY Neighbours DEF PpInv, PpTypeOK, ReportBalance, Unpopped
  <1> QED
    BY <1>1, Inductive, PTL

=============================================================================
