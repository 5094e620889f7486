--------------------------- MODULE RuntimeProofs ----------------------------
(***************************************************************************)
(* Isolation and the order of conflicting behaviours, for any number of    *)
(* cowns, workers and behaviours.  The invariant describes every cown's    *)
(* queue: in increasing order, exactly the behaviours that name the cown,  *)
(* have joined it and have not finished.                                   *)
(***************************************************************************)
EXTENDS Runtime, SequenceTheorems, TLAPS

(* Behaviour b has joined the queue of cown c and not left it. *)
Waits(b, c) ==
  /\ b \in 1..spawned /\ c \in cownsOf[b] /\ b \notin finished
  /\ b = spawned => c \notin joining

Increasing(q) == \A i, j \in 1..Len(q) : i < j => q[i] < q[j]

QueueInv ==
  \A c \in Cowns :
    /\ Increasing(queue[c])
    /\ \A b \in Txns : Waits(b, c) <=> \E k \in 1..Len(queue[c]) : queue[c][k] = b

RunInv ==
  /\ \A w \in Workers : running[w] # 0 =>
       /\ running[w] \in 1..spawned /\ running[w] \notin finished
       /\ \A c \in cownsOf[running[w]] : queue[c] # <<>> /\ Head(queue[c]) = running[w]
  /\ \A v, w \in Workers : v # w /\ running[v] # 0 => running[v] # running[w]

FinishInv ==
  /\ finished \subseteq 1..spawned
  /\ joining \subseteq (IF spawned = 0 THEN {} ELSE cownsOf[spawned])
  /\ joining # {} => spawned \notin finished
  /\ \A i, j \in Txns : i < j /\ Conflict(i, j) /\ j \in finished => i \in finished

RtIInv == RtTypeOK /\ QueueInv /\ RunInv /\ FinishInv

-----------------------------------------------------------------------------
(* What joining a queue and leaving it do to the sequence. *)
LEMMA AppendFacts ==
  ASSUME NEW q \in Seq(Txns), NEW e \in Txns
  PROVE  /\ Append(q, e) \in Seq(Txns) /\ Append(q, e) # <<>>
         /\ Len(q) \in Nat /\ Len(Append(q, e)) = Len(q) + 1
         /\ \A k \in 1..Len(q) : Append(q, e)[k] = q[k] /\ q[k] \in Txns
         /\ Append(q, e)[Len(q) + 1] = e
         /\ q # <<>> => Head(Append(q, e)) = Head(q)
<1>1. /\ Append(q, e) \in Seq(Txns) /\ Append(q, e) # <<>>
      /\ Len(q) \in Nat /\ Len(Append(q, e)) = Len(q) + 1
      /\ \A k \in 1..Len(q) : Append(q, e)[k] = q[k]
      /\ Append(q, e)[Len(q) + 1] = e
  BY AppendProperties, LenProperties
<1>2. \A k \in 1..Len(q) : q[k] \in Txns
  BY ElementOfSeq
<1>3. q # <<>> => Len(q) > 0
  BY EmptySeq
<1>4. Head(Append(q, e)) = Append(q, e)[1] /\ Head(q) = q[1]
  OBVIOUS
<1> QED
  BY <1>1, <1>2, <1>3, <1>4

(* What is left of a queue that is not empty without its head. *)
LEMMA TailFacts ==
  ASSUME NEW q \in Seq(Txns), q # <<>>
  PROVE  /\ Tail(q) \in Seq(Txns)
         /\ Len(q) \in Nat /\ Len(q) > 0 /\ Len(Tail(q)) = Len(q) - 1
         /\ \A k \in 1..(Len(q) - 1) : Tail(q)[k] = q[k + 1]
         /\ \A k \in 1..Len(q) : q[k] \in Txns
         /\ Head(q) = q[1]
<1>1. Len(q) \in Nat /\ Len(q) > 0
  BY LenProperties, EmptySeq
<1>2. Tail(q) \in Seq(Txns) /\ Len(Tail(q)) = Len(q) - 1
      /\ \A k \in 1..(Len(q) - 1) : Tail(q)[k] = q[k + 1]
  BY <1>1, HeadTailProperties
<1>3. \A k \in 1..Len(q) : q[k] \in Txns
  BY ElementOfSeq
<1>4. Head(q) = q[1]
  OBVIOUS
<1> QED
  BY <1>1, <1>2, <1>3, <1>4

(* A behaviour that is first in the queues of all its cowns comes after no *)
(* unfinished behaviour that shares one of them.                           *)
LEMMA EarlierFinished ==
  ASSUME RtIInv, NEW j \in 1..spawned,
         \A c \in cownsOf[j] : queue[c] # <<>> /\ Head(queue[c]) = j,
         NEW i \in Txns, i < j, Conflict(i, j)
  PROVE  i \in finished
<1> USE RuntimeAssumption
<1> SUFFICES ASSUME i \notin finished PROVE FALSE
  OBVIOUS
<1>1. spawned \in Nat /\ spawned <= NumTxns /\ j \in Txns
  BY DEF RtIInv, RtTypeOK, Txns
<1>2. PICK c \in cownsOf[i] \cap cownsOf[j] : TRUE
  BY DEF Conflict
<1>3. c \in Cowns /\ queue[c] \in Seq(Txns) /\ queue[c] # <<>> /\ queue[c][1] = j
  BY <1>1, <1>2, TailFacts DEF RtIInv, RtTypeOK, Txns
<1>4. Waits(i, c)
  BY <1>1, <1>2 DEF Waits, Txns
<1>5. PICK k \in 1..Len(queue[c]) : queue[c][k] = i
  BY <1>3, <1>4 DEF RtIInv, QueueInv
<1>6. k # 1 /\ 1 \in 1..Len(queue[c]) /\ 1 < k
  BY <1>1, <1>3, <1>5, TailFacts DEF Txns
<1>7. queue[c][1] < queue[c][k]
  BY <1>3, <1>6 DEF RtIInv, QueueInv, Increasing
<1> QED
  BY <1>1, <1>3, <1>5, <1>7 DEF Txns

(* Before anything is spawned the queues are empty. *)
LEMMA RtInitIInv == RtInit => RtIInv
<1> SUFFICES ASSUME RtInit PROVE RtIInv
  OBVIOUS
<1> USE RuntimeAssumption DEF RtInit
<1>1. <<>> \in Seq(Txns) /\ Len(<<>>) = 0
  BY EmptySeq
<1>2. RtTypeOK
  BY <1>1 DEF RtTypeOK
<1>3. QueueInv
  <2>0. 1..0 = {}
    OBVIOUS
  <2>1. \A c \in Cowns : Len(queue[c]) = 0
    BY <1>1
  <2>2. \A b \in Txns, c \in Cowns : ~Waits(b, c)
    BY <2>0 DEF Waits
  <2> QED
    BY <2>0, <2>1, <2>2 DEF QueueInv, Increasing
<1>4. RunInv /\ FinishInv
  BY DEF RunInv, FinishInv
<1> QED
  BY <1>2, <1>3, <1>4 DEF RtIInv

(* Spawning a behaviour, which has joined no queue yet, keeps the          *)
(* invariant.                                                              *)
LEMMA SpawnStep == \A cs \in Whens : RtIInv /\ Spawn(cs) => RtIInv'
<1> SUFFICES ASSUME NEW cs \in Whens, RtIInv, Spawn(cs) PROVE RtIInv'
  OBVIOUS
<1> USE RuntimeAssumption
<1>1. /\ joining = {} /\ spawned < NumTxns /\ spawned' = spawned + 1
      /\ joining' = cs /\ cs \subseteq Cowns /\ UNCHANGED <<queue, running, finished>>
      /\ spawned \in Nat /\ spawned' \in Txns
  BY DEF Spawn, RtIInv, RtTypeOK, Txns
<1>2. /\ cownsOf' \in [Txns -> SUBSET Cowns] /\ cownsOf'[spawned'] = cs
      /\ \A b \in Txns : b # spawned' => cownsOf'[b] = cownsOf[b]
  BY <1>1 DEF Spawn, RtIInv, RtTypeOK
<1>3. \A b \in 1..spawned : b \in Txns /\ b # spawned' /\ cownsOf'[b] = cownsOf[b]
  BY <1>1, <1>2 DEF Txns
<1>4. RtTypeOK'
  BY <1>1, <1>2 DEF RtIInv, RtTypeOK, Txns
<1>5. QueueInv'
  <2>1. ASSUME NEW c \in Cowns, NEW b \in Txns PROVE Waits(b, c)' <=> Waits(b, c)
    <3>1. CASE b = spawned'
      BY <3>1, <1>1, <1>2 DEF Waits
    <3>2. CASE b # spawned'
      BY <3>2, <1>1, <1>2 DEF Waits, Txns
    <3> QED
      BY <3>1, <3>2
  <2> QED
    BY <1>1, <2>1 DEF RtIInv, QueueInv, Increasing
<1>6. RunInv'
  BY <1>1, <1>3 DEF RtIInv, RunInv
<1>7. FinishInv'
  <2>1. ASSUME NEW i \in Txns, NEW j \in Txns, i < j, Conflict(i, j)', j \in finished
        PROVE  i \in finished
    <3>1. j \in 1..spawned /\ i \in 1..spawned
      BY <2>1, <1>1 DEF RtIInv, FinishInv, Txns
    <3>2. Conflict(i, j)
      BY <2>1, <3>1, <1>3 DEF Conflict
    <3> QED
      BY <2>1, <3>2 DEF RtIInv, FinishInv
  <2>2. /\ finished' \subseteq 1..spawned'
        /\ joining' \subseteq (IF spawned' = 0 THEN {} ELSE cownsOf'[spawned'])
        /\ joining' # {} => spawned' \notin finished'
    BY <1>1, <1>2 DEF RtIInv, FinishInv
  <2> QED
    BY <1>1, <2>1, <2>2 DEF FinishInv
<1> QED
  BY <1>4, <1>5, <1>6, <1>7 DEF RtIInv

(* A behaviour that joins a queue goes last, after smaller behaviours      *)
(* only.                                                                   *)
LEMMA ExchangeStep == \A c \in Cowns : RtIInv /\ Exchange(c) => RtIInv'
<1> SUFFICES ASSUME NEW c \in Cowns, RtIInv, Exchange(c) PROVE RtIInv'
  OBVIOUS
<1> USE RuntimeAssumption
<1>1. /\ c \in joining /\ joining' = joining \ {c}
      /\ queue' = [queue EXCEPT ![c] = Append(@, spawned)]
      /\ UNCHANGED <<spawned, cownsOf, running, finished>>
  BY DEF Exchange
<1>2. /\ spawned \in Txns /\ spawned \in Nat /\ c \in cownsOf[spawned]
      /\ spawned \notin finished
  BY <1>1 DEF RtIInv, RtTypeOK, FinishInv, Txns
<1>3. /\ queue \in [Cowns -> Seq(Txns)] /\ queue[c] \in Seq(Txns)
      /\ queue'[c] = Append(queue[c], spawned)
      /\ \A d \in Cowns \ {c} : queue'[d] = queue[d]
  BY <1>1 DEF RtIInv, RtTypeOK
<1>4. /\ queue'[c] \in Seq(Txns) /\ queue'[c] # <<>>
      /\ Len(queue[c]) \in Nat /\ Len(queue'[c]) = Len(queue[c]) + 1
      /\ \A k \in 1..Len(queue[c]) : queue'[c][k] = queue[c][k] /\ queue[c][k] \in Txns
      /\ queue'[c][Len(queue[c]) + 1] = spawned
      /\ queue[c] # <<>> => Head(queue'[c]) = Head(queue[c])
  BY <1>2, <1>3, AppendFacts
<1>5. \A k \in 1..Len(queue[c]) : queue[c][k] < spawned
  <2> SUFFICES ASSUME NEW k \in 1..Len(queue[c]) PROVE queue[c][k] < spawned
    OBVIOUS
  <2>1. Waits(queue[c][k], c)
    BY <1>4 DEF RtIInv, QueueInv
  <2> QED
    BY <2>1, <1>1, <1>2 DEF Waits
<1>6. RtTypeOK'
  BY <1>1, <1>3, <1>4 DEF RtIInv, RtTypeOK
<1>7. QueueInv'
  <2> SUFFICES ASSUME NEW d \in Cowns
               PROVE  /\ Increasing(queue'[d])
                      /\ \A b \in Txns : Waits(b, d)' <=>
                           \E k \in 1..Len(queue'[d]) : queue'[d][k] = b
    BY DEF QueueInv, Increasing
  <2>1. CASE d # c
    <3>1. \A b \in Txns : Waits(b, d)' <=> Waits(b, d)
      BY <2>1, <1>1 DEF Waits
    <3> QED
      BY <3>1, <2>1, <1>3 DEF RtIInv, QueueInv
  <2>2. CASE d = c
    <3>1. Increasing(queue'[c])
      <4>1. \A k \in 1..Len(queue'[c]) : k \in 1..Len(queue[c]) \/ k = Len(queue[c]) + 1
        BY <1>4
      <4>2. Increasing(queue[c])
        BY DEF RtIInv, QueueInv
      <4> SUFFICES ASSUME NEW i \in 1..Len(queue'[c]), NEW j \in 1..Len(queue'[c]), i < j
                   PROVE  queue'[c][i] < queue'[c][j]
        BY DEF Increasing
      <4>3. i \in 1..Len(queue[c])
        BY <4>1, <1>4
      <4>4. CASE j \in 1..Len(queue[c])
        BY <4>2, <4>3, <4>4, <1>4 DEF Increasing
      <4>5. CASE j = Len(queue[c]) + 1
        BY <4>3, <4>5, <1>4, <1>5
      <4> QED
        BY <4>1, <4>4, <4>5
    <3>2. ASSUME NEW b \in Txns
          PROVE  Waits(b, c)' <=> Waits(b, c) \/ b = spawned
      BY <1>1, <1>2 DEF Waits, Txns
    <3>3. ASSUME NEW b \in Txns
          PROVE  (\E k \in 1..Len(queue'[c]) : queue'[c][k] = b) <=>
                   (\E k \in 1..Len(queue[c]) : queue[c][k] = b) \/ b = spawned
      <4>1. \A k \in 1..Len(queue'[c]) : k \in 1..Len(queue[c]) \/ k = Len(queue[c]) + 1
        BY <1>4
      <4>2. /\ Len(queue[c]) + 1 \in 1..Len(queue'[c])
            /\ \A k \in 1..Len(queue[c]) : k \in 1..Len(queue'[c])
        BY <1>4
      <4> QED
        BY <4>1, <4>2, <1>4
    <3> QED
      BY <2>2, <3>1, <3>2, <3>3 DEF RtIInv, QueueInv
  <2> QED
    BY <2>1, <2>2
<1>8. RunInv'
  <2>1. \A d \in Cowns : queue[d] # <<>> => queue'[d] # <<>> /\ Head(queue'[d]) = Head(queue[d])
    BY <1>3, <1>4
  <2>2. \A w \in Workers : running[w] # 0 => cownsOf[running[w]] \subseteq Cowns
    BY DEF RtIInv, RtTypeOK, Txns
  <2> QED
    BY <2>1, <2>2, <1>1 DEF RtIInv, RunInv
<1>9. FinishInv'
  BY <1>1, <1>2 DEF RtIInv, FinishInv, Conflict
<1> QED
  BY <1>6, <1>7, <1>8, <1>9 DEF RtIInv

(* A behaviour that starts is first in the queues of all its cowns. *)
LEMMA StartStep == \A w \in Workers, b \in Txns : RtIInv /\ Start(w, b) => RtIInv'
<1> SUFFICES ASSUME NEW w \in Workers, NEW b \in Txns, RtIInv, Start(w, b)
             PROVE  RtIInv'
  OBVIOUS
<1> USE RuntimeAssumption
<1>1. /\ running[w] = 0 /\ Ready(b) /\ running' = [running EXCEPT ![w] = b]
      /\ UNCHANGED <<spawned, cownsOf, joining, queue, finished>>
  BY DEF Start
<1>2. RtTypeOK'
  BY <1>1 DEF RtIInv, RtTypeOK, Txns
<1>3. QueueInv'
  BY <1>1 DEF RtIInv, QueueInv, Increasing, Waits
<1>4. RunInv'
  <2>1. \A v \in Workers : running'[v] = IF v = w THEN b ELSE running[v]
    BY <1>1 DEF RtIInv, RtTypeOK
  <2> QED
    BY <2>1, <1>1 DEF RtIInv, RunInv, Ready, Txns
<1>5. FinishInv'
  BY <1>1 DEF RtIInv, FinishInv, Conflict
<1> QED
  BY <1>2, <1>3, <1>4, <1>5 DEF RtIInv

(* A finished behaviour leaves all its queues, of which it was the head. *)
LEMMA FinishStep == \A w \in Workers : RtIInv /\ Finish(w) => RtIInv'
<1> SUFFICES ASSUME NEW w \in Workers, RtIInv, Finish(w) PROVE RtIInv'
  OBVIOUS
<1> USE RuntimeAssumption
<1> DEFINE b == running[w]
<1>1. /\ b # 0 /\ finished' = finished \cup {b}
      /\ queue' = [c \in Cowns |-> IF c \in cownsOf[b] THEN Tail(queue[c]) ELSE queue[c]]
      /\ running' = [running EXCEPT ![w] = 0]
      /\ UNCHANGED <<spawned, cownsOf, joining>>
  BY DEF Finish
<1>2. /\ b \in 1..spawned /\ b \notin finished /\ b \in Txns /\ cownsOf[b] \subseteq Cowns
      /\ \A c \in cownsOf[b] : queue[c] # <<>> /\ Head(queue[c]) = b
      /\ queue \in [Cowns -> Seq(Txns)] /\ spawned \in Nat
  BY <1>1 DEF RtIInv, RtTypeOK, RunInv, Txns
<1>3. \A v \in Workers : v # w /\ running[v] # 0 =>
        running[v] # b /\ cownsOf[running[v]] \cap cownsOf[b] = {}
  <2> SUFFICES ASSUME NEW v \in Workers, v # w, running[v] # 0
               PROVE  running[v] # b /\ cownsOf[running[v]] \cap cownsOf[b] = {}
    OBVIOUS
  <2>1. running[v] # b
    BY DEF RtIInv, RunInv
  <2>2. \A c \in cownsOf[running[v]] : Head(queue[c]) = running[v]
    BY DEF RtIInv, RunInv
  <2> QED
    BY <2>1, <2>2, <1>2
<1>4. \A v \in Workers : running'[v] = IF v = w THEN 0 ELSE running[v]
  BY <1>1 DEF RtIInv, RtTypeOK
<1> HIDE DEF b
<1>5. \A c \in cownsOf[b] :
        /\ Tail(queue[c]) \in Seq(Txns)
        /\ Len(queue[c]) \in Nat /\ Len(queue[c]) > 0
        /\ Len(Tail(queue[c])) = Len(queue[c]) - 1
        /\ \A k \in 1..(Len(queue[c]) - 1) : Tail(queue[c])[k] = queue[c][k + 1]
        /\ \A k \in 1..Len(queue[c]) : queue[c][k] \in Txns
        /\ queue[c][1] = b
  BY <1>2, TailFacts
<1>6. RtTypeOK'
  BY <1>1, <1>2, <1>4, <1>5 DEF RtIInv, RtTypeOK
<1>7. QueueInv'
  <2> SUFFICES ASSUME NEW c \in Cowns
               PROVE  /\ Increasing(queue'[c])
                      /\ \A n \in Txns : Waits(n, c)' <=>
                           \E k \in 1..Len(queue'[c]) : queue'[c][k] = n
    BY DEF QueueInv, Increasing
  <2>1. /\ Increasing(queue[c])
        /\ \A n \in Txns : Waits(n, c) <=> \E k \in 1..Len(queue[c]) : queue[c][k] = n
    BY DEF RtIInv, QueueInv
  <2>2. \A n \in Txns : Waits(n, c)' <=> Waits(n, c) /\ n # b
    BY <1>1 DEF Waits
  <2>3. CASE c \notin cownsOf[b]
    <3>1. queue'[c] = queue[c]
      BY <2>3, <1>1
    <3>2. ~Waits(b, c)
      BY <2>3 DEF Waits
    <3> QED
      BY <2>1, <2>2, <3>1, <3>2
  <2>4. CASE c \in cownsOf[b]
    <3>1. /\ Len(queue[c]) \in Nat /\ Len(queue[c]) > 0
          /\ Len(queue'[c]) = Len(queue[c]) - 1
          /\ \A k \in 1..(Len(queue[c]) - 1) : queue'[c][k] = queue[c][k + 1]
          /\ \A k \in 1..Len(queue[c]) : queue[c][k] \in Txns
          /\ queue[c][1] = b
      BY <2>4, <1>1, <1>5
    <3>2. Increasing(queue'[c])
      BY <2>1, <3>1 DEF Increasing
    <3>3. \A k \in 2..Len(queue[c]) : queue[c][k] # b
      <4>1. \A k \in 2..Len(queue[c]) : queue[c][1] < queue[c][k]
        BY <2>1, <3>1 DEF Increasing
      <4> QED
        BY <4>1, <3>1 DEF Txns
    <3>4. ASSUME NEW n \in Txns
          PROVE  (\E k \in 1..Len(queue'[c]) : queue'[c][k] = n) <=>
                   (\E k \in 1..Len(queue[c]) : queue[c][k] = n) /\ n # b
      <4>1. ASSUME NEW k \in 1..Len(queue'[c]), queue'[c][k] = n
            PROVE  (\E m \in 1..Len(queue[c]) : queue[c][m] = n) /\ n # b
        <5>1. k + 1 \in 2..Len(queue[c]) /\ queue[c][k + 1] = n
          BY <4>1, <3>1
        <5> QED
          BY <5>1, <3>1, <3>3
      <4>2. ASSUME NEW k \in 1..Len(queue[c]), queue[c][k] = n, n # b
            PROVE  \E m \in 1..Len(queue'[c]) : queue'[c][m] = n
        <5>1. k - 1 \in 1..Len(queue'[c]) /\ queue'[c][k - 1] = n
          BY <4>2, <3>1
        <5> QED
          BY <5>1
      <4> QED
        BY <4>1, <4>2
    <3> QED
      BY <2>1, <2>2, <3>2, <3>4
  <2> QED
    BY <2>3, <2>4
<1>8. RunInv'
  <2>1. \A v \in Workers : v # w /\ running[v] # 0 =>
          \A c \in cownsOf[running[v]] : queue'[c] = queue[c]
    <3>1. \A v \in Workers : running[v] # 0 => cownsOf[running[v]] \subseteq Cowns
      BY DEF RtIInv, RtTypeOK, Txns
    <3> QED
      BY <3>1, <1>1, <1>3
  <2> QED
    BY <2>1, <1>1, <1>3, <1>4 DEF RtIInv, RunInv
<1>9. FinishInv'
  <2>1. \A i \in Txns : i < b /\ Conflict(i, b) => i \in finished
    BY <1>2, EarlierFinished
  <2>2. joining # {} => b # spawned
    <3> SUFFICES ASSUME NEW c \in joining, b = spawned PROVE FALSE
      OBVIOUS
    <3>1. c \in cownsOf[b] /\ c \in Cowns
      BY <1>2 DEF RtIInv, FinishInv
    <3>2. ~Waits(b, c)
      BY DEF Waits
    <3>3. 1 \in 1..Len(queue[c]) /\ queue[c][1] = b
      BY <3>1, <1>5
    <3> QED
      BY <3>1, <3>2, <3>3, <1>2 DEF RtIInv, QueueInv
  <2> QED
    BY <2>1, <2>2, <1>1, <1>2 DEF RtIInv, FinishInv, Conflict
<1> QED
  BY <1>6, <1>7, <1>8, <1>9 DEF RtIInv

(* The description of the queues is an invariant of the runtime. *)
THEOREM RtInvariance == RtSpec => []RtIInv
<1>1. RtIInv /\ [RtNext]_rtVars => RtIInv'
  <2> SUFFICES ASSUME RtIInv, [RtNext]_rtVars PROVE RtIInv'
    OBVIOUS
  <2>1. CASE \E cs \in Whens : Spawn(cs)
    BY <2>1, SpawnStep
  <2>2. CASE \E c \in Cowns : Exchange(c)
    BY <2>2, ExchangeStep
  <2>3. CASE \E w \in Workers, b \in Txns : Start(w, b)
    BY <2>3, StartStep
  <2>4. CASE \E w \in Workers : Finish(w)
    BY <2>4, FinishStep
  <2>5. CASE UNCHANGED rtVars
    BY <2>5 DEF rtVars, RtIInv, RtTypeOK, QueueInv, Increasing, Waits, RunInv, FinishInv,
                Conflict
  <2> QED
    BY <2>1, <2>2, <2>3, <2>4, <2>5 DEF RtNext, RtSpawner, RtWorker, Idle
<1> QED
  BY <1>1, RtInitIInv, PTL DEF RtSpec

(* The runtime's state keeps its types. *)
THEOREM RtTypeCorrect == RtSpec => []RtTypeOK
<1>1. RtIInv => RtTypeOK
  BY DEF RtIInv
<1> QED
  BY <1>1, RtInvariance, PTL

(* Workers never run behaviours that share a cown at the same time. *)
THEOREM IsolationHolds == RtSpec => []Isolation
<1>1. RtIInv => Isolation
  <2> SUFFICES ASSUME RtIInv, NEW v \in Workers, NEW w \in Workers,
                      v # w, running[v] # 0, running[w] # 0
               PROVE  running[v] # running[w] /\ ~Conflict(running[v], running[w])
    BY DEF Isolation
  <2>1. running[v] # running[w]
    BY DEF RtIInv, RunInv
  <2>2. /\ \A c \in cownsOf[running[v]] : Head(queue[c]) = running[v]
        /\ \A c \in cownsOf[running[w]] : Head(queue[c]) = running[w]
    BY DEF RtIInv, RunInv
  <2> QED
    BY <2>1, <2>2 DEF Conflict
<1> QED
  BY <1>1, RtInvariance, PTL

(* Behaviours that share a cown run one after the other, in the order in   *)
(* which the Spawner created them.                                         *)
THEOREM SpawnOrderHolds == RtSpec => []SpawnOrder
<1>1. RtIInv => SpawnOrder
  <2> SUFFICES ASSUME RtIInv, NEW i \in Txns, NEW j \in Txns, i < j, Conflict(i, j),
                      j \in finished \/ \E w \in Workers : running[w] = j
               PROVE  i \in finished
    BY DEF SpawnOrder
  <2>1. CASE j \in finished
    BY <2>1 DEF RtIInv, FinishInv
  <2>2. CASE \E w \in Workers : running[w] = j
    <3>1. /\ j \in 1..spawned
          /\ \A c \in cownsOf[j] : queue[c] # <<>> /\ Head(queue[c]) = j
      BY <2>2, RuntimeAssumption DEF RtIInv, RunInv, Txns
    <3> QED
      BY <3>1, EarlierFinished
  <2> QED
    BY <2>1, <2>2
<1> QED
  BY <1>1, RtInvariance, PTL

=============================================================================
