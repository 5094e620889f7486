------------------------------ MODULE Runtime -------------------------------
(***************************************************************************)
(* Cowns, behaviours and workers: what the applications use of verona-rt.  *)
(* The Spawner executes `when(row0, ..., rown) << lambda` once per log     *)
(* entry; each cown keeps a queue of the behaviours that want it; a worker *)
(* thread of the scheduler runs a behaviour once it is first in the queue  *)
(* of every cown it names, and releases them all when the lambda returns.  *)
(* As in app/atomic_exchange_profile.cpp, a behaviour joins its cowns'     *)
(* queues one atomic exchange at a time, while the workers go on.          *)
(***************************************************************************)
EXTENDS Integers, Sequences

CONSTANTS
  Cowns,      \* the cowns: one per row of the database
  Workers,    \* the scheduler's threads, but for the one build_pipelines holds
  NumTxns,    \* the behaviours the Spawner creates
  Whens       \* the sets of cowns that the application names in its whens

ASSUME RuntimeAssumption ==
  NumTxns \in Nat /\ Whens \subseteq SUBSET Cowns

VARIABLES
  spawned,    \* behaviours 1..spawned have been created, in this order
  cownsOf,    \* per behaviour, the cowns its when names; none before
  joining,    \* cowns whose queue behaviour `spawned` has yet to join
  queue,      \* per cown, the behaviours that joined and have not released it
  running,    \* per worker, the behaviour it runs, or 0
  finished    \* the behaviours whose lambda has returned

rtVars == <<spawned, cownsOf, joining, queue, running, finished>>

Txns == 1..NumTxns

RtInit ==
  /\ spawned = 0 /\ cownsOf = [b \in Txns |-> {}] /\ joining = {}
  /\ queue = [c \in Cowns |-> <<>>]
  /\ running = [w \in Workers |-> 0]
  /\ finished = {}

(* when(cs): the Spawner creates the next behaviour, on the cowns cs. *)
Spawn(cs) ==
  /\ joining = {} /\ spawned < NumTxns
  /\ spawned' = spawned + 1
  /\ cownsOf' = [cownsOf EXCEPT ![spawned + 1] = cs]
  /\ joining' = cs
  /\ UNCHANGED <<queue, running, finished>>

(* Mutant: the exchange puts the behaviour before those that wait. *)
ExchangeInFront(c) ==
  /\ c \in joining
  /\ queue' = [queue EXCEPT ![c] = IF Len(@) > 1 THEN <<Head(@), spawned>> \o Tail(@)
                                   ELSE Append(@, spawned)]
  /\ joining' = joining \ {c}
  /\ UNCHANGED <<spawned, cownsOf, running, finished>>

(* The exchange of last_slot: the new behaviour is last in c's queue. *)
Exchange(c) ==
  /\ c \in joining
  /\ queue' = [queue EXCEPT ![c] = Append(@, spawned)]
  /\ joining' = joining \ {c}
  /\ UNCHANGED <<spawned, cownsOf, running, finished>>

(* Mutant: once it has joined all queues, one acquired cown is enough. *)
ReadyOnAny(b) ==
  /\ b \in 1..spawned /\ b \notin finished
  /\ \A w \in Workers : running[w] # b
  /\ \A c \in cownsOf[b] : \E k \in 1..Len(queue[c]) : queue[c][k] = b
  /\ cownsOf[b] # {} => \E c \in cownsOf[b] : Head(queue[c]) = b

Ready(b) ==
  /\ b \in 1..spawned /\ b \notin finished
  /\ \A w \in Workers : running[w] # b
  /\ \A c \in cownsOf[b] : queue[c] # <<>> /\ Head(queue[c]) = b

Start(w, b) ==
  /\ running[w] = 0 /\ Ready(b)
  /\ running' = [running EXCEPT ![w] = b]
  /\ UNCHANGED <<spawned, cownsOf, joining, queue, finished>>

(* Mutant: the behaviour is put back as if it had not run. *)
FinishReschedules(w) ==
  /\ running[w] # 0
  /\ running' = [running EXCEPT ![w] = 0]
  /\ UNCHANGED <<spawned, cownsOf, joining, queue, finished>>

(* The lambda returns: the behaviour leaves the queues of its cowns. *)
Finish(w) ==
  /\ running[w] # 0
  /\ finished' = finished \cup {running[w]}
  /\ queue' = [c \in Cowns |-> IF c \in cownsOf[running[w]] THEN Tail(queue[c])
                               ELSE queue[c]]
  /\ running' = [running EXCEPT ![w] = 0]
  /\ UNCHANGED <<spawned, cownsOf, joining>>

(* Every behaviour has run: the workers find no more work. *)
AllDone == spawned = NumTxns /\ finished = Txns

Idle == AllDone /\ UNCHANGED rtVars

RtSpawner == (\E cs \in Whens : Spawn(cs)) \/ \E c \in Cowns : Exchange(c)
RtWorker(w) == (\E b \in Txns : Start(w, b)) \/ Finish(w)

RtNext == RtSpawner \/ (\E w \in Workers : RtWorker(w)) \/ Idle

RtSpec == RtInit /\ [][RtNext]_rtVars

(* The Spawner and every worker are threads of their own; lambdas return.  *)
(* A worker that finds a behaviour ready takes one: which, is up to the    *)
(* scheduler.                                                              *)
RtFairness == WF_rtVars(RtSpawner) /\ \A w \in Workers : WF_rtVars(RtWorker(w))

RtFairSpec == RtSpec /\ RtFairness

-----------------------------------------------------------------------------
(* The types of the runtime's state. *)
RtTypeOK ==
  /\ spawned \in 0..NumTxns /\ cownsOf \in [Txns -> SUBSET Cowns]
  /\ joining \subseteq Cowns
  /\ queue \in [Cowns -> Seq(Txns)]
  /\ running \in [Workers -> 0..NumTxns]
  /\ finished \subseteq Txns

Conflict(i, j) == cownsOf[i] \cap cownsOf[j] # {}

(* Two workers never run behaviours that share a cown (nor the same one):  *)
(* the lambdas of parse_and_process read and write rows without a lock.    *)
Isolation ==
  \A v, w \in Workers :
    v # w /\ running[v] # 0 /\ running[w] # 0 =>
      running[v] # running[w] /\ ~Conflict(running[v], running[w])

(* A behaviour starts only after every earlier behaviour that shares a     *)
(* cown with it has finished: transactions that conflict take effect in    *)
(* the order of the log.                                                   *)
SpawnOrder ==
  \A i, j \in Txns :
    i < j /\ Conflict(i, j) /\ (j \in finished \/ \E w \in Workers : running[w] = j)
      => i \in finished

(* Every behaviour of the log finishes: waiting for cowns is never         *)
(* circular, although each queue is joined separately.                     *)
EveryTxnFinishes == \A b \in Txns : <>(b \in finished)

=============================================================================
