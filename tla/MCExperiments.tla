---------------------------- MODULE MCExperiments ----------------------------
(***************************************************************************)
(* The repository's small programs, which share nothing.  A behaviour is   *)
(* one of nanotest, of a user of the hash map, of txn_profile, or of the   *)
(* pipeline profile's test.                                                *)
(***************************************************************************)
EXTENDS Nanotest, HashMap, TxnProfile, ProfilePipeline

VARIABLE program

vars == <<ntVars, hmVars, tpVars, ppVars, program>>

(* Shorter than look_ahead, and long enough that the ring of hashes is     *)
(* filled again and a batch is left incomplete.                            *)
MCQueries == [1..1 -> Values] \cup [1..5 -> {0, 1}]

(* The programs that do not run stay in one of their initial states. *)
Init ==
  /\ program \in {"nanotest", "hashmap", "txn_profile", "pipeline_profile"}
  /\ NtInit /\ HmInit /\ TpInit /\ PpInit
  /\ program # "nanotest" =>
       algo = "naive" /\ streams = 1 /\ lookups = [k \in 1..Lookups |-> 0]
  /\ program # "txn_profile" =>
       variant = "loop" /\ rows = [r \in Db |-> [b \in 1..RowSize |-> 0]]

NanotestNext ==
  program = "nanotest" /\ NtNext /\ UNCHANGED <<hmVars, tpVars, ppVars, program>>
HashMapNext ==
  program = "hashmap" /\ HmNext /\ UNCHANGED <<ntVars, tpVars, ppVars, program>>
TxnProfileNext ==
  program = "txn_profile" /\ TpNext /\ UNCHANGED <<ntVars, hmVars, ppVars, program>>
PipelineProfileNext ==
  program = "pipeline_profile" /\ PpNext /\ UNCHANGED <<ntVars, hmVars, tpVars, program>>

Next == NanotestNext \/ HashMapNext \/ TxnProfileNext \/ PipelineProfileNext

(* nanotest is one thread; the pipeline profile's are pinned and spin. *)
Fairness ==
  /\ WF_vars(NanotestNext)
  /\ \A c \in Cores : WF_vars(program = "pipeline_profile" /\ Core(c)
                                 /\ UNCHANGED <<ntVars, hmVars, tpVars, program>>)
  /\ WF_vars(program = "pipeline_profile" /\ Join
                /\ UNCHANGED <<ntVars, hmVars, tpVars, program>>)

Spec == Init /\ [][Next]_vars /\ Fairness

(* All repetitions end: searches narrow, and coroutines that wait for one  *)
(* another all get their turn.                                             *)
NanotestTerminates == program = "nanotest" ~> NtExited

(* The joins of runPipeline return: no core spins on a ring that its       *)
(* neighbour has left.                                                     *)
AllJoined == program = "pipeline_profile" ~> Exited

=============================================================================
