---------------------------- MODULE MCDispatcher -----------------------------
(***************************************************************************)
(* Three views of a build without CORE_PIPE, each with a state of its own: *)
(* the dispatcher's loop over the log, the throughput statistics, and the  *)
(* end of the program.  A behaviour is one of the dispatcher, of the       *)
(* statistics or of the shutdown.                                          *)
(***************************************************************************)
EXTENDS FileDispatcher, Statistics, Shutdown

VARIABLE view

dpVars == <<vars, stVars, shVars, view>>

DpInit ==
  /\ view \in {"dispatcher", "statistics", "shutdown"}
  /\ Init /\ StInit /\ ShInit
  /\ view # "dispatcher" => look_ahead = 0
  /\ view # "shutdown" => w_now = CHOOSE w \in Workers : TRUE

OnDispatcher(A) ==
  view = "dispatcher" /\ A /\ UNCHANGED <<stVars, shVars, view>>

DpNext ==
  \/ OnDispatcher(Next)
  \/ view = "statistics" /\ StNext /\ UNCHANGED <<vars, log_arr, lambdaVars, view>>
  \/ view = "shutdown" /\ ShNext /\ UNCHANGED <<vars, counter, runVars, view>>

(* RPCHandler and the dispatcher have a core each and spin. *)
DpSpec ==
  /\ DpInit /\ [][DpNext]_dpVars
  /\ WF_dpVars(OnDispatcher(Receive)) /\ WF_dpVars(OnDispatcher(Dispatcher))

(* The dispatcher ends by itself, after RPC_LOG_SIZE requests exactly. *)
FdTerminates ==
  view = "dispatcher" ~> (pc = "done" /\ txn_log_id = RpcLogSize)

=============================================================================
