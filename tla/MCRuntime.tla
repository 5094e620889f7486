----------------------------- MODULE MCRuntime ------------------------------
(* Any sequence of whens over three cowns: pairs, which form chains and     *)
(* cycles of conflicts, all cowns, one alone, and none, as in the whens of  *)
(* build_pipelines.                                                         *)
EXTENDS Runtime

CONSTANTS a, b, c

MCWhens == {{}, {a}, {a, b}, {b, c}, {a, c}, {a, b, c}}

=============================================================================
