------------------------------- MODULE MCYcsb -------------------------------
(* Four transactions over three rows.  The first and the second share no   *)
(* row, nor do the second and the fourth, or the third and the fourth, so  *)
(* that their lambdas run at the same time; the third conflicts with both  *)
(* the first and the second, the fourth with the first.  Two read a row    *)
(* and write another, the second only writes, the fourth only reads.       *)
EXTENDS Ycsb

CONSTANTS r1, r2, r3

MCLog ==
  << [indices |-> <<r1, r2>>, write_set |-> <<FALSE, TRUE>>],
     [indices |-> <<r3>>, write_set |-> <<TRUE>>],
     [indices |-> <<r3, r1>>, write_set |-> <<FALSE, TRUE>>],
     [indices |-> <<r2>>, write_set |-> <<FALSE>>] >>

=============================================================================
