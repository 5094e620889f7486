------------------------------ MODULE ValueSet ------------------------------
(***************************************************************************)
(* What fast_hash_map promises: a set of values that grows and shrinks one *)
(* value at a time, says whether a call changed it, and answers a vector   *)
(* of lookups with one bit per value, in the order they were asked.        *)
(***************************************************************************)
CONSTANTS Values, Queries

VARIABLES
  values,   \* the set
  answer    \* what the last call returned, a sequence of BOOLEANs

Init == values = {} /\ answer = <<>>

Insert(v) ==
  /\ answer' = <<v \notin values>>
  /\ values' = values \cup {v}

Remove(v) ==
  /\ answer' = <<v \in values>>
  /\ values' = values \ {v}

FindAll(q) ==
  /\ answer' = [k \in DOMAIN q |-> q[k] \in values]
  /\ UNCHANGED values

Next ==
  \/ \E v \in Values : Insert(v) \/ Remove(v)
  \/ \E q \in Queries : FindAll(q)

Spec == Init /\ [][Next]_<<values, answer>>

=============================================================================
