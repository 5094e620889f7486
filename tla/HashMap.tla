------------------------------- MODULE HashMap -------------------------------
(***************************************************************************)
(* fast_hash_map<int, simple_hash_map_entry<int>>, app/prefetch/hashmap: a *)
(* vector of buckets, each a vector of values, and three ways to look up   *)
(* many values: one at a time, with the entries hashed look_ahead values   *)
(* ahead of the search in a ring of hashes, and batch by batch.            *)
(***************************************************************************)
EXTENDS Integers, Sequences

CONSTANTS
  Values,       \* what may be inserted
  Queries,      \* the vectors of values that are looked up
  BucketCount,  \* m_size
  LookAhead     \* look_ahead

ASSUME HashMapAssumption ==
  /\ Values \subseteq Nat /\ BucketCount \in Nat \ {0} /\ LookAhead \in Nat \ {0}
  /\ Queries \subseteq Seq(Nat)

VARIABLES
  m_values,   \* fast_hash_map::m_values, the buckets
  returned    \* what the last call returned

hmVars == <<m_values, returned>>

(* std::hash of an int is the int. *)
GetEntry(v) == v % BucketCount

(* The values of a bucket, or of a whole map m. *)
InBucket(bucket) == {bucket[n] : n \in DOMAIN bucket}
Contents(m) == UNION {InBucket(m[e]) : e \in DOMAIN m}

Find(v) == v \in InBucket(m_values[GetEntry(v)])

HmInit ==
  /\ m_values = [e \in 0..(BucketCount - 1) |-> <<>>]
  /\ returned = <<>>

HmInsert(v) ==
  LET e == GetEntry(v)
  IN  /\ returned' = <<~Find(v)>>
      /\ m_values' = IF Find(v) THEN m_values
                     ELSE [m_values EXCEPT ![e] = Append(@, v)]

(* The bucket without v, whose place the last value takes. *)
Removed(bucket, v) ==
  LET it == CHOOSE n \in DOMAIN bucket : bucket[n] = v
      swapped == [bucket EXCEPT ![it] = bucket[Len(bucket)]]
  IN  SubSeq(swapped, 1, Len(bucket) - 1)

HmRemove(v) ==
  LET e == GetEntry(v)
  IN  /\ returned' = <<Find(v)>>
      /\ m_values' = IF Find(v) THEN [m_values EXCEPT ![e] = Removed(@, v)]
                     ELSE m_values

-----------------------------------------------------------------------------
(* The lookups.  A query is a vector: its k-th value is q[k + 1].          *)

FindMultipleSimple(q) ==
  /\ returned' = [n \in DOMAIN q |-> Find(q[n])]
  /\ UNCHANGED m_values

(* Mutant: the ring is filled with the next hash before its own is used. *)
HashesAheadOfSearch(q) ==
  LET ring[i \in 0..Len(q)] ==
        IF i = 0 THEN [k \in 0..(LookAhead - 1) |-> GetEntry(q[k + 1])]
        ELSE LET j == (i - 1) + LookAhead
             IN  IF j >= Len(q) THEN ring[i - 1]
                 ELSE [ring[i - 1] EXCEPT ![j % LookAhead] = GetEntry(q[j + 1])]
  IN  [i \in 0..(Len(q) - 1) |-> ring[i + 1]]

(* The ring of hashes when the search is at i. *)
Hashes(q) ==
  LET ring[i \in 0..(Len(q) - 1)] ==
        IF i = 0 THEN [k \in 0..(LookAhead - 1) |-> GetEntry(q[k + 1])]
        ELSE LET j == (i - 1) + LookAhead
             IN  IF j >= Len(q) THEN ring[i - 1]
                 ELSE [ring[i - 1] EXCEPT ![j % LookAhead] = GetEntry(q[j + 1])]
  IN  ring

(* values.size() - look_ahead is unsigned: a query shorter than look_ahead *)
(* is read past its end, so there the function has no meaning.             *)
FindMultipleInterleave(q) ==
  /\ Len(q) >= LookAhead
  /\ returned' = [n \in DOMAIN q |->
       LET i == n - 1
       IN  IF i < Len(q) - LookAhead
           THEN q[n] \in InBucket(m_values[Hashes(q)[i][i % LookAhead]])
           ELSE Find(q[n])]
  /\ UNCHANGED m_values

(* Whole batches of look_ahead, then the rest one at a time. *)
FindMultipleBatch(q) ==
  LET len == (Len(q) \div LookAhead) * LookAhead
      HashesOf(i) == [k \in 0..(LookAhead - 1) |-> GetEntry(q[i + k + 1])]
  IN  /\ returned' = [n \in DOMAIN q |->
           LET j == n - 1
               i == j - (j % LookAhead)
           IN  IF j < len THEN q[n] \in InBucket(m_values[HashesOf(i)[j - i]])
               ELSE Find(q[n])]
      /\ UNCHANGED m_values

HmNext ==
  \/ \E v \in Values : HmInsert(v) \/ HmRemove(v)
  \/ \E q \in Queries :
       FindMultipleSimple(q) \/ FindMultipleInterleave(q) \/ FindMultipleBatch(q)

HmSpec == HmInit /\ [][HmNext]_hmVars

-----------------------------------------------------------------------------
Abstract == INSTANCE ValueSet WITH values <- Contents(m_values), answer <- returned

(* The hash map is a set: insert and remove say whether they changed it,   *)
(* and the three lookups of many values give the same answers, those of    *)
(* the set, whatever the hashes prefetched and in whatever order.          *)
IsASet == Abstract!Spec

=============================================================================
