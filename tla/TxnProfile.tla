----------------------------- MODULE TxnProfile -----------------------------
(***************************************************************************)
(* txn_profile, app/txn_profile.cpp: a YCSB transaction without runtime,   *)
(* to time it.  The body is there three times: as a loop over the rows, as *)
(* a fold of a lambda over the rows' pointers (the one main calls), and    *)
(* unrolled.                                                               *)
(***************************************************************************)
EXTENDS Integers, Sequences
LOCAL INSTANCE SequencesExt

CONSTANTS
  DbSize,      \* DB_SIZE
  RowsPerTx,   \* ROWS_PER_TX
  RowSize, WriteSize, ByteMod,
  BatchSize    \* BATCH_SIZE

ASSUME TxnProfileAssumption ==
  /\ DbSize \in Nat \ {0} /\ RowsPerTx \in Nat \ {0, 1} /\ BatchSize \in Nat
  /\ RowSize \in Nat /\ WriteSize \in 0..RowSize /\ ByteMod \in Nat \ {0}

VARIABLES
  variant,     \* the body that main was built with
  rows,        \* the database
  batch,       \* transactions done
  drawn,       \* are indices and write_set those of a transaction to do?
  indices,     \* the rows of the transaction
  write_set    \* a bit mask

tpVars == <<variant, rows, batch, drawn, indices, write_set>>

Db == 0..(DbSize - 1)
S == INSTANCE SerialExecution WITH Rows <- Db, db <- rows, executed <- batch, Log <- <<>>

-----------------------------------------------------------------------------
(* gen_random_write_set: two bits that differ. *)
RandomWriteSets ==
  {2^a + 2^b : a \in 0..(RowsPerTx - 1), b \in 0..(RowsPerTx - 1)}
    \ {2 * 2^a : a \in 0..(RowsPerTx - 1)}

(* gen_random_txn: a number that is already in ret is not stored, and the  *)
(* slot keeps what the uninitialized array had there.  Garbage that is not *)
(* the index of a row has no meaning: the body would leave the vector.     *)
GenRandomTxn(numbers, garbage) ==
  LET ret[n \in 0..RowsPerTx] ==
        IF n = 0 THEN garbage
        ELSE IF \E k \in 1..RowsPerTx : ret[n - 1][k] = numbers[n] THEN ret[n - 1]
        ELSE [ret[n - 1] EXCEPT ![n] = numbers[n]]
  IN  ret[RowsPerTx]

RandomTxns ==
  {GenRandomTxn(numbers, garbage) : numbers \in [1..RowsPerTx -> Db],
                                    garbage \in [1..RowsPerTx -> Db]}

-----------------------------------------------------------------------------
(* The body on one row; s is what the body has: the mask, the sum and the  *)
(* rows.                                                                   *)
ProcessEachRow(s, row) ==
  LET shifted == [s EXCEPT !.ws = @ \div 2]
  IN  IF s.ws % 2 = 1 THEN [shifted EXCEPT !.rows[row] = S!Memset(@, s.sum)]
      ELSE [shifted EXCEPT !.sum = (@ + S!SumOf(s.rows[row])) % ByteMod]

Begin(d, ws) == [ws |-> ws, sum |-> 0, rows |-> d]

(* The loop over the indices. *)
ProcessTxn(d, ws, idx) ==
  LET at[n \in 0..RowsPerTx] ==
        IF n = 0 THEN Begin(d, ws) ELSE ProcessEachRow(at[n - 1], idx[n])
  IN  at[RowsPerTx].rows

(* Mutant: the fold that the source keeps under #if 0 as wrong: one look   *)
(* at the mask for all rows.                                               *)
ProcessTxnClosureOneMask(d, ws, idx) ==
  FoldLeft(LAMBDA s, row : [ProcessEachRow(s, row) EXCEPT !.ws = ws],
           Begin(d, ws), idx).rows

(* The pointers of all rows, and a fold of process_each_row over them with *)
(* the mask by reference.                                                  *)
ProcessTxnClosure(d, ws, idx) == FoldLeft(ProcessEachRow, Begin(d, ws), idx).rows

(* Straight-line code: the block for row n sees the mask shifted n times,  *)
(* and the sum that the blocks before left.                                *)
ProcessTxnUnfold(d, ws, idx) ==
  LET Block(s, row, n) ==
        IF (ws \div 2^n) % 2 = 1 THEN [s EXCEPT !.rows[row] = S!Memset(@, s.sum)]
        ELSE [s EXCEPT !.sum = (@ + S!SumOf(s.rows[row])) % ByteMod]
      after[n \in 0..RowsPerTx] ==
        IF n = 0 THEN Begin(d, ws) ELSE Block(after[n - 1], idx[n], n - 1)
  IN  after[RowsPerTx].rows

-----------------------------------------------------------------------------
(* main: the rows that are pushed are uninitialized. *)
TpInit ==
  /\ variant \in {"loop", "closure", "unfold"}
  /\ rows \in [Db -> S!Payload]
  /\ batch = 0 /\ drawn = FALSE
  /\ indices = [n \in 1..RowsPerTx |-> 0] /\ write_set = 0

Draw ==
  /\ batch < BatchSize /\ ~drawn
  /\ write_set' \in RandomWriteSets /\ indices' \in RandomTxns
  /\ drawn' = TRUE
  /\ UNCHANGED <<variant, rows, batch>>

Process ==
  /\ drawn
  /\ rows' = CASE variant = "loop" -> ProcessTxn(rows, write_set, indices)
               [] variant = "closure" -> ProcessTxnClosure(rows, write_set, indices)
               [] variant = "unfold" -> ProcessTxnUnfold(rows, write_set, indices)
  /\ batch' = batch + 1 /\ drawn' = FALSE
  /\ UNCHANGED <<variant, indices, write_set>>

TpExit == batch = BatchSize /\ UNCHANGED tpVars

TpNext == Draw \/ Process \/ TpExit

-----------------------------------------------------------------------------
Distinct == \A n, k \in 1..RowsPerTx : indices[n] = indices[k] => n = k

(* The log entry that asks for the same. *)
AsLogEntry ==
  [indices |-> indices,
   write_set |-> [n \in 1..RowsPerTx |-> (write_set \div 2^(n - 1)) % 2 = 1]]

(* The profile times what it claims to time: the three bodies do the same  *)
(* to the rows, also when a transaction names a row twice and the          *)
(* references of the closure and the unfolded body alias, and when its     *)
(* rows are distinct they do what the application's TXN macros do.         *)
ProfilesYcsb ==
  [][drawn => /\ rows' = ProcessTxn(rows, write_set, indices)
              /\ Distinct => rows' = S!Execute(rows, AsLogEntry)]_tpVars

=============================================================================
