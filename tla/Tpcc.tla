-------------------------------- MODULE Tpcc --------------------------------
(***************************************************************************)
(* TPC-C on the runtime: NewOrder and Payment.  The rows a transaction     *)
(* reads and writes are cowns named in its when, so that what its lambda   *)
(* does to them is one step here (Isolation, proved in RuntimeProofs, is   *)
(* what allows it).  The tables that NewOrder inserts into are not cowns:  *)
(* lambdas of different districts insert at the same time, and a table's   *)
(* cnt is a plain integer that they race on.                               *)
(*                                                                         *)
(* A row of those tables is represented by the ids its columns hold.       *)
(***************************************************************************)
EXTENDS Integers, Sequences, FiniteSets, Functions

CONSTANTS
  NumWarehouses,          \* NUM_WAREHOUSES
  DistrictsPerWarehouse,  \* DISTRICTS_PER_WAREHOUSE
  InitialOrders,          \* INITIAL_ORDERS_PER_DISTRICT; d_next_o_id is one more
  InitialNewOrders,       \* INITIAL_NEW_ORDERS_PER_DISTRICT
  MaxOrders,              \* MAX_ORDER_TRANSACTIONS
  InitialLines,           \* o_ol_cnt of the loader's orders
  CustomersPerDistrict,   \* CUSTOMERS_PER_DISTRICT
  NumItems,               \* NUM_ITEMS
  StockPerWarehouse,      \* STOCK_PER_WAREHOUSE
  InitialQuantities,      \* the s_quantity that the loader draws from
  WarehouseSplit,         \* WAREHOUSE_SPLIT
  Workers,
  Log                     \* [type, w_id, d_id, c_id, lines, h_amount]

Warehouses == 1..NumWarehouses
Districts  == Warehouses \X (1..DistrictsPerWarehouse)
Customers  == 1..CustomersPerDistrict
Items      == 1..NumItems
Stocks     == Warehouses \X Items

(* TPCCTransactionMarshalled; params[50] and [51] are the number of lines. *)
LogEntry ==
  [type : {"NewOrder", "Payment"}, w_id : Warehouses, d_id : 1..DistrictsPerWarehouse,
   c_id : Customers, lines : Seq([i_w_id : Warehouses, i_id : Items, qty : 1..10]),
   h_amount : Nat]

(* What generate_tpcc.py puts into an entry: an order is for up to 15      *)
(* distinct items and pays nothing, a payment has no lines.                *)
NewOrderParams(t) ==
  /\ t.type = "NewOrder" /\ t.h_amount = 0 /\ Len(t.lines) \in 1..15
  /\ \A k, l \in 1..Len(t.lines) : k # l => t.lines[k].i_id # t.lines[l].i_id
PaymentParams(t) == t.type = "Payment" /\ t.lines = <<>>

ASSUME TpccAssumption ==
  /\ {NumWarehouses, DistrictsPerWarehouse, InitialOrders, InitialNewOrders, MaxOrders,
      InitialLines, CustomersPerDistrict, NumItems, StockPerWarehouse} \subseteq Nat
  /\ NumItems <= StockPerWarehouse          \* generateStocks has one per item
  /\ InitialQuantities \subseteq 10..100     \* generateStocks
  /\ WarehouseSplit \in BOOLEAN
  /\ Log \in Seq(LogEntry)
  /\ \A n \in 1..Len(Log) : NewOrderParams(Log[n]) \/ PaymentParams(Log[n])

VARIABLES
  spawned, cownsOf, joining, queue, running, finished,   \* the runtime's
  w_ytd,       \* per warehouse
  district,    \* per district: d_ytd, d_next_o_id
  customer,    \* per customer: c_balance, c_ytd_payment, c_payment_cnt
  stock,       \* per stock: s_quantity, s_ytd, s_order_cnt, s_remote_cnt
  map,         \* per table that grows, its rows
  cnt,         \* per table that grows, its cnt
  inserts,     \* per worker, the insert_rows its lambda has yet to do
  seen,        \* per worker, the cnt that insert_row has read, or -1
  tx_cnt       \* per worker, TxCounter's tx_cnt

runtimeVars == <<spawned, cownsOf, joining, queue, running, finished>>
rowVars == <<w_ytd, district, customer, stock>>
tableVars == <<map, cnt, inserts, seen>>
vars == <<runtimeVars, rowVars, tableVars, tx_cnt>>

-----------------------------------------------------------------------------
(* Keys and tables. *)

OrdersPerDistrict == InitialOrders + MaxOrders

(* Order::hash_key, and NewOrder's. *)
OrderKey(w, d, o) ==
  (w - 1) * DistrictsPerWarehouse * OrdersPerDistrict + (d - 1) * OrdersPerDistrict
    + (o - 1)

(* OrderLine::hash_key. *)
OrderLineKey(w, d, o, number) == OrderKey(w, d, o) * 15 + (number - 1)

(* Mutant: the factor 30 is left out of one table's size. *)
TableSizeTight ==
  [order      |-> NumWarehouses * DistrictsPerWarehouse * OrdersPerDistrict * 30,
   new_order  |-> NumWarehouses * DistrictsPerWarehouse * (InitialNewOrders + MaxOrders),
   order_line |-> NumWarehouses * DistrictsPerWarehouse * OrdersPerDistrict * 30 * 30]

(* TSIZE_ORDER, TSIZE_NEW_ORDER, TSIZE_ORDER_LINE. *)
TableSize ==
  [order      |-> NumWarehouses * DistrictsPerWarehouse * OrdersPerDistrict * 30,
   new_order  |-> NumWarehouses * DistrictsPerWarehouse * (InitialNewOrders + MaxOrders) * 30,
   order_line |-> NumWarehouses * DistrictsPerWarehouse * OrdersPerDistrict * 30 * 30]

(* map[key] = row *)
Put(rows, key, row) ==
  [k \in DOMAIN rows \cup {key} |-> IF k = key THEN row ELSE rows[k]]

(* What the loader leaves in the tables that grow: generateOrders-         *)
(* AndOrderLines fills two of them, and nobody the table of new orders.    *)
LoadedOrders ==
  {<<w, d, o>> : w \in Warehouses, d \in 1..DistrictsPerWarehouse, o \in 1..InitialOrders}
LoadedLines == {<<p, n>> : p \in LoadedOrders, n \in 1..InitialLines}

LoadedMap ==
  [order |-> [k \in {OrderKey(p[1], p[2], p[3]) : p \in LoadedOrders} |->
                CHOOSE p \in LoadedOrders : OrderKey(p[1], p[2], p[3]) = k],
   new_order |-> [k \in {} |-> <<>>],
   order_line |-> [k \in {OrderLineKey(l[1][1], l[1][2], l[1][3], l[2]) : l \in LoadedLines} |->
                     LET l == CHOOSE l \in LoadedLines :
                                OrderLineKey(l[1][1], l[1][2], l[1][3], l[2]) = k
                     IN  <<l[1][1], l[1][2], l[1][3], l[2]>>]]

LoadedCnt ==
  [order |-> NumWarehouses * DistrictsPerWarehouse * InitialOrders,
   new_order |-> 0,
   order_line |-> NumWarehouses * DistrictsPerWarehouse * InitialOrders * InitialLines]

(* The rows of generateWarehouses, generateDistricts, generateCustomer-    *)
(* AndHistory and generateStocks.                                          *)
LoadedYtd == 300000
LoadedDistrict == [d_ytd |-> LoadedYtd, d_next_o_id |-> InitialOrders + 1]
LoadedCustomer == [c_balance |-> -10, c_ytd_payment |-> 10, c_payment_cnt |-> 1]
LoadedStocks ==
  [s_quantity : InitialQuantities, s_ytd : {0}, s_order_cnt : {0}, s_remote_cnt : {0}]

-----------------------------------------------------------------------------
(* The whens of parse_and_process.  With WAREHOUSE_SPLIT an entry of the   *)
(* log makes two behaviours, of which the first adds to w_ytd.             *)

NumBehaviours == IF WarehouseSplit THEN 2 * Len(Log) ELSE Len(Log)
EntryOf(b) == Log[IF WarehouseSplit THEN (b + 1) \div 2 ELSE b]
IsWarehouseOp(b) == WarehouseSplit /\ b % 2 = 1

Stock(line) == <<line.i_w_id, line.i_id>>

(***************************************************************************)
(* The rows that are cowns, and their addresses in units of 1024 bytes:    *)
(* with SINGLE_TABLE main allocates all tables in one piece, one after the *)
(* other, and the loader puts every row at its hash key.  A customer takes *)
(* two units.                                                              *)
(***************************************************************************)
HashKey(row) ==
  CASE row.table = "warehouse" -> row.id[1] - 1
    [] row.table = "district" -> (row.id[1] - 1) * DistrictsPerWarehouse + (row.id[2] - 1)
    [] row.table = "customer" ->
         (row.id[1] - 1) * DistrictsPerWarehouse * CustomersPerDistrict
           + (row.id[2] - 1) * CustomersPerDistrict + (row.id[3] - 1)
    [] row.table = "stock" -> (row.id[1] - 1) * StockPerWarehouse + (row.id[2] - 1)
    [] row.table = "item" -> row.id[1] - 1

(* Mutant: a customer is taken for one unit. *)
TableAddrNarrow ==
  LET districts == NumWarehouses * DistrictsPerWarehouse
      customer_ == NumWarehouses + districts
      stock_ == customer_ + districts * CustomersPerDistrict
  IN  [warehouse |-> 0, district |-> NumWarehouses, customer |-> customer_,
       stock |-> stock_, item |-> stock_ + NumWarehouses * StockPerWarehouse]

(* tpcc_arr_addr_warehouse and the others. *)
TableAddr ==
  LET districts == NumWarehouses * DistrictsPerWarehouse
      customer_ == NumWarehouses + districts
      stock_ == customer_ + 2 * districts * CustomersPerDistrict
  IN  [warehouse |-> 0, district |-> NumWarehouses, customer |-> customer_,
       stock |-> stock_, item |-> stock_ + NumWarehouses * StockPerWarehouse]

RowAddr(row) ==
  TableAddr[row.table] + (IF row.table = "customer" THEN 2 ELSE 1) * HashKey(row)

Row(table, id) == [table |-> table, id |-> id]

(* Mutant: WHEN_PARAMS without the district. *)
WhenParamsWithoutDistrict(t) ==
  {Row("customer", <<t.w_id, t.d_id, t.c_id>>)}
    \cup {Row("stock", Stock(t.lines[k])) : k \in 1..Len(t.lines)}
    \cup {Row("item", <<t.lines[k].i_id>>) : k \in 1..Len(t.lines)}

(* The rows of a when, but for the warehouse's. *)
WhenParams(t) ==
  {Row("district", <<t.w_id, t.d_id>>), Row("customer", <<t.w_id, t.d_id, t.c_id>>)}
    \cup {Row("stock", Stock(t.lines[k])) : k \in 1..Len(t.lines)}
    \cup {Row("item", <<t.lines[k].i_id>>) : k \in 1..Len(t.lines)}

RowsOf(b) ==
  LET t == EntryOf(b)
      w == {Row("warehouse", <<t.w_id>>)}
  IN  IF IsWarehouseOp(b) THEN w
      ELSE IF WarehouseSplit THEN WhenParams(t) ELSE WhenParams(t) \cup w

(* prepare_cowns stores the rows' addresses, and the when is on these. *)
When(b) == {RowAddr(row) : row \in RowsOf(b)}

INSTANCE Runtime WITH Cowns <- UNION {When(b) : b \in 1..NumBehaviours},
                      NumTxns <- NumBehaviours,
                      Whens <- {When(b) : b \in 1..NumBehaviours}

-----------------------------------------------------------------------------
Init ==
  /\ RtInit
  /\ w_ytd = [w \in Warehouses |-> LoadedYtd]
  /\ district = [d \in Districts |-> LoadedDistrict]
  /\ customer = [c \in Districts \X Customers |-> LoadedCustomer]
  /\ stock \in [Stocks -> LoadedStocks]
  /\ map = LoadedMap /\ cnt = LoadedCnt
  /\ inserts = [w \in Workers |-> <<>>] /\ seen = [w \in Workers |-> -1]
  /\ tx_cnt = [w \in Workers |-> 0]

ParseAndProcess ==
  /\ spawned < NumBehaviours
  /\ Spawn(When(spawned + 1))
  /\ UNCHANGED <<rowVars, tableVars, tx_cnt>>

Join(c) == Exchange(c) /\ UNCHANGED <<rowVars, tableVars, tx_cnt>>

(* Mutant: 10 pieces left are too few, too, and it is checked first. *)
RestockFirst(q, qty) == (IF q < 10 THEN q + 91 ELSE q) - qty

(* UPDATE_STOCK's arithmetic on s_quantity, which is unsigned. *)
Restock(q, qty) == IF q - qty < 10 THEN q - qty + 91 ELSE q - qty

(* UPDATE_STOCK for every line of the order; it compares the number of     *)
(* lines, params[51], with 1.                                              *)
UpdateStock(s, t) ==
  [x \in Stocks |->
     LET ks == {k \in 1..Len(t.lines) : Stock(t.lines[k]) = x} IN
     IF ks = {} THEN s[x]
     ELSE LET qty == t.lines[CHOOSE k \in ks : TRUE].qty IN
          [s_quantity   |-> Restock(s[x].s_quantity, qty),
           s_ytd        |-> s[x].s_ytd + qty,
           s_order_cnt  |-> s[x].s_order_cnt + 1,
           s_remote_cnt |-> s[x].s_remote_cnt + IF Len(t.lines) = 1 THEN 1 ELSE 0]]

(* INSERT_ORDER_LINE, which takes the order's hash key for its id. *)
InsertOrderLine(t, hash, n) ==
  [table |-> "order_line", key |-> OrderLineKey(t.w_id, t.d_id, hash, n),
   row |-> <<t.w_id, t.d_id, hash, n>>]

(* NEWORDER_END. *)
NewOrderEnd(t, o, hash) ==
  << [table |-> "order", key |-> hash, row |-> <<t.w_id, t.d_id, o>>],
     [table |-> "new_order", key |-> hash, row |-> <<t.w_id, t.d_id, o>>] >>

(* The insert_rows of a NewOrder with order id o. *)
NewOrderInserts(t, o) ==
  LET hash == OrderKey(t.w_id, t.d_id, o)
  IN  [n \in 1..Len(t.lines) |-> InsertOrderLine(t, hash, n)] \o NewOrderEnd(t, o, hash)

(* WAREHOUSE_OP. *)
AddToWarehouse(t) == w_ytd' = [w_ytd EXCEPT ![t.w_id] = @ + t.h_amount]

(* A worker enters a lambda that only adds to w_ytd. *)
EnterWarehouse(w, b) ==
  /\ Start(w, b) /\ IsWarehouseOp(b)
  /\ AddToWarehouse(EntryOf(b))
  /\ UNCHANGED <<district, customer, stock, tableVars, tx_cnt>>

(* A worker enters a NewOrder and updates its rows. *)
EnterNewOrder(w, b) ==
  LET t == EntryOf(b)
      d == <<t.w_id, t.d_id>>
  IN  /\ Start(w, b) /\ ~IsWarehouseOp(b) /\ t.type = "NewOrder"
      /\ IF WarehouseSplit THEN w_ytd' = w_ytd ELSE AddToWarehouse(t)
      /\ district' = [district EXCEPT ![d].d_next_o_id = @ + 1]
      /\ stock' = UpdateStock(stock, t)
      /\ inserts' = [inserts EXCEPT ![w] = NewOrderInserts(t, district[d].d_next_o_id)]
      /\ UNCHANGED <<customer, map, cnt, seen, tx_cnt>>

(* Mutant: the district is credited, and the warehouse twice. *)
EnterPaymentTwice(w, b) ==
  LET t == EntryOf(b)
      d == <<t.w_id, t.d_id>>
  IN  /\ Start(w, b) /\ ~IsWarehouseOp(b) /\ t.type = "Payment"
      /\ AddToWarehouse(t)
      /\ district' = [district EXCEPT ![d].d_ytd = @ + t.h_amount]
      /\ customer' = [customer EXCEPT ![<<d, t.c_id>>] =
                        [c_balance |-> @.c_balance - t.h_amount,
                         c_ytd_payment |-> @.c_ytd_payment + t.h_amount,
                         c_payment_cnt |-> @.c_payment_cnt + 1]]
      /\ UNCHANGED <<stock, tableVars, tx_cnt>>

(* A worker enters a Payment and updates its rows. *)
EnterPayment(w, b) ==
  LET t == EntryOf(b)
      d == <<t.w_id, t.d_id>>
  IN  /\ Start(w, b) /\ ~IsWarehouseOp(b) /\ t.type = "Payment"
      /\ IF WarehouseSplit THEN w_ytd' = w_ytd ELSE AddToWarehouse(t)
      /\ district' = [district EXCEPT ![d].d_ytd = @ + t.h_amount]
      /\ customer' = [customer EXCEPT ![<<d, t.c_id>>] =
                        [c_balance |-> @.c_balance - t.h_amount,
                         c_ytd_payment |-> @.c_ytd_payment + t.h_amount,
                         c_payment_cnt |-> @.c_payment_cnt + 1]]
      /\ UNCHANGED <<stock, tableVars, tx_cnt>>

(* insert_row, first half: cnt is compared with the table's size.  A full  *)
(* table throws, and the process ends.                                     *)
InsertCheck(w) ==
  /\ inserts[w] # <<>> /\ seen[w] = -1
  /\ cnt[Head(inserts[w]).table] < TableSize[Head(inserts[w]).table]
  /\ seen' = [seen EXCEPT ![w] = cnt[Head(inserts[w]).table]]
  /\ UNCHANGED <<map, cnt, inserts, runtimeVars, rowVars, tx_cnt>>

(* Mutant: cnt is incremented in two places. *)
InsertStoreTwice(w) ==
  LET i == Head(inserts[w]) IN
  /\ seen[w] # -1
  /\ map' = [map EXCEPT ![i.table] = Put(@, i.key, i.row)]
  /\ cnt' = [cnt EXCEPT ![i.table] = seen[w] + 2]
  /\ seen' = [seen EXCEPT ![w] = -1]
  /\ inserts' = [inserts EXCEPT ![w] = Tail(@)]
  /\ UNCHANGED <<runtimeVars, rowVars, tx_cnt>>

(* Second half: the row is stored, and cnt is one more than what was read. *)
InsertStore(w) ==
  LET i == Head(inserts[w]) IN
  /\ seen[w] # -1
  /\ map' = [map EXCEPT ![i.table] = Put(@, i.key, i.row)]
  /\ cnt' = [cnt EXCEPT ![i.table] = seen[w] + 1]
  /\ seen' = [seen EXCEPT ![w] = -1]
  /\ inserts' = [inserts EXCEPT ![w] = Tail(@)]
  /\ UNCHANGED <<runtimeVars, rowVars, tx_cnt>>

(* Mutant: the lambda returns before its last insert_row. *)
LeaveEarly(w) ==
  /\ Len(inserts[w]) <= 1 /\ seen[w] = -1
  /\ running[w] # 0
  /\ tx_cnt' = IF IsWarehouseOp(running[w]) THEN tx_cnt ELSE [tx_cnt EXCEPT ![w] = @ + 1]
  /\ inserts' = [inserts EXCEPT ![w] = <<>>]
  /\ Finish(w)
  /\ UNCHANGED <<rowVars, map, cnt, seen>>

(* The lambda counts its transaction and returns. *)
Leave(w) ==
  /\ inserts[w] = <<>>
  /\ running[w] # 0
  /\ tx_cnt' = IF IsWarehouseOp(running[w]) THEN tx_cnt ELSE [tx_cnt EXCEPT ![w] = @ + 1]
  /\ Finish(w)
  /\ UNCHANGED <<rowVars, tableVars>>

Done == AllDone /\ UNCHANGED vars

Next ==
  \/ ParseAndProcess
  \/ \E c \in joining : Join(c)
  \/ \E w \in Workers :
       \/ \E b \in Txns : EnterWarehouse(w, b) \/ EnterNewOrder(w, b) \/ EnterPayment(w, b)
       \/ InsertCheck(w) \/ InsertStore(w) \/ Leave(w)
  \/ Done

Spec == Init /\ [][Next]_vars

-----------------------------------------------------------------------------
(***************************************************************************)
(* Properties.                                                             *)
(***************************************************************************)

(* s_quantity is unsigned and is decremented before it is compared with    *)
(* 10: it never wraps, and stays between 10 and 100 pieces.                *)
StockInRange == \A x \in Stocks : stock[x].s_quantity \in 10..100

(* The orders of a district that a lambda has yet to insert. *)
Unfinished(d, table) ==
  {o \in (InitialOrders + 1)..(district[d].d_next_o_id - 1) :
     \E w \in Workers : \E n \in 1..Len(inserts[w]) :
       inserts[w][n].table = table /\ inserts[w][n].row = <<d[1], d[2], o>>}

(* The order ids a district gives out are consecutive and none is lost:    *)
(* each is in both tables at its key, or about to be.  This holds until a  *)
(* district has had MAX_ORDER_TRANSACTIONS new orders.                     *)
OrdersComplete ==
  (\A d \in Districts : district[d].d_next_o_id <= OrdersPerDistrict + 1) =>
    \A d \in Districts, table \in {"order", "new_order"} :
      \A o \in ((InitialOrders + 1)..(district[d].d_next_o_id - 1)) \ Unfinished(d, table) :
        LET key == OrderKey(d[1], d[2], o) IN
        key \in DOMAIN map[table] /\ map[table][key] = <<d[1], d[2], o>>

(* insert_row checks cnt but not the key: no lambda writes past the end of *)
(* a table.                                                                *)
KeysInTable ==
  \A w \in Workers : \A n \in 1..Len(inserts[w]) :
    inserts[w][n].key \in 0..(TableSize[inserts[w][n].table] - 1)

(* The insert_rows into a table that behaviour b has done so far. *)
InsertedBy(b, table) ==
  LET all == IF table = "order_line" THEN Len(EntryOf(b).lines) ELSE 1
      ws == {w \in Workers : running[w] = b}
      left == LET s == inserts[CHOOSE w \in ws : TRUE]
              IN  Cardinality({k \in 1..Len(s) : s[k].table = table})
  IN  IF IsWarehouseOp(b) \/ EntryOf(b).type # "NewOrder" THEN 0
      ELSE IF b \in finished THEN all
      ELSE IF ws = {} THEN 0 ELSE all - left

Inserted(table) ==
  SumFunctionOnSet([b \in 1..NumBehaviours |-> InsertedBy(b, table)], 1..NumBehaviours)

(* Lambdas race on cnt, and increments may be lost, but cnt never exceeds  *)
(* what was inserted: insert_row never throws while there is room.         *)
CntAtMostInserted ==
  \A table \in DOMAIN cnt : cnt[table] <= LoadedCnt[table] + Inserted(table)

(* The behaviour that executes entry n of the log, and the one that adds   *)
(* to its warehouse; without WAREHOUSE_SPLIT they are the same.            *)
MainOf(n) == IF WarehouseSplit THEN 2 * n ELSE n
PayerOf(n) == IF WarehouseSplit THEN 2 * n - 1 ELSE n

(* A worker has entered the lambda of behaviour b. *)
Begun(b) == b \in finished \/ \E w \in Workers : running[w] = b

EntriesOf(x) == {n \in 1..Len(Log) : Log[n].w_id = x}
PaidToWarehouse(x) == {n \in EntriesOf(x) : Begun(PayerOf(n))}
PaidToDistricts(x) == {n \in EntriesOf(x) : Begun(MainOf(n))}
Amount == [n \in 1..Len(Log) |-> Log[n].h_amount]

(* What the districts of a warehouse have received since they were loaded. *)
DistrictsYtd(x) == [k \in 1..DistrictsPerWarehouse |-> district[<<x, k>>].d_ytd - LoadedYtd]

(* With WAREHOUSE_SPLIT a payment is two lambdas that run in either order, *)
(* others' between them.  At any time a warehouse and its districts have   *)
(* received the same but for the payments of which one half only has been  *)
(* made: none is made twice, to another warehouse, or never.               *)
YtdConsistent ==
  \A x \in Warehouses :
    LET w == PaidToWarehouse(x)
        d == PaidToDistricts(x)
    IN  w_ytd[x] - LoadedYtd + SumFunctionOnSet(Amount, d \ w)
          = SumFunctionOnSet(DistrictsYtd(x), 1..DistrictsPerWarehouse)
              + SumFunctionOnSet(Amount, w \ d)

(* The order id that a serial execution of the log gives entry n. *)
SerialOrderId(n) ==
  InitialOrders + 1 +
    Cardinality({k \in 1..(n - 1) : /\ Log[k].type = "NewOrder"
                                    /\ Log[k].w_id = Log[n].w_id
                                    /\ Log[k].d_id = Log[n].d_id})

(* README: "given exactly the same input, it will produce the same output  *)
(* via parallel execution".  Whatever the interleaving, every NewOrder     *)
(* inserts the order id that the serial execution of the log gives it.     *)
SameOrderIds ==
  \A w \in Workers :
    running[w] # 0 /\ inserts[w] # <<>> =>
      LET n == IF WarehouseSplit THEN (running[w] + 1) \div 2 ELSE running[w]
          last == inserts[w][Len(inserts[w])]
      IN  last.row = <<Log[n].w_id, Log[n].d_id, SerialOrderId(n)>>

(* Behaviours wait for each other only when they name the same row: no two *)
(* rows are at one address, so that the cowns of the one big table are as  *)
(* many as its rows, whatever table they are in.                           *)
ConflictsShareRows ==
  \A b, c \in 1..spawned : Conflict(b, c) => RowsOf(b) \cap RowsOf(c) # {}

(* tables.hpp: an order line's "primary key: (w_id, d_id, o_id, number)":  *)
(* no order line of the loader's is replaced by another order's.           *)
OrderLinesKept ==
  \A l \in LoadedLines :
    map.order_line[OrderLineKey(l[1][1], l[1][2], l[1][3], l[2])]
      = <<l[1][1], l[1][2], l[1][3], l[2]>>

=============================================================================
