----------------------------- MODULE TpccProofs ------------------------------
(***************************************************************************)
(* TPC-C, for any number of warehouses, workers and transactions.  Every   *)
(* step of Tpcc is a step of the runtime or leaves the runtime alone, so   *)
(* that what RuntimeProofs proves of behaviours holds of NewOrders and     *)
(* Payments: the rows that a lambda names are its own while it runs, and   *)
(* lambdas that share one run in the order of the log.  From this follow   *)
(* the properties of rows (quantities, order ids, payments); those of the  *)
(* tables that grow, which are no cowns, need what each lambda has yet to  *)
(* insert.                                                                 *)
(***************************************************************************)
EXTENDS Tpcc, SumTheorems, SequenceTheorems

RP == INSTANCE RuntimeProofs WITH Cowns <- UNION {When(b) : b \in 1..NumBehaviours},
                                  NumTxns <- NumBehaviours,
                                  Whens <- {When(b) : b \in 1..NumBehaviours}

(* The stock rows keep their columns, and s_quantity its range. *)
StockInv ==
  stock \in [Stocks -> [s_quantity : 10..100, s_ytd : Nat,
                        s_order_cnt : Nat, s_remote_cnt : Nat]]

-----------------------------------------------------------------------------
(* An order of 1 to 10 pieces leaves 10 to 100 of them: what was taken     *)
(* below 10 is raised by 91, to at most 100.                               *)
LEMMA RestockInRange ==
  ASSUME NEW q \in 10..100, NEW qty \in 1..10
  PROVE  Restock(q, qty) \in 10..100
BY DEF Restock

(* UPDATE_STOCK on all lines of an order of the log keeps the rows typed. *)
LEMMA UpdateStockTyped ==
  ASSUME StockInv, NEW n \in 1..Len(Log)
  PROVE  UpdateStock(stock, Log[n])
           \in [Stocks -> [s_quantity : 10..100, s_ytd : Nat,
                           s_order_cnt : Nat, s_remote_cnt : Nat]]
<1> DEFINE t == Log[n]
           ks(x) == {k \in 1..Len(t.lines) : Stock(t.lines[k]) = x}
           row(x) == UpdateStock(stock, t)[x]
<1> SUFFICES ASSUME NEW x \in Stocks
             PROVE  row(x) \in [s_quantity : 10..100, s_ytd : Nat,
                                s_order_cnt : Nat, s_remote_cnt : Nat]
  BY DEF UpdateStock
<1>1. stock[x] \in [s_quantity : 10..100, s_ytd : Nat,
                    s_order_cnt : Nat, s_remote_cnt : Nat]
  BY DEF StockInv
<1>2. CASE ks(x) = {}
  <2>1. row(x) = stock[x]
    BY <1>2 DEF UpdateStock
  <2> QED
    BY <1>1, <2>1
<1>3. CASE ks(x) # {}
  <2> DEFINE k == CHOOSE k \in ks(x) : TRUE
             qty == t.lines[k].qty
  <2>1. k \in ks(x)
    BY <1>3
  <2>2. qty \in 1..10
    <3> DEFINE lineSet == [i_w_id : Warehouses, i_id : Items, qty : 1..10]
    <3>1. Log \in Seq(LogEntry)
      BY TpccAssumption
    <3>2. t \in LogEntry
      BY <3>1
    <3>3. k \in 1..Len(t.lines)
      BY <2>1
    <3> HIDE DEF lineSet, t, k
    <3>4. t.lines \in Seq(lineSet)
      BY <3>2 DEF LogEntry, lineSet
    <3>5. t.lines[k] \in lineSet
      BY <3>3, <3>4
    <3> QED
      BY <3>5 DEF lineSet
  <2>3. row(x) = [s_quantity   |-> Restock(stock[x].s_quantity, qty),
                  s_ytd        |-> stock[x].s_ytd + qty,
                  s_order_cnt  |-> stock[x].s_order_cnt + 1,
                  s_remote_cnt |-> stock[x].s_remote_cnt
                                     + IF Len(t.lines) = 1 THEN 1 ELSE 0]
    BY <1>3 DEF UpdateStock
  <2> HIDE DEF qty
  <2>4. Restock(stock[x].s_quantity, qty) \in 10..100
    BY <1>1, <2>2, RestockInRange
  <2>5. /\ stock[x].s_ytd + qty \in Nat
        /\ stock[x].s_order_cnt + 1 \in Nat
        /\ stock[x].s_remote_cnt + (IF Len(t.lines) = 1 THEN 1 ELSE 0) \in Nat
    <3>1. stock[x].s_ytd \in Nat /\ stock[x].s_order_cnt \in Nat /\ stock[x].s_remote_cnt \in Nat
      BY <1>1
    <3>2. qty \in Nat
      BY <2>2
    <3>3. PICK z : z = (IF Len(t.lines) = 1 THEN 1 ELSE 0)
      OBVIOUS
    <3>4. z \in Nat
      BY ONLY <3>3
    <3>5. stock[x].s_remote_cnt + z \in Nat
      BY ONLY <3>1, <3>4
    <3>6. stock[x].s_ytd + qty \in Nat /\ stock[x].s_order_cnt + 1 \in Nat
      BY ONLY <3>1, <3>2
    <3> QED
      BY ONLY <3>3, <3>5, <3>6
  <2> QED
    BY <2>3, <2>4, <2>5
<1> QED
  BY <1>2, <1>3

(* The entry of the log that a behaviour executes. *)
LEMMA EntryOfInLog ==
  ASSUME NEW b \in Txns
  PROVE  \E n \in 1..Len(Log) : EntryOf(b) = Log[n]
<1>1. WarehouseSplit \in BOOLEAN /\ Len(Log) \in Nat
  BY TpccAssumption
<1>2. CASE WarehouseSplit
  <2>1. (b + 1) \div 2 \in 1..Len(Log)
    BY <1>1, <1>2 DEF Txns, NumBehaviours
  <2> QED
    BY <1>2, <2>1 DEF EntryOf
<1>3. CASE ~WarehouseSplit
  BY <1>3 DEF EntryOf, Txns, NumBehaviours
<1> QED
  BY <1>2, <1>3

(* UPDATE_STOCK in the lambdas of NewOrder never takes s_quantity below    *)
(* zero, where it would wrap, and leaves it between 10 and 100.            *)
THEOREM StockInRangeHolds == Spec => []StockInRange
<1>1. Init => StockInv
  <2> SUFFICES ASSUME Init PROVE StockInv
    OBVIOUS
  <2>1. stock \in [Stocks -> LoadedStocks]
    BY DEF Init
  <2>2. InitialQuantities \subseteq 10..100
    BY TpccAssumption
  <2>3. \A x \in Stocks : stock[x] \in [s_quantity : 10..100, s_ytd : Nat,
                                        s_order_cnt : Nat, s_remote_cnt : Nat]
    <3> SUFFICES ASSUME NEW x \in Stocks
                 PROVE  stock[x] \in [s_quantity : 10..100, s_ytd : Nat,
                                      s_order_cnt : Nat, s_remote_cnt : Nat]
      OBVIOUS
    <3>1. stock[x] \in [s_quantity : InitialQuantities, s_ytd : {0},
                        s_order_cnt : {0}, s_remote_cnt : {0}]
      BY <2>1 DEF LoadedStocks
    <3>2. stock[x].s_quantity \in InitialQuantities
      BY <3>1
    <3>3. stock[x].s_quantity \in 10..100
      BY <2>2, <3>2
    <3> QED
      BY <3>1, <3>3
  <2> QED
    BY <2>1, <2>3 DEF StockInv
<1>2. StockInv /\ [Next]_vars => StockInv'
  <2> SUFFICES ASSUME StockInv, [Next]_vars PROVE StockInv'
    OBVIOUS
  <2>1. ASSUME NEW w \in Workers, NEW b \in Txns, EnterNewOrder(w, b)
        PROVE  StockInv'
    <3>1. PICK n \in 1..Len(Log) : EntryOf(b) = Log[n]
      BY EntryOfInLog
    <3>2. stock' = UpdateStock(stock, Log[n])
      BY <2>1, <3>1 DEF EnterNewOrder
    <3> QED
      BY <3>2, UpdateStockTyped DEF StockInv
  <2>2. CASE UNCHANGED stock
    BY <2>2 DEF StockInv
  <2>3. CASE ParseAndProcess \/ Done \/ UNCHANGED vars
    BY <2>2, <2>3 DEF ParseAndProcess, Done, vars, rowVars
  <2>4. ASSUME NEW c \in joining, Join(c) PROVE StockInv'
    BY <2>2, <2>4 DEF Join, rowVars
  <2>5. ASSUME NEW w \in Workers, NEW b \in Txns,
               EnterWarehouse(w, b) \/ EnterPayment(w, b)
        PROVE  StockInv'
    BY <2>2, <2>5 DEF EnterWarehouse, EnterPayment
  <2>6. ASSUME NEW w \in Workers, InsertCheck(w) \/ InsertStore(w) \/ Leave(w)
        PROVE  StockInv'
    BY <2>2, <2>6 DEF InsertCheck, InsertStore, Leave, rowVars
  <2> QED
    BY <2>1, <2>3, <2>4, <2>5, <2>6 DEF Next
<1>3. StockInv => StockInRange
  BY DEF StockInv, StockInRange
<1> QED
  BY <1>1, <1>2, <1>3, PTL DEF Spec

-----------------------------------------------------------------------------
(* Every step is one of the runtime, or leaves the runtime alone. *)
LEMMA RuntimeAssumptionHolds == RP!RuntimeAssumption
BY TpccAssumption DEF NumBehaviours

LEMMA ImplementsRuntime == Spec => RP!RtSpec
<1> DEFINE cowns == UNION {When(b) : b \in 1..NumBehaviours}
           JoiningInv == spawned \in Nat /\ joining \subseteq cowns
<1> USE DEF RP!Txns
<1>1. Init => RP!RtInit
  BY DEF Init, RtInit, RP!RtInit, Txns
<1>2. JoiningInv /\ [Next]_vars => [RP!RtNext]_(RP!rtVars)
  <2> SUFFICES ASSUME JoiningInv, [Next]_vars PROVE RP!RtNext \/ UNCHANGED RP!rtVars
    OBVIOUS
  <2>1. CASE ParseAndProcess
    <3>1. spawned + 1 \in 1..NumBehaviours
      BY <2>1, TpccAssumption DEF NumBehaviours, ParseAndProcess
    <3>2. RP!Spawn(When(spawned + 1))
      BY <2>1 DEF ParseAndProcess, Spawn, RP!Spawn
    <3> QED
      BY <3>1, <3>2 DEF RP!RtNext, RP!RtSpawner
  <2>2. ASSUME NEW c \in joining, Join(c) PROVE RP!RtNext
    <3>1. RP!Exchange(c)
      BY <2>2 DEF Join, Exchange, RP!Exchange
    <3> QED
      BY <3>1 DEF RP!RtNext, RP!RtSpawner
  <2>3. ASSUME NEW w \in Workers, NEW b \in Txns,
               EnterWarehouse(w, b) \/ EnterNewOrder(w, b) \/ EnterPayment(w, b)
        PROVE  RP!RtNext
    <3>1. Start(w, b)
      BY <2>3 DEF EnterWarehouse, EnterNewOrder, EnterPayment
    <3>2. RP!Start(w, b)
      BY <3>1 DEF Start, RP!Start, Ready, RP!Ready
    <3> QED
      BY <3>2 DEF RP!RtNext, RP!RtWorker, Txns
  <2>4. ASSUME NEW w \in Workers, InsertCheck(w) \/ InsertStore(w)
        PROVE  UNCHANGED RP!rtVars
    BY <2>4 DEF InsertCheck, InsertStore, runtimeVars, RP!rtVars
  <2>5. ASSUME NEW w \in Workers, Leave(w) PROVE RP!RtNext
    <3>1. RP!Finish(w)
      BY <2>5 DEF Leave, Finish, RP!Finish
    <3> QED
      BY <3>1 DEF RP!RtNext, RP!RtWorker
  <2>6. CASE Done \/ UNCHANGED vars
    BY <2>6 DEF Done, vars, runtimeVars, RP!rtVars
  <2> QED
    BY <2>1, <2>2, <2>3, <2>4, <2>5, <2>6 DEF Next
<1>3. JoiningInv /\ [Next]_vars => JoiningInv'
  <2> SUFFICES ASSUME JoiningInv, [Next]_vars PROVE JoiningInv'
    OBVIOUS
  <2>1. CASE ParseAndProcess
    <3>1. spawned' = spawned + 1 /\ spawned + 1 \in 1..NumBehaviours
      BY <2>1, TpccAssumption DEF NumBehaviours, ParseAndProcess, Spawn
    <3>2. joining' = When(spawned + 1)
      BY <2>1, <3>1 DEF ParseAndProcess, Spawn
    <3> QED
      BY <3>1, <3>2
  <2>2. ASSUME NEW c \in joining, Join(c) PROVE JoiningInv'
    BY <2>2 DEF Join, Exchange
  <2>3. CASE UNCHANGED <<spawned, joining>>
    BY <2>3
  <2>4. ASSUME NEW w \in Workers, NEW b \in Txns,
               EnterWarehouse(w, b) \/ EnterNewOrder(w, b) \/ EnterPayment(w, b)
        PROVE  UNCHANGED <<spawned, joining>>
    BY <2>4 DEF EnterWarehouse, EnterNewOrder, EnterPayment, Start
  <2>5. ASSUME NEW w \in Workers, InsertCheck(w) \/ InsertStore(w) \/ Leave(w)
        PROVE  UNCHANGED <<spawned, joining>>
    BY <2>5 DEF InsertCheck, InsertStore, Leave, Finish, runtimeVars
  <2>6. CASE Done \/ UNCHANGED vars
    BY <2>3, <2>6 DEF Done, vars, runtimeVars
  <2> QED
    BY <2>1, <2>2, <2>3, <2>4, <2>5, <2>6 DEF Next
<1>4. Init => JoiningInv
  BY DEF Init, RtInit
<1> HIDE DEF JoiningInv
<1> QED
  BY <1>1, <1>2, <1>3, <1>4, PTL DEF Spec, RP!RtSpec

(* The whens of parse_and_process are behaviours of the runtime: inserting *)
(* into the shared tables leaves it alone, and so the lambda of a NewOrder *)
(* runs alone on its district, customer, stocks and items.                 *)
THEOREM TpccIsolation == Spec => []Isolation
<1>1. RP!Isolation => Isolation
  BY DEF Isolation, RP!Isolation, Conflict, RP!Conflict
<1> QED
  BY <1>1, ImplementsRuntime, RuntimeAssumptionHolds, RP!IsolationHolds, PTL

-----------------------------------------------------------------------------
(* Products, for which the provers need a hand. *)
LEMMA TimesMonotone ==
  ASSUME NEW a \in Nat, NEW b \in Nat, NEW n \in Nat, a <= b
  PROVE  a * n \in Nat /\ b * n \in Nat /\ a * n <= b * n
OBVIOUS

LEMMA TimesNext ==
  ASSUME NEW a \in Int, NEW n \in Int
  PROVE  (a + 1) * n = a * n + n
OBVIOUS

(* Two numbers in base n are equal when their digits are. *)
LEMMA Digits ==
  ASSUME NEW a \in Nat, NEW b \in Nat, NEW n \in Nat,
         NEW r \in 0..(n - 1), NEW s \in 0..(n - 1), a * n + r = b * n + s
  PROVE  a = b /\ r = s
<1>1. ~(a < b)
  <2> SUFFICES ASSUME a < b PROVE FALSE
    OBVIOUS
  <2>1. (a + 1) * n <= b * n
    BY TimesMonotone
  <2> QED
    BY <2>1, TimesNext
<1>2. ~(b < a)
  <2> SUFFICES ASSUME b < a PROVE FALSE
    OBVIOUS
  <2>1. (b + 1) * n <= a * n
    BY TimesMonotone
  <2> QED
    BY <2>1, TimesNext
<1> QED
  BY <1>1, <1>2

(* A number with digits below m and n is below m * n. *)
LEMMA DigitsBelow ==
  ASSUME NEW m \in Nat, NEW n \in Nat, NEW a \in 0..(m - 1), NEW r \in 0..(n - 1)
  PROVE  a * n + r \in 0..(m * n - 1)
<1>1. a * n \in Nat /\ (a + 1) * n <= m * n
  BY TimesMonotone
<1> QED
  BY <1>1, TimesNext

(* The constants that sizes are made of. *)
LEMMA SizesNat ==
  /\ NumWarehouses \in Nat /\ DistrictsPerWarehouse \in Nat /\ CustomersPerDistrict \in Nat
  /\ NumItems \in Nat /\ StockPerWarehouse \in Nat /\ NumItems <= StockPerWarehouse
  /\ InitialOrders \in Nat /\ InitialNewOrders \in Nat /\ MaxOrders \in Nat
  /\ OrdersPerDistrict \in Nat
BY TpccAssumption DEF OrdersPerDistrict

(* The rows that whens can name. *)
WarehouseRow(r) == \E w \in Warehouses : r = Row("warehouse", <<w>>)
DistrictRow(r) ==
  \E w \in Warehouses, d \in 1..DistrictsPerWarehouse : r = Row("district", <<w, d>>)
CustomerRow(r) ==
  \E w \in Warehouses, d \in 1..DistrictsPerWarehouse, c \in Customers :
    r = Row("customer", <<w, d, c>>)
StockRow(r) == \E w \in Warehouses, i \in Items : r = Row("stock", <<w, i>>)
ItemRow(r) == \E i \in Items : r = Row("item", <<i>>)

NamedRow(r) == WarehouseRow(r) \/ DistrictRow(r) \/ CustomerRow(r) \/ StockRow(r) \/ ItemRow(r)

(* How many districts come before district d of warehouse w. *)
DistrictsBefore(w, d) == (w - 1) * DistrictsPerWarehouse + (d - 1)

NumDistricts == NumWarehouses * DistrictsPerWarehouse

LEMMA DistrictsBeforeBound ==
  ASSUME NEW w \in Warehouses, NEW d \in 1..DistrictsPerWarehouse
  PROVE  NumDistricts \in Nat /\ DistrictsBefore(w, d) \in 0..(NumDistricts - 1)
<1>1. w - 1 \in 0..(NumWarehouses - 1) /\ d - 1 \in 0..(DistrictsPerWarehouse - 1)
  BY SizesNat DEF Warehouses
<1> QED
  BY <1>1, SizesNat, DigitsBelow DEF DistrictsBefore, NumDistricts

LEMMA DistrictsBeforeInjective ==
  ASSUME NEW w \in Warehouses, NEW d \in 1..DistrictsPerWarehouse,
         NEW v \in Warehouses, NEW e \in 1..DistrictsPerWarehouse,
         DistrictsBefore(w, d) = DistrictsBefore(v, e)
  PROVE  w = v /\ d = e
<1>1. /\ w - 1 \in Nat /\ v - 1 \in Nat /\ d - 1 \in 0..(DistrictsPerWarehouse - 1)
      /\ e - 1 \in 0..(DistrictsPerWarehouse - 1)
  BY SizesNat DEF Warehouses
<1> DEFINE a == w - 1
           b == v - 1
           r == d - 1
           s == e - 1
           n == DistrictsPerWarehouse
<1>2. a * n + r = b * n + s
  BY DEF DistrictsBefore
<1>3. n \in Nat /\ a \in Nat /\ b \in Nat /\ r \in 0..(n - 1) /\ s \in 0..(n - 1)
  BY <1>1, SizesNat
<1> HIDE DEF a, b, r, s, n
<1>4. a = b /\ r = s
  BY <1>2, <1>3, Digits
<1> QED
  BY <1>4, SizesNat DEF Warehouses, a, b, r, s

(* A customer's hash key, as two digits. *)
LEMMA CustomerKey ==
  ASSUME NEW w \in Warehouses, NEW d \in 1..DistrictsPerWarehouse, NEW c \in Customers
  PROVE  HashKey(Row("customer", <<w, d, c>>))
           = DistrictsBefore(w, d) * CustomersPerDistrict + (c - 1)
<1>1. HashKey(Row("customer", <<w, d, c>>))
        = (w - 1) * DistrictsPerWarehouse * CustomersPerDistrict
            + (d - 1) * CustomersPerDistrict + (c - 1)
  BY DEF HashKey, Row
<1>2. ASSUME NEW x \in Int, NEW y \in Int, NEW m \in Int, NEW n \in Int
      PROVE  x * m * n + y * n = (x * m + y) * n
  OBVIOUS
<1>3. w - 1 \in Int /\ d - 1 \in Int
  BY SizesNat DEF Warehouses
<1>4. (w - 1) * DistrictsPerWarehouse * CustomersPerDistrict + (d - 1) * CustomersPerDistrict
        = DistrictsBefore(w, d) * CustomersPerDistrict
  BY <1>2, <1>3, SizesNat DEF DistrictsBefore
<1> QED
  BY <1>1, <1>4

(* Where the tables end: every row's key is below the size of its table,   *)
(* so that its address lies between its table's and the next one's.        *)
TableEnd ==
  [warehouse |-> TableAddr.district, district |-> TableAddr.customer,
   customer |-> TableAddr.stock, stock |-> TableAddr.item,
   item |-> TableAddr.item + NumItems]

LEMMA TableOrder ==
  /\ TableAddr.warehouse = 0 /\ TableAddr.district = NumWarehouses
  /\ TableAddr.customer = NumWarehouses + NumDistricts
  /\ TableAddr.stock = TableAddr.customer + 2 * (NumDistricts * CustomersPerDistrict)
  /\ TableAddr.item = TableAddr.stock + NumWarehouses * StockPerWarehouse
  /\ NumDistricts \in Nat /\ NumDistricts * CustomersPerDistrict \in Nat
  /\ NumWarehouses * StockPerWarehouse \in Nat
  /\ TableAddr.customer \in Nat /\ TableAddr.stock \in Nat /\ TableAddr.item \in Nat
<1>1. /\ NumDistricts \in Nat /\ NumDistricts * CustomersPerDistrict \in Nat
      /\ NumWarehouses * StockPerWarehouse \in Nat
  BY SizesNat DEF NumDistricts
<1>2. /\ TableAddr.warehouse = 0 /\ TableAddr.district = NumWarehouses
      /\ TableAddr.customer = NumWarehouses + NumDistricts
      /\ TableAddr.stock = NumWarehouses + NumDistricts + 2 * NumDistricts * CustomersPerDistrict
      /\ TableAddr.item = TableAddr.stock + NumWarehouses * StockPerWarehouse
  BY DEF TableAddr, NumDistricts
<1>3. 2 * NumDistricts * CustomersPerDistrict = 2 * (NumDistricts * CustomersPerDistrict)
  BY <1>1, SizesNat
<1> QED
  BY <1>1, <1>2, <1>3, SizesNat

LEMMA RowInTable ==
  ASSUME NEW r, NamedRow(r)
  PROVE  /\ RowAddr(r) \in TableAddr[r.table]..(TableEnd[r.table] - 1)
         /\ r.table \in {"warehouse", "district", "customer", "stock", "item"}
         /\ HashKey(r) \in Nat /\ TableAddr[r.table] \in Nat
<1>1. CASE WarehouseRow(r)
  <2>1. PICK w \in Warehouses : r = Row("warehouse", <<w>>)
    BY <1>1 DEF WarehouseRow
  <2>2. HashKey(r) = w - 1
    BY <2>1 DEF HashKey, Row
  <2>3. RowAddr(r) = TableAddr.warehouse + (w - 1) /\ r.table = "warehouse"
    BY <2>1, <2>2, SizesNat, TableOrder DEF RowAddr, Row, Warehouses
  <2> QED
    BY <2>2, <2>3, SizesNat, TableOrder DEF TableEnd, Warehouses
<1>2. CASE DistrictRow(r)
  <2>1. PICK w \in Warehouses, d \in 1..DistrictsPerWarehouse : r = Row("district", <<w, d>>)
    BY <1>2 DEF DistrictRow
  <2>2. HashKey(r) = DistrictsBefore(w, d)
    BY <2>1 DEF HashKey, Row, DistrictsBefore
  <2>3. DistrictsBefore(w, d) \in 0..(NumDistricts - 1)
    BY DistrictsBeforeBound
  <2>4. RowAddr(r) = TableAddr.district + DistrictsBefore(w, d) /\ r.table = "district"
    BY <2>1, <2>2, <2>3, SizesNat, TableOrder DEF RowAddr, Row
  <2> QED
    BY <2>2, <2>3, <2>4, SizesNat, TableOrder DEF TableEnd
<1>3. CASE CustomerRow(r)
  <2>1. PICK w \in Warehouses, d \in 1..DistrictsPerWarehouse, c \in Customers :
          r = Row("customer", <<w, d, c>>)
    BY <1>3 DEF CustomerRow
  <2> DEFINE k == DistrictsBefore(w, d)
             h == k * CustomersPerDistrict + (c - 1)
  <2>2. HashKey(r) = h
    BY <2>1, CustomerKey
  <2>3. k \in 0..(NumDistricts - 1) /\ c - 1 \in 0..(CustomersPerDistrict - 1)
    BY SizesNat, DistrictsBeforeBound DEF Customers
  <2> HIDE DEF k
  <2>4. h \in 0..(NumDistricts * CustomersPerDistrict - 1)
    BY <2>3, SizesNat, TableOrder, DigitsBelow
  <2> HIDE DEF h
  <2>5. RowAddr(r) = TableAddr.customer + 2 * h /\ r.table = "customer"
    BY <2>1, <2>2, <2>4, SizesNat, TableOrder DEF RowAddr, Row
  <2> QED
    BY <2>2, <2>4, <2>5, SizesNat, TableOrder DEF TableEnd
<1>4. CASE StockRow(r)
  <2>1. PICK w \in Warehouses, i \in Items : r = Row("stock", <<w, i>>)
    BY <1>4 DEF StockRow
  <2> DEFINE h == (w - 1) * StockPerWarehouse + (i - 1)
  <2>2. HashKey(r) = h
    BY <2>1 DEF HashKey, Row
  <2>3. w - 1 \in 0..(NumWarehouses - 1) /\ i - 1 \in 0..(StockPerWarehouse - 1)
    BY SizesNat DEF Warehouses, Items
  <2>4. h \in 0..(NumWarehouses * StockPerWarehouse - 1)
    BY <2>3, SizesNat, DigitsBelow
  <2> HIDE DEF h
  <2>5. RowAddr(r) = TableAddr.stock + h /\ r.table = "stock"
    BY <2>1, <2>2, <2>4, SizesNat, TableOrder DEF RowAddr, Row
  <2> QED
    BY <2>2, <2>4, <2>5, SizesNat, TableOrder DEF TableEnd
<1>5. CASE ItemRow(r)
  <2>1. PICK i \in Items : r = Row("item", <<i>>)
    BY <1>5 DEF ItemRow
  <2>2. RowAddr(r) = TableAddr.item + (i - 1) /\ r.table = "item" /\ HashKey(r) = i - 1
    BY <2>1, SizesNat, TableOrder DEF RowAddr, HashKey, Row, Items
  <2> QED
    BY <2>2, SizesNat, TableOrder DEF TableEnd, Items
<1> QED
  BY <1>1, <1>2, <1>3, <1>4, <1>5 DEF NamedRow

(* Two rows of different tables have different addresses. *)
LEMMA TablesDisjoint ==
  ASSUME NEW r, NEW q, NamedRow(r), NamedRow(q), RowAddr(r) = RowAddr(q)
  PROVE  r.table = q.table
<1> DEFINE a == RowAddr(r)
           tables == {"warehouse", "district", "customer", "stock", "item"}
<1>1. /\ r.table \in tables /\ a \in TableAddr[r.table]..(TableEnd[r.table] - 1)
      /\ q.table \in tables /\ a \in TableAddr[q.table]..(TableEnd[q.table] - 1)
  BY RowInTable
<1> HIDE DEF a
<1>2. /\ TableEnd.warehouse = TableAddr.district /\ TableEnd.district = TableAddr.customer
      /\ TableEnd.customer = TableAddr.stock /\ TableEnd.stock = TableAddr.item
      /\ TableEnd.item = TableAddr.item + NumItems
  BY DEF TableEnd
<1> QED
  BY <1>1, <1>2, TableOrder, SizesNat

(* Two rows of one table have different keys. *)
LEMMA KeysDiffer ==
  ASSUME NEW r, NEW q, NamedRow(r), NamedRow(q), r.table = q.table, HashKey(r) = HashKey(q)
  PROVE  r = q
<1>1. CASE WarehouseRow(r)
  <2>1. PICK w \in Warehouses : r = Row("warehouse", <<w>>)
    BY <1>1 DEF WarehouseRow
  <2>2. PICK v \in Warehouses : q = Row("warehouse", <<v>>)
    BY <2>1 DEF NamedRow, WarehouseRow, DistrictRow, CustomerRow, StockRow, ItemRow, Row
  <2>3. w - 1 = v - 1
    BY <2>1, <2>2 DEF HashKey, Row
  <2> QED
    BY <2>1, <2>2, <2>3, SizesNat DEF Warehouses
<1>2. CASE DistrictRow(r)
  <2>1. PICK w \in Warehouses, d \in 1..DistrictsPerWarehouse : r = Row("district", <<w, d>>)
    BY <1>2 DEF DistrictRow
  <2>2. PICK v \in Warehouses, e \in 1..DistrictsPerWarehouse : q = Row("district", <<v, e>>)
    BY <2>1 DEF NamedRow, WarehouseRow, DistrictRow, CustomerRow, StockRow, ItemRow, Row
  <2>3. DistrictsBefore(w, d) = DistrictsBefore(v, e)
    BY <2>1, <2>2 DEF HashKey, Row, DistrictsBefore
  <2> QED
    BY <2>1, <2>2, <2>3, DistrictsBeforeInjective
<1>3. CASE CustomerRow(r)
  <2>1. PICK w \in Warehouses, d \in 1..DistrictsPerWarehouse, c \in Customers :
          r = Row("customer", <<w, d, c>>)
    BY <1>3 DEF CustomerRow
  <2>2. PICK v \in Warehouses, e \in 1..DistrictsPerWarehouse, f \in Customers :
          q = Row("customer", <<v, e, f>>)
    BY <2>1 DEF NamedRow, WarehouseRow, DistrictRow, CustomerRow, StockRow, ItemRow, Row
  <2> DEFINE k == DistrictsBefore(w, d)
             l == DistrictsBefore(v, e)
             x == c - 1
             y == f - 1
             n == CustomersPerDistrict
  <2>3. k * n + x = l * n + y
    BY <2>1, <2>2, CustomerKey
  <2>4. /\ n \in Nat /\ k \in Nat /\ l \in Nat
        /\ x \in 0..(n - 1) /\ y \in 0..(n - 1)
    BY SizesNat, DistrictsBeforeBound DEF Customers
  <2> HIDE DEF k, l, x, y, n
  <2>5. k = l /\ x = y
    BY <2>3, <2>4, Digits
  <2>6. w = v /\ d = e
    BY <2>5, DistrictsBeforeInjective DEF k, l
  <2>7. c = f
    BY <2>5, SizesNat DEF x, y, Customers
  <2> QED
    BY <2>1, <2>2, <2>6, <2>7
<1>4. CASE StockRow(r)
  <2>1. PICK w \in Warehouses, i \in Items : r = Row("stock", <<w, i>>)
    BY <1>4 DEF StockRow
  <2>2. PICK v \in Warehouses, j \in Items : q = Row("stock", <<v, j>>)
    BY <2>1 DEF NamedRow, WarehouseRow, DistrictRow, CustomerRow, StockRow, ItemRow, Row
  <2> DEFINE k == w - 1
             l == v - 1
             x == i - 1
             y == j - 1
             n == StockPerWarehouse
  <2>3. k * n + x = l * n + y
    BY <2>1, <2>2 DEF HashKey, Row
  <2>4. /\ n \in Nat /\ k \in Nat /\ l \in Nat
        /\ x \in 0..(n - 1) /\ y \in 0..(n - 1)
    BY SizesNat DEF Warehouses, Items
  <2> HIDE DEF k, l, x, y, n
  <2>5. k = l /\ x = y
    BY <2>3, <2>4, Digits
  <2> QED
    BY <2>1, <2>2, <2>5, SizesNat DEF k, l, x, y, Warehouses, Items
<1>5. CASE ItemRow(r)
  <2>1. PICK i \in Items : r = Row("item", <<i>>)
    BY <1>5 DEF ItemRow
  <2>2. PICK j \in Items : q = Row("item", <<j>>)
    BY <2>1 DEF NamedRow, WarehouseRow, DistrictRow, CustomerRow, StockRow, ItemRow, Row
  <2>3. i - 1 = j - 1
    BY <2>1, <2>2 DEF HashKey, Row
  <2> QED
    BY <2>1, <2>2, <2>3, SizesNat DEF Items
<1> QED
  BY <1>1, <1>2, <1>3, <1>4, <1>5 DEF NamedRow

(* No two rows are at one address. *)
LEMMA RowAddrInjective ==
  ASSUME NEW r, NEW q, NamedRow(r), NamedRow(q), RowAddr(r) = RowAddr(q)
  PROVE  r = q
<1>1. r.table = q.table
  BY TablesDisjoint
<1>2. HashKey(r) \in Nat /\ HashKey(q) \in Nat /\ TableAddr[r.table] \in Nat
  BY RowInTable
<1>3. HashKey(r) = HashKey(q)
  BY <1>1, <1>2 DEF RowAddr
<1> QED
  BY <1>1, <1>3, KeysDiffer

(* What the log holds is of rows that exist. *)
LEMMA LogTyped ==
  ASSUME NEW n \in 1..Len(Log)
  PROVE  /\ Log[n].w_id \in Warehouses /\ Log[n].d_id \in 1..DistrictsPerWarehouse
         /\ Log[n].c_id \in Customers /\ Log[n].h_amount \in Nat
         /\ Log[n].lines \in Seq([i_w_id : Warehouses, i_id : Items, qty : 1..10])
         /\ \A k \in 1..Len(Log[n].lines) :
              Log[n].lines[k].i_w_id \in Warehouses /\ Log[n].lines[k].i_id \in Items
         /\ Len(Log[n].lines) \in 0..15
         /\ Log[n].type = "NewOrder" => Log[n].h_amount = 0
<1> DEFINE t == Log[n]
           lineSet == [i_w_id : Warehouses, i_id : Items, qty : 1..10]
<1>1. t \in LogEntry
  <2>1. Log \in Seq(LogEntry)
    BY TpccAssumption
  <2> QED
    BY <2>1
<1>2. NewOrderParams(t) \/ PaymentParams(t)
  BY TpccAssumption
<1> HIDE DEF t, lineSet
<1>3. /\ t.w_id \in Warehouses /\ t.d_id \in 1..DistrictsPerWarehouse
      /\ t.c_id \in Customers /\ t.h_amount \in Nat /\ t.lines \in Seq(lineSet)
  BY <1>1 DEF LogEntry, lineSet
<1>4. \A k \in 1..Len(t.lines) : t.lines[k] \in lineSet
  BY <1>3
<1>5. \A k \in 1..Len(t.lines) : t.lines[k].i_w_id \in Warehouses /\ t.lines[k].i_id \in Items
  BY <1>4 DEF lineSet
<1>6. Len(<<>>) = 0
  OBVIOUS
<1>7. Len(t.lines) \in 0..15
  BY <1>2, <1>6 DEF NewOrderParams, PaymentParams
<1>8. t.type = "NewOrder" => t.h_amount = 0
  BY <1>2 DEF NewOrderParams, PaymentParams
<1> QED
  BY <1>3, <1>5, <1>7, <1>8 DEF t, lineSet

(* Every row of a when is one of the database's. *)
LEMMA RowsAreNamed ==
  ASSUME NEW b \in 1..NumBehaviours, NEW r \in RowsOf(b)
  PROVE  NamedRow(r)
<1>1. PICK n \in 1..Len(Log) : EntryOf(b) = Log[n]
  BY EntryOfInLog DEF Txns
<1> DEFINE t == EntryOf(b)
<1>2. /\ t.w_id \in Warehouses /\ t.d_id \in 1..DistrictsPerWarehouse /\ t.c_id \in Customers
      /\ \A k \in 1..Len(t.lines) : t.lines[k].i_w_id \in Warehouses /\ t.lines[k].i_id \in Items
  BY <1>1, LogTyped
<1>3. r \in WhenParams(t) \/ r = Row("warehouse", <<t.w_id>>)
  BY DEF RowsOf
<1> HIDE DEF t
<1>4. CASE r = Row("warehouse", <<t.w_id>>)
  BY <1>2, <1>4 DEF NamedRow, WarehouseRow
<1>5. CASE r = Row("district", <<t.w_id, t.d_id>>)
  BY <1>2, <1>5 DEF NamedRow, DistrictRow
<1>6. CASE r = Row("customer", <<t.w_id, t.d_id, t.c_id>>)
  BY <1>2, <1>6 DEF NamedRow, CustomerRow
<1>7. CASE \E k \in 1..Len(t.lines) : r = Row("stock", Stock(t.lines[k]))
  BY <1>2, <1>7 DEF NamedRow, StockRow, Stock
<1>8. CASE \E k \in 1..Len(t.lines) : r = Row("item", <<t.lines[k].i_id>>)
  BY <1>2, <1>8 DEF NamedRow, ItemRow
<1> QED
  BY <1>3, <1>4, <1>5, <1>6, <1>7, <1>8 DEF WhenParams

(* Behaviours on a common address are on a common row. *)
LEMMA CommonAddrCommonRow ==
  ASSUME NEW b \in 1..NumBehaviours, NEW c \in 1..NumBehaviours, When(b) \cap When(c) # {}
  PROVE  RowsOf(b) \cap RowsOf(c) # {}
<1>1. PICK a : a \in When(b) /\ a \in When(c)
  OBVIOUS
<1>2. PICK r \in RowsOf(b) : a = RowAddr(r)
  BY <1>1 DEF When
<1>3. PICK q \in RowsOf(c) : a = RowAddr(q)
  BY <1>1 DEF When
<1>4. NamedRow(r) /\ NamedRow(q)
  BY RowsAreNamed
<1>5. r = q
  BY <1>2, <1>3, <1>4, RowAddrInjective
<1> QED
  BY <1>5

-----------------------------------------------------------------------------
(* A behaviour's cowns are the addresses of the rows that its entry names. *)
CownsInv == \A b \in 1..spawned : cownsOf[b] = When(b)

LEMMA CownsInvariance == Spec => [](CownsInv /\ RP!RtIInv)
<1>1. Init => CownsInv
  BY DEF Init, RtInit, CownsInv
<1>2. CownsInv /\ RP!RtIInv /\ [Next]_vars => CownsInv'
  <2> SUFFICES ASSUME CownsInv, RP!RtIInv, [Next]_vars PROVE CownsInv'
    OBVIOUS
  <2>0. spawned \in Nat /\ DOMAIN cownsOf = 1..NumBehaviours /\ NumBehaviours \in Nat
    BY TpccAssumption DEF RP!RtIInv, RP!RtTypeOK, RP!Txns, NumBehaviours
  <2>1. CASE ParseAndProcess
    <3>1. /\ spawned' = spawned + 1 /\ spawned < NumBehaviours
          /\ cownsOf' = [cownsOf EXCEPT ![spawned + 1] = When(spawned + 1)]
      BY <2>1 DEF ParseAndProcess, Spawn
    <3>2. \A b \in 1..spawned' : cownsOf'[b] = IF b = spawned + 1 THEN When(b) ELSE cownsOf[b]
      BY <2>0, <3>1
    <3> QED
      BY <2>0, <3>1, <3>2 DEF CownsInv
  <2>2. CASE UNCHANGED <<spawned, cownsOf>>
    BY <2>2 DEF CownsInv
  <2>3. ASSUME NEW c \in joining, Join(c) PROVE UNCHANGED <<spawned, cownsOf>>
    BY <2>3 DEF Join, Exchange
  <2>4. ASSUME NEW w \in Workers, NEW b \in Txns,
               EnterWarehouse(w, b) \/ EnterNewOrder(w, b) \/ EnterPayment(w, b)
        PROVE  UNCHANGED <<spawned, cownsOf>>
    BY <2>4 DEF EnterWarehouse, EnterNewOrder, EnterPayment, Start
  <2>5. ASSUME NEW w \in Workers, InsertCheck(w) \/ InsertStore(w) \/ Leave(w)
        PROVE  UNCHANGED <<spawned, cownsOf>>
    BY <2>5 DEF InsertCheck, InsertStore, Leave, Finish, runtimeVars
  <2>6. Done \/ UNCHANGED vars => UNCHANGED <<spawned, cownsOf>>
    BY DEF Done, vars, runtimeVars
  <2> QED
    BY <2>1, <2>2, <2>3, <2>4, <2>5, <2>6 DEF Next
<1> QED
  BY <1>1, <1>2, ImplementsRuntime, RuntimeAssumptionHolds, RP!RtInvariance, PTL DEF Spec

(* prepare_cowns hands addresses to the runtime, into one allocation that  *)
(* holds all tables: behaviours of different rows never wait for each      *)
(* other, whatever the sizes of the tables are.                            *)
THEOREM ConflictsShareRowsHolds == Spec => []ConflictsShareRows
<1>1. CownsInv /\ RP!RtIInv => ConflictsShareRows
  <2> SUFFICES ASSUME CownsInv, RP!RtIInv, NEW b \in 1..spawned, NEW c \in 1..spawned,
                      Conflict(b, c)
               PROVE  RowsOf(b) \cap RowsOf(c) # {}
    BY DEF ConflictsShareRows
  <2>1. spawned \in 0..NumBehaviours /\ NumBehaviours \in Nat
    BY TpccAssumption DEF RP!RtIInv, RP!RtTypeOK, NumBehaviours
  <2>2. b \in 1..NumBehaviours /\ c \in 1..NumBehaviours
    BY <2>1
  <2>3. When(b) \cap When(c) # {}
    BY DEF CownsInv, Conflict
  <2> QED
    BY <2>2, <2>3, CommonAddrCommonRow
<1> QED
  BY <1>1, CownsInvariance, PTL

-----------------------------------------------------------------------------
(* The types of the rows and tables that grow; a worker's inserts are those *)
(* of the lambda it runs.                                                   *)
Tables == {"order", "new_order", "order_line"}
InsertRows == [table : Tables, key : Int, row : Seq(Int)]

TypeInv ==
  /\ w_ytd \in [Warehouses -> Int]
  /\ district \in [Districts -> [d_ytd : Int, d_next_o_id : Int]]
  /\ inserts \in [Workers -> Seq(InsertRows)]
  /\ seen \in [Workers -> Int] /\ cnt \in [Tables -> Int] /\ DOMAIN map = Tables
  /\ \A w \in Workers : running[w] = 0 => inserts[w] = <<>>
  /\ \A w \in Workers : seen[w] # -1 => inserts[w] # <<>>
  /\ \A d \in Districts : district[d].d_next_o_id > InitialOrders

(* An order's key, as two digits. *)
LEMMA OrderKeyDigits ==
  ASSUME NEW w \in Int, NEW d \in Int, NEW o \in Int
  PROVE  /\ DistrictsBefore(w, d) \in Int /\ OrderKey(w, d, o) \in Int
         /\ OrderKey(w, d, o) = DistrictsBefore(w, d) * OrdersPerDistrict + (o - 1)
<1> DEFINE x == w - 1
           y == d - 1
           m == DistrictsPerWarehouse
           n == OrdersPerDistrict
<1>1. x \in Int /\ y \in Int /\ m \in Int /\ n \in Int
  BY SizesNat
<1>2. OrderKey(w, d, o) = x * m * n + y * n + (o - 1) /\ DistrictsBefore(w, d) = x * m + y
  BY DEF OrderKey, DistrictsBefore
<1> HIDE DEF x, y, m
<1>3. x * m * n + y * n = (x * m + y) * n /\ x * m + y \in Int /\ (x * m + y) * n \in Int
  BY <1>1
<1> QED
  BY <1>1, <1>2, <1>3

(* What the inserts of a NewOrder are: its lines, then its order twice. *)
LEMMA InsertsOf ==
  ASSUME NEW n \in 1..Len(Log), NEW o \in Int
  PROVE  LET t == Log[n]
             s == NewOrderInserts(t, o)
             hash == OrderKey(t.w_id, t.d_id, o)
             m == Len(t.lines)
         IN  /\ s \in Seq(InsertRows) /\ s # <<>> /\ Len(s) = m + 2 /\ m \in 0..15
             /\ \A k \in 1..m : s[k] = InsertOrderLine(t, hash, k)
             /\ s[m + 1] = [table |-> "order", key |-> hash, row |-> <<t.w_id, t.d_id, o>>]
             /\ s[m + 2] = [table |-> "new_order", key |-> hash, row |-> <<t.w_id, t.d_id, o>>]
<1> DEFINE t == Log[n]
           hash == OrderKey(t.w_id, t.d_id, o)
           m == Len(t.lines)
           p == [k \in 1..m |-> InsertOrderLine(t, hash, k)]
           q == NewOrderEnd(t, o, hash)
           s == NewOrderInserts(t, o)
<1>1. t.w_id \in Int /\ t.d_id \in Int /\ m \in 0..15
  BY LogTyped, SizesNat DEF Warehouses
<1>2. hash \in Int
  BY <1>1, OrderKeyDigits
<1>3. s = p \o q
  BY DEF NewOrderInserts
<1> HIDE DEF t, m, hash
<1>4. \A k \in 1..m : InsertOrderLine(t, hash, k) \in InsertRows
  <2> SUFFICES ASSUME NEW k \in 1..m PROVE InsertOrderLine(t, hash, k) \in InsertRows
    OBVIOUS
  <2>1. k \in Int
    BY <1>1
  <2>2. OrderLineKey(t.w_id, t.d_id, hash, k) \in Int
    <3>1. OrderKey(t.w_id, t.d_id, hash) \in Int
      BY <1>1, <1>2, OrderKeyDigits
    <3> QED
      BY <2>1, <3>1 DEF OrderLineKey
  <2>3. <<t.w_id, t.d_id, hash, k>> \in Seq(Int)
    BY <1>1, <1>2, <2>1
  <2> QED
    BY <2>2, <2>3 DEF InsertOrderLine, InsertRows, Tables
<1>5. p \in Seq(InsertRows) /\ Len(p) = m
  BY <1>1, <1>4
<1> DEFINE q1 == [table |-> "order", key |-> hash, row |-> <<t.w_id, t.d_id, o>>]
           q2 == [table |-> "new_order", key |-> hash, row |-> <<t.w_id, t.d_id, o>>]
<1>6. <<t.w_id, t.d_id, o>> \in Seq(Int)
  BY <1>1
<1>7. q1 \in InsertRows /\ q2 \in InsertRows
  BY <1>2, <1>6 DEF InsertRows, Tables
<1>8. q = <<q1, q2>>
  BY DEF NewOrderEnd
<1> HIDE DEF q1, q2, q, p, s
<1>9. q \in Seq(InsertRows) /\ Len(q) = 2 /\ q[1] = q1 /\ q[2] = q2
  BY <1>7, <1>8
<1>10. s \in Seq(InsertRows) /\ Len(s) = m + 2
  BY <1>1, <1>3, <1>5, <1>9, ConcatProperties
<1>11. (\A k \in 1..m : s[k] = p[k]) /\ s[m + 1] = q[1] /\ s[m + 2] = q[2]
  <2>0. \A k \in 1..(Len(p) + Len(q)) :
          (p \o q)[k] = IF k <= Len(p) THEN p[k] ELSE q[k - Len(p)]
    BY <1>5, <1>9, ConcatProperties
  <2>1. \A k \in 1..(m + 2) : s[k] = IF k <= m THEN p[k] ELSE q[k - m]
    BY <1>3, <1>5, <1>9, <2>0
  <2>2. m + 1 \in 1..(m + 2) /\ m + 2 \in 1..(m + 2) /\ (m + 1) - m = 1 /\ (m + 2) - m = 2
    BY <1>1
  <2> QED
    BY <1>1, <2>1, <2>2
<1>12. \A k \in 1..m : s[k] = InsertOrderLine(t, hash, k)
  BY <1>11 DEF p
<1>13. s # <<>>
  BY <1>1, <1>10
<1> QED
  BY <1>1, <1>9, <1>10, <1>11, <1>12, <1>13 DEF s, t, m, hash, q1, q2

(* A sequence of inserts that is not empty, and its tail. *)
LEMMA HeadAndTail ==
  ASSUME NEW s \in Seq(InsertRows), s # <<>>
  PROVE  /\ Len(s) \in Nat /\ Len(s) >= 1 /\ Head(s) = s[1] /\ Head(s) \in InsertRows
         /\ Tail(s) \in Seq(InsertRows) /\ Len(Tail(s)) = Len(s) - 1
         /\ \A k \in 1..(Len(s) - 1) : Tail(s)[k] = s[k + 1]
<1>1. Len(s) \in Nat /\ Len(s) >= 1
  BY EmptySeq, LenProperties
<1>2. /\ Head(s) \in InsertRows /\ Tail(s) \in Seq(InsertRows) /\ Len(Tail(s)) = Len(s) - 1
      /\ \A k \in 1..(Len(s) - 1) : Tail(s)[k] = s[k + 1]
  BY HeadTailProperties
<1>3. Head(s) = s[1]
  OBVIOUS
<1> QED
  BY <1>1, <1>2, <1>3

(* What NewOrder does to its district, and to the worker's inserts. *)
LEMMA EnterNewOrderDoes ==
  ASSUME TypeInv, NEW w \in Workers, NEW b \in Txns, EnterNewOrder(w, b),
         NEW n \in 1..Len(Log), EntryOf(b) = Log[n]
  PROVE  LET d == <<Log[n].w_id, Log[n].d_id>>
             o == district[d].d_next_o_id
         IN  /\ d \in Districts /\ o \in Int /\ o > InitialOrders
             /\ district' \in [Districts -> [d_ytd : Int, d_next_o_id : Int]]
             /\ district'[d].d_next_o_id = o + 1
             /\ \A e \in Districts : district'[e].d_ytd = district[e].d_ytd
             /\ \A e \in Districts \ {d} : district'[e] = district[e]
             /\ inserts' \in [Workers -> Seq(InsertRows)]
             /\ inserts[w] = <<>> /\ inserts'[w] = NewOrderInserts(Log[n], o)
             /\ \A v \in Workers \ {w} : inserts'[v] = inserts[v]
             /\ seen[w] = -1
<1> DEFINE d == <<Log[n].w_id, Log[n].d_id>>
           o == district[d].d_next_o_id
<1>1. d \in Districts
  BY LogTyped DEF Districts
<1>2. district[d] \in [d_ytd : Int, d_next_o_id : Int]
  BY <1>1 DEF TypeInv
<1>3. o \in Int /\ o > InitialOrders
  BY <1>1, <1>2 DEF TypeInv
<1>4. /\ district' = [district EXCEPT ![d] = [district[d] EXCEPT !.d_next_o_id = o + 1]]
      /\ inserts' = [inserts EXCEPT ![w] = NewOrderInserts(Log[n], o)]
      /\ running[w] = 0
  BY DEF EnterNewOrder, Start
<1> DEFINE row == [district[d] EXCEPT !.d_next_o_id = o + 1]
<1>5. /\ row \in [d_ytd : Int, d_next_o_id : Int] /\ row.d_ytd = district[d].d_ytd
      /\ row.d_next_o_id = o + 1
  BY <1>2, <1>3
<1> HIDE DEF row
<1>6. /\ district' \in [Districts -> [d_ytd : Int, d_next_o_id : Int]] /\ district'[d] = row
      /\ \A e \in Districts \ {d} : district'[e] = district[e]
  BY <1>1, <1>4, <1>5 DEF TypeInv, row
<1>7. \A e \in Districts : district'[e].d_ytd = district[e].d_ytd
  BY <1>5, <1>6
<1> HIDE DEF o
<1>8. NewOrderInserts(Log[n], o) \in Seq(InsertRows)
  BY <1>3, InsertsOf
<1>9. /\ inserts' \in [Workers -> Seq(InsertRows)] /\ inserts'[w] = NewOrderInserts(Log[n], o)
      /\ \A v \in Workers \ {w} : inserts'[v] = inserts[v]
  BY <1>4, <1>8 DEF TypeInv
<1>10. inserts[w] = <<>> /\ seen[w] = -1
  BY <1>4 DEF TypeInv
<1> QED
  BY <1>1, <1>3, <1>5, <1>6, <1>7, <1>9, <1>10 DEF o

(* What Payment does to its district. *)
LEMMA EnterPaymentDoes ==
  ASSUME TypeInv, NEW w \in Workers, NEW b \in Txns, EnterPayment(w, b),
         NEW n \in 1..Len(Log), EntryOf(b) = Log[n]
  PROVE  LET d == <<Log[n].w_id, Log[n].d_id>>
         IN  /\ d \in Districts /\ district[d].d_ytd \in Int
             /\ district' \in [Districts -> [d_ytd : Int, d_next_o_id : Int]]
             /\ district'[d].d_ytd = district[d].d_ytd + Log[n].h_amount
             /\ \A e \in Districts : district'[e].d_next_o_id = district[e].d_next_o_id
             /\ \A e \in Districts \ {d} : district'[e] = district[e]
<1> DEFINE d == <<Log[n].w_id, Log[n].d_id>>
           y == district[d].d_ytd + Log[n].h_amount
           row == [district[d] EXCEPT !.d_ytd = y]
<1>1. d \in Districts /\ Log[n].h_amount \in Nat
  BY LogTyped DEF Districts
<1>2. district[d] \in [d_ytd : Int, d_next_o_id : Int]
  BY <1>1 DEF TypeInv
<1>3. y \in Int
  BY <1>1, <1>2
<1>4. district' = [district EXCEPT ![d] = row]
  BY DEF EnterPayment
<1>5. /\ row \in [d_ytd : Int, d_next_o_id : Int] /\ row.d_ytd = y
      /\ row.d_next_o_id = district[d].d_next_o_id
  BY <1>2, <1>3
<1> HIDE DEF row
<1>6. /\ district' \in [Districts -> [d_ytd : Int, d_next_o_id : Int]] /\ district'[d] = row
      /\ \A e \in Districts \ {d} : district'[e] = district[e]
  BY <1>1, <1>4, <1>5 DEF TypeInv
<1> QED
  BY <1>1, <1>2, <1>5, <1>6

(* What the two halves of insert_row do. *)
LEMMA InsertCheckDoes ==
  ASSUME TypeInv, NEW w \in Workers, InsertCheck(w)
  PROVE  /\ inserts[w] # <<>> /\ seen' \in [Workers -> Int]
         /\ seen'[w] = cnt[Head(inserts[w]).table] /\ \A v \in Workers \ {w} : seen'[v] = seen[v]
         /\ UNCHANGED <<map, cnt, inserts, runtimeVars, rowVars>>
<1>1. Head(inserts[w]).table \in Tables
  BY HeadAndTail DEF TypeInv, InsertCheck, InsertRows
<1>2. cnt[Head(inserts[w]).table] \in Int
  BY <1>1 DEF TypeInv
<1> QED
  BY <1>2 DEF TypeInv, InsertCheck

LEMMA InsertStoreDoes ==
  ASSUME TypeInv, NEW w \in Workers, InsertStore(w)
  PROVE  LET s == inserts[w]
             i == s[1]
         IN  /\ s \in Seq(InsertRows) /\ s # <<>> /\ Len(s) \in Nat /\ Len(s) >= 1
             /\ i \in InsertRows /\ i.table \in Tables
             /\ DOMAIN map' = Tables /\ map'[i.table] = Put(map[i.table], i.key, i.row)
             /\ \A t \in Tables \ {i.table} : map'[t] = map[t]
             /\ cnt' \in [Tables -> Int] /\ cnt'[i.table] = seen[w] + 1
             /\ \A t \in Tables \ {i.table} : cnt'[t] = cnt[t]
             /\ inserts' \in [Workers -> Seq(InsertRows)] /\ Len(inserts'[w]) = Len(s) - 1
             /\ \A k \in 1..(Len(s) - 1) : inserts'[w][k] = s[k + 1]
             /\ \A v \in Workers \ {w} : inserts'[v] = inserts[v]
             /\ seen' \in [Workers -> Int] /\ seen'[w] = -1
             /\ \A v \in Workers \ {w} : seen'[v] = seen[v]
             /\ UNCHANGED <<runtimeVars, rowVars>>
<1> DEFINE s == inserts[w]
           i == Head(s)
<1>1. s \in Seq(InsertRows) /\ s # <<>>
  BY DEF TypeInv, InsertStore
<1>2. /\ Len(s) \in Nat /\ Len(s) >= 1 /\ i = s[1] /\ i \in InsertRows
      /\ Tail(s) \in Seq(InsertRows) /\ Len(Tail(s)) = Len(s) - 1
      /\ \A k \in 1..(Len(s) - 1) : Tail(s)[k] = s[k + 1]
  BY <1>1, HeadAndTail
<1>3. /\ map' = [map EXCEPT ![i.table] = Put(map[i.table], i.key, i.row)]
      /\ cnt' = [cnt EXCEPT ![i.table] = seen[w] + 1]
      /\ seen' = [seen EXCEPT ![w] = -1] /\ inserts' = [inserts EXCEPT ![w] = Tail(s)]
      /\ UNCHANGED <<runtimeVars, rowVars>>
  BY DEF InsertStore
<1> HIDE DEF i, s
<1>4. i.table \in Tables
  BY <1>2 DEF InsertRows
<1>5. /\ DOMAIN map' = Tables /\ map'[i.table] = Put(map[i.table], i.key, i.row)
      /\ \A t \in Tables \ {i.table} : map'[t] = map[t]
  BY <1>3, <1>4 DEF TypeInv
<1>6. /\ cnt' \in [Tables -> Int] /\ cnt'[i.table] = seen[w] + 1
      /\ \A t \in Tables \ {i.table} : cnt'[t] = cnt[t]
  BY <1>3, <1>4 DEF TypeInv
<1>7. /\ inserts' \in [Workers -> Seq(InsertRows)] /\ inserts'[w] = Tail(s)
      /\ \A v \in Workers \ {w} : inserts'[v] = inserts[v]
      /\ seen' \in [Workers -> Int] /\ seen'[w] = -1
      /\ \A v \in Workers \ {w} : seen'[v] = seen[v]
  BY <1>2, <1>3 DEF TypeInv
<1> QED
  BY <1>1, <1>2, <1>3, <1>4, <1>5, <1>6, <1>7 DEF s

(* What the runtime's part of a step does to running. *)
LEMMA RunningChanges ==
  ASSUME RP!RtIInv, NEW w \in Workers
  PROVE  /\ running \in [Workers -> 0..NumBehaviours]
         /\ \A b \in Txns : Start(w, b) =>
              running'[w] = b /\ b # 0 /\ \A v \in Workers \ {w} : running'[v] = running[v]
         /\ Finish(w) =>
              running'[w] = 0 /\ \A v \in Workers \ {w} : running'[v] = running[v]
<1>1. running \in [Workers -> 0..NumBehaviours]
  BY DEF RP!RtIInv, RP!RtTypeOK
<1> QED
  BY <1>1 DEF Start, Finish, Txns

Base == TypeInv /\ CownsInv /\ RP!RtIInv

LEMMA InitTypeInv == Init => TypeInv
<1> SUFFICES ASSUME Init PROVE TypeInv
  OBVIOUS
<1>1. w_ytd \in [Warehouses -> Int]
  BY DEF Init, LoadedYtd
<1>2. LoadedDistrict \in [d_ytd : Int, d_next_o_id : Int]
      /\ LoadedDistrict.d_next_o_id > InitialOrders
  BY SizesNat DEF LoadedDistrict, LoadedYtd
<1>3. /\ district \in [Districts -> [d_ytd : Int, d_next_o_id : Int]]
      /\ \A d \in Districts : district[d].d_next_o_id > InitialOrders
  BY <1>2 DEF Init
<1>4. /\ inserts = [w \in Workers |-> <<>>] /\ seen = [w \in Workers |-> -1]
      /\ \A w \in Workers : seen[w] = -1
  BY DEF Init
<1>5. <<>> \in Seq(InsertRows)
  BY EmptySeq
<1>6. /\ LoadedCnt.order \in Int /\ LoadedCnt.new_order \in Int /\ LoadedCnt.order_line \in Int
      /\ DOMAIN LoadedCnt = Tables
  <2>1. NumWarehouses * DistrictsPerWarehouse * InitialOrders \in Int
    BY SizesNat
  <2>2. InitialLines \in Nat
    BY TpccAssumption
  <2>3. NumWarehouses * DistrictsPerWarehouse * InitialOrders * InitialLines \in Int
    BY <2>1, <2>2
  <2> QED
    BY <2>1, <2>3 DEF LoadedCnt, Tables
<1>7. cnt \in [Tables -> Int]
  <2>1. \A t \in Tables : LoadedCnt[t] \in Int
    BY <1>6 DEF Tables
  <2>2. LoadedCnt = [t \in Tables |-> LoadedCnt[t]]
    BY DEF LoadedCnt, Tables
  <2> QED
    BY <2>1, <2>2 DEF Init
<1>8. DOMAIN map = Tables
  BY DEF Init, LoadedMap, Tables
<1> QED
  BY <1>1, <1>3, <1>4, <1>5, <1>7, <1>8 DEF TypeInv

LEMMA TypeInvStep == Base /\ [Next]_vars => TypeInv'
<1> SUFFICES ASSUME Base, [Next]_vars PROVE TypeInv'
  OBVIOUS
<1>0. TypeInv /\ RP!RtIInv
  BY DEF Base
<1>1. CASE UNCHANGED <<w_ytd, district, inserts, seen, cnt, map, running>>
  BY <1>0, <1>1 DEF TypeInv
<1>2. CASE ParseAndProcess \/ (\E c \in joining : Join(c)) \/ Done \/ UNCHANGED vars
  BY <1>1, <1>2 DEF ParseAndProcess, Join, Done, Spawn, Exchange, vars, rowVars, tableVars,
                    runtimeVars
<1>3. ASSUME NEW w \in Workers, NEW b \in Txns, EnterWarehouse(w, b) PROVE TypeInv'
  <2>1. PICK n \in 1..Len(Log) : EntryOf(b) = Log[n]
    BY EntryOfInLog
  <2>2. Log[n].w_id \in Warehouses /\ Log[n].h_amount \in Nat
    BY LogTyped
  <2>3. w_ytd' = [w_ytd EXCEPT ![Log[n].w_id] = w_ytd[Log[n].w_id] + Log[n].h_amount]
    BY <1>3, <2>1 DEF EnterWarehouse, AddToWarehouse
  <2>4. w_ytd' \in [Warehouses -> Int]
    BY <1>0, <2>2, <2>3 DEF TypeInv
  <2>5. UNCHANGED <<district, inserts, seen, cnt, map>> /\ Start(w, b)
    BY <1>3 DEF EnterWarehouse, tableVars
  <2>6. \A v \in Workers : running'[v] = 0 => running[v] = 0
    BY <1>0, <2>5, RunningChanges
  <2> QED
    BY <1>0, <2>4, <2>5, <2>6 DEF TypeInv
<1>4. ASSUME NEW w \in Workers, NEW b \in Txns, EnterNewOrder(w, b) PROVE TypeInv'
  <2>1. PICK n \in 1..Len(Log) : EntryOf(b) = Log[n]
    BY EntryOfInLog
  <2> DEFINE d == <<Log[n].w_id, Log[n].d_id>>
             o == district[d].d_next_o_id
  <2>2. Log[n].w_id \in Warehouses /\ Log[n].h_amount \in Nat
    BY LogTyped
  <2>3. \/ w_ytd' = [w_ytd EXCEPT ![Log[n].w_id] = w_ytd[Log[n].w_id] + Log[n].h_amount]
        \/ w_ytd' = w_ytd
    BY <1>4, <2>1 DEF EnterNewOrder, AddToWarehouse
  <2>4. w_ytd' \in [Warehouses -> Int]
    BY <1>0, <2>2, <2>3 DEF TypeInv
  <2>5. UNCHANGED <<seen, cnt, map>> /\ Start(w, b)
    BY <1>4 DEF EnterNewOrder
  <2>6. \A v \in Workers : (running'[v] = 0 => running[v] = 0) /\ running'[w] # 0
    BY <1>0, <2>5, RunningChanges
  <2>7. /\ d \in Districts /\ o \in Int /\ o > InitialOrders
        /\ district' \in [Districts -> [d_ytd : Int, d_next_o_id : Int]]
        /\ district'[d].d_next_o_id = o + 1
        /\ \A e \in Districts \ {d} : district'[e] = district[e]
        /\ inserts' \in [Workers -> Seq(InsertRows)]
        /\ \A v \in Workers \ {w} : inserts'[v] = inserts[v]
        /\ seen[w] = -1
    BY <1>0, <1>4, <2>1, EnterNewOrderDoes
  <2> HIDE DEF d, o
  <2>8. \A e \in Districts : district'[e].d_next_o_id > InitialOrders
    <3>1. \A e \in Districts : district[e].d_next_o_id > InitialOrders
      BY <1>0 DEF TypeInv
    <3>2. o + 1 > InitialOrders
      BY <2>7, SizesNat
    <3> QED
      BY <2>7, <3>1, <3>2
  <2>9. \A v \in Workers : (running'[v] = 0 => inserts'[v] = <<>>)
                            /\ (seen'[v] # -1 => inserts'[v] # <<>>)
    BY <1>0, <2>5, <2>6, <2>7 DEF TypeInv
  <2> QED
    BY <1>0, <2>4, <2>5, <2>7, <2>8, <2>9 DEF TypeInv
<1>5. ASSUME NEW w \in Workers, NEW b \in Txns, EnterPayment(w, b) PROVE TypeInv'
  <2>1. PICK n \in 1..Len(Log) : EntryOf(b) = Log[n]
    BY EntryOfInLog
  <2>2. Log[n].w_id \in Warehouses /\ Log[n].h_amount \in Nat
    BY LogTyped
  <2>3. \/ w_ytd' = [w_ytd EXCEPT ![Log[n].w_id] = w_ytd[Log[n].w_id] + Log[n].h_amount]
        \/ w_ytd' = w_ytd
    BY <1>5, <2>1 DEF EnterPayment, AddToWarehouse
  <2>4. w_ytd' \in [Warehouses -> Int]
    BY <1>0, <2>2, <2>3 DEF TypeInv
  <2>5. UNCHANGED <<inserts, seen, cnt, map>> /\ Start(w, b)
    BY <1>5 DEF EnterPayment, tableVars
  <2>6. \A v \in Workers : running'[v] = 0 => running[v] = 0
    BY <1>0, <2>5, RunningChanges
  <2>7. /\ district' \in [Districts -> [d_ytd : Int, d_next_o_id : Int]]
        /\ \A e \in Districts : district'[e].d_next_o_id = district[e].d_next_o_id
    BY <1>0, <1>5, <2>1, EnterPaymentDoes
  <2> QED
    BY <1>0, <2>4, <2>5, <2>6, <2>7 DEF TypeInv
<1>6. ASSUME NEW w \in Workers, InsertCheck(w) PROVE TypeInv'
  <2>1. /\ inserts[w] # <<>> /\ seen' \in [Workers -> Int]
        /\ \A v \in Workers \ {w} : seen'[v] = seen[v]
        /\ UNCHANGED <<map, cnt, inserts, runtimeVars, rowVars>>
    BY <1>0, <1>6, InsertCheckDoes
  <2>2. UNCHANGED <<w_ytd, district, running, map, cnt, inserts>>
    BY <2>1 DEF rowVars, runtimeVars
  <2> QED
    BY <1>0, <2>1, <2>2 DEF TypeInv
<1>7. ASSUME NEW w \in Workers, InsertStore(w) PROVE TypeInv'
  <2>1. /\ DOMAIN map' = Tables /\ cnt' \in [Tables -> Int]
        /\ inserts[w] # <<>> /\ inserts' \in [Workers -> Seq(InsertRows)]
        /\ \A v \in Workers \ {w} : inserts'[v] = inserts[v]
        /\ seen' \in [Workers -> Int] /\ seen'[w] = -1
        /\ \A v \in Workers \ {w} : seen'[v] = seen[v]
        /\ UNCHANGED <<runtimeVars, rowVars>>
    BY <1>0, <1>7, InsertStoreDoes
  <2>2. UNCHANGED <<w_ytd, district, running>>
    BY <2>1 DEF rowVars, runtimeVars
  <2>3. running[w] # 0
    BY <1>0, <2>1 DEF TypeInv
  <2> QED
    BY <1>0, <2>1, <2>2, <2>3 DEF TypeInv
<1>8. ASSUME NEW w \in Workers, Leave(w) PROVE TypeInv'
  <2>1. /\ inserts[w] = <<>> /\ Finish(w)
        /\ UNCHANGED <<w_ytd, district, map, cnt, inserts, seen>>
    BY <1>8 DEF Leave, rowVars, tableVars
  <2>2. \A v \in Workers \ {w} : running'[v] = running[v]
    BY <1>0, <2>1, RunningChanges
  <2> QED
    BY <1>0, <2>1, <2>2 DEF TypeInv
<1> QED
  BY <1>2, <1>3, <1>4, <1>5, <1>6, <1>7, <1>8 DEF Next

LEMMA BaseInvariance == Spec => []Base
BY InitTypeInv, TypeInvStep, CownsInvariance, PTL DEF Spec, Base

-----------------------------------------------------------------------------
(* The order ids that a district has given out, and the inserts of such an *)
(* order: in the table of orders, of new orders, of order lines.           *)
Given(d) == (InitialOrders + 1)..(district[d].d_next_o_id - 1)

OrderInsert(i, d, o) ==
  /\ i.table \in {"order", "new_order"}
  /\ i.key = OrderKey(d[1], d[2], o) /\ i.row = <<d[1], d[2], o>>

LineInsert(i, d, o) ==
  /\ i.table = "order_line"
  /\ \E n \in 1..15 : i.key = OrderLineKey(d[1], d[2], OrderKey(d[1], d[2], o), n)

IsInsert(i, d, o) == OrderInsert(i, d, o) \/ LineInsert(i, d, o)

InsertsInv ==
  \A w \in Workers : \A k \in 1..Len(inserts[w]) :
    \E d \in Districts : \E o \in Given(d) : IsInsert(inserts[w][k], d, o)

(* Steps that neither give out an order id nor insert. *)
LEMMA OtherSteps ==
  ASSUME Base, [Next]_vars,
         ~ \E w \in Workers, b \in Txns : EnterNewOrder(w, b),
         ~ \E w \in Workers : InsertStore(w)
  PROVE  /\ UNCHANGED <<inserts, map>>
         /\ \A d \in Districts : district'[d].d_next_o_id = district[d].d_next_o_id
<1>0. TypeInv
  BY DEF Base
<1>1. CASE UNCHANGED <<inserts, map, district>>
  BY <1>1
<1>2. CASE ParseAndProcess \/ (\E c \in joining : Join(c)) \/ Done \/ UNCHANGED vars
  BY <1>1, <1>2 DEF ParseAndProcess, Join, Done, vars, rowVars, tableVars
<1>3. ASSUME NEW w \in Workers, NEW b \in Txns, EnterWarehouse(w, b)
      PROVE  UNCHANGED <<inserts, map, district>>
  BY <1>3 DEF EnterWarehouse, tableVars
<1>4. ASSUME NEW w \in Workers, NEW b \in Txns, EnterPayment(w, b)
      PROVE  /\ UNCHANGED <<inserts, map>>
             /\ \A d \in Districts : district'[d].d_next_o_id = district[d].d_next_o_id
  <2>1. PICK n \in 1..Len(Log) : EntryOf(b) = Log[n]
    BY EntryOfInLog
  <2>2. \A d \in Districts : district'[d].d_next_o_id = district[d].d_next_o_id
    BY <1>0, <1>4, <2>1, EnterPaymentDoes
  <2> QED
    BY <1>4, <2>2 DEF EnterPayment, tableVars
<1>5. ASSUME NEW w \in Workers, InsertCheck(w) \/ Leave(w)
      PROVE  UNCHANGED <<inserts, map, district>>
  BY <1>5 DEF InsertCheck, Leave, rowVars, tableVars
<1> QED
  BY <1>1, <1>2, <1>3, <1>4, <1>5 DEF Next

(* No district takes an order id back. *)
LEMMA IdsGrow ==
  ASSUME Base, [Next]_vars, NEW d \in Districts
  PROVE  /\ district[d].d_next_o_id \in Int /\ district'[d].d_next_o_id \in Int
         /\ district[d].d_next_o_id <= district'[d].d_next_o_id
<1>0. TypeInv /\ TypeInv'
  BY TypeInvStep DEF Base
<1>1. district[d].d_next_o_id \in Int /\ district'[d].d_next_o_id \in Int
  BY <1>0 DEF TypeInv
<1>2. ASSUME NEW w \in Workers, NEW b \in Txns, EnterNewOrder(w, b)
      PROVE  district[d].d_next_o_id <= district'[d].d_next_o_id
  <2>1. PICK n \in 1..Len(Log) : EntryOf(b) = Log[n]
    BY EntryOfInLog
  <2> DEFINE e == <<Log[n].w_id, Log[n].d_id>>
  <2>2. /\ e \in Districts /\ district'[e].d_next_o_id = district[e].d_next_o_id + 1
        /\ \A f \in Districts \ {e} : district'[f] = district[f]
    BY <1>0, <1>2, <2>1, EnterNewOrderDoes
  <2> HIDE DEF e
  <2> QED
    BY <1>1, <2>2
<1>3. ASSUME NEW w \in Workers, InsertStore(w)
      PROVE  district[d].d_next_o_id <= district'[d].d_next_o_id
  BY <1>1, <1>3 DEF InsertStore, rowVars
<1> QED
  BY <1>1, <1>2, <1>3, OtherSteps

LEMMA InsertsInvStep == Base /\ InsertsInv /\ [Next]_vars => InsertsInv'
<1> SUFFICES ASSUME Base, InsertsInv, [Next]_vars PROVE InsertsInv'
  OBVIOUS
<1>0. TypeInv
  BY DEF Base
<1>1. \A d \in Districts : Given(d) \subseteq Given(d)'
  BY IdsGrow, SizesNat DEF Given
<1>2. ASSUME NEW v \in Workers,
             \A k \in 1..Len(inserts'[v]) : \E l \in 1..Len(inserts[v]) :
               inserts'[v][k] = inserts[v][l]
      PROVE  \A k \in 1..Len(inserts'[v]) :
               \E d \in Districts : \E o \in Given(d)' : IsInsert(inserts'[v][k], d, o)
  BY <1>1, <1>2 DEF InsertsInv
<1>3. ASSUME NEW v \in Workers, inserts'[v] = inserts[v]
      PROVE  \A k \in 1..Len(inserts'[v]) :
               \E d \in Districts : \E o \in Given(d)' : IsInsert(inserts'[v][k], d, o)
  BY <1>2, <1>3
<1>4. ASSUME NEW w \in Workers, NEW b \in Txns, EnterNewOrder(w, b) PROVE InsertsInv'
  <2>1. PICK n \in 1..Len(Log) : EntryOf(b) = Log[n]
    BY EntryOfInLog
  <2> DEFINE t == Log[n]
             d == <<t.w_id, t.d_id>>
             o == district[d].d_next_o_id
             s == NewOrderInserts(t, o)
             m == Len(t.lines)
  <2>2. /\ d \in Districts /\ o \in Int /\ o > InitialOrders
        /\ district'[d].d_next_o_id = o + 1
        /\ inserts'[w] = s /\ \A v \in Workers \ {w} : inserts'[v] = inserts[v]
    BY <1>0, <1>4, <2>1, EnterNewOrderDoes
  <2>3. d[1] = t.w_id /\ d[2] = t.d_id
    OBVIOUS
  <2> HIDE DEF t, d, o
  <2>4. /\ Len(s) = m + 2 /\ m \in 0..15
        /\ \A k \in 1..m : s[k] = InsertOrderLine(t, OrderKey(t.w_id, t.d_id, o), k)
        /\ s[m + 1] = [table |-> "order", key |-> OrderKey(t.w_id, t.d_id, o),
                       row |-> <<t.w_id, t.d_id, o>>]
        /\ s[m + 2] = [table |-> "new_order", key |-> OrderKey(t.w_id, t.d_id, o),
                       row |-> <<t.w_id, t.d_id, o>>]
    BY <2>2, InsertsOf DEF t
  <2> HIDE DEF s, m
  <2>5. o \in Given(d)'
    BY <2>2, SizesNat DEF Given
  <2>6. ASSUME NEW k \in 1..Len(s) PROVE IsInsert(s[k], d, o)
    <3>1. CASE k \in 1..m
      <4>1. k \in 1..15
        BY <2>4, <3>1
      <4>2. s[k] = InsertOrderLine(t, OrderKey(t.w_id, t.d_id, o), k)
        BY <2>4, <3>1
      <4>3. /\ s[k].table = "order_line"
            /\ s[k].key = OrderLineKey(d[1], d[2], OrderKey(d[1], d[2], o), k)
        BY <2>3, <4>2 DEF InsertOrderLine
      <4> QED
        BY <4>1, <4>3 DEF IsInsert, LineInsert
    <3>2. CASE k = m + 1 \/ k = m + 2
      BY <2>3, <2>4, <3>2 DEF IsInsert, OrderInsert
    <3> QED
      BY <2>4, <3>1, <3>2
  <2>7. ASSUME NEW v \in Workers, NEW k \in 1..Len(inserts'[v])
        PROVE  \E e \in Districts : \E q \in Given(e)' : IsInsert(inserts'[v][k], e, q)
    <3>1. CASE v = w
      BY <2>2, <2>5, <2>6, <3>1
    <3>2. CASE v # w
      BY <1>3, <2>2, <3>2
    <3> QED
      BY <3>1, <3>2
  <2> QED
    BY <2>7 DEF InsertsInv
<1>5. ASSUME NEW w \in Workers, InsertStore(w) PROVE InsertsInv'
  <2>1. /\ Len(inserts[w]) \in Nat /\ Len(inserts'[w]) = Len(inserts[w]) - 1
        /\ \A k \in 1..(Len(inserts[w]) - 1) : inserts'[w][k] = inserts[w][k + 1]
        /\ \A v \in Workers \ {w} : inserts'[v] = inserts[v]
    BY <1>0, <1>5, InsertStoreDoes
  <2>2. \A k \in 1..Len(inserts'[w]) : \E l \in 1..Len(inserts[w]) :
          inserts'[w][k] = inserts[w][l]
    <3> SUFFICES ASSUME NEW k \in 1..Len(inserts'[w])
                 PROVE  k + 1 \in 1..Len(inserts[w]) /\ inserts'[w][k] = inserts[w][k + 1]
      OBVIOUS
    <3> QED
      BY <2>1
  <2>3. ASSUME NEW v \in Workers
        PROVE  \A k \in 1..Len(inserts'[v]) :
                 \E d \in Districts : \E o \in Given(d)' : IsInsert(inserts'[v][k], d, o)
    BY <1>2, <1>3, <2>1, <2>2
  <2> QED
    BY <2>3 DEF InsertsInv
<1>6. CASE UNCHANGED inserts
  BY <1>3, <1>6 DEF InsertsInv
<1> QED
  BY <1>4, <1>5, <1>6, OtherSteps

LEMMA InsertsInvariance == Spec => [](Base /\ InsertsInv)
<1>1. Init => InsertsInv
  BY DEF Init, InsertsInv
<1> QED
  BY <1>1, InsertsInvStep, BaseInvariance, PTL DEF Spec

(* While no district has had MAX_ORDER_TRANSACTIONS new orders, different   *)
(* orders have different keys.                                             *)
WithinLimit == \A d \in Districts : district[d].d_next_o_id <= OrdersPerDistrict + 1

LEMMA OrderKeysDiffer ==
  ASSUME NEW d \in Districts, NEW e \in Districts,
         NEW o \in 1..OrdersPerDistrict, NEW q \in 1..OrdersPerDistrict,
         OrderKey(d[1], d[2], o) = OrderKey(e[1], e[2], q)
  PROVE  d = e /\ o = q
<1>1. /\ d[1] \in Warehouses /\ d[2] \in 1..DistrictsPerWarehouse
      /\ e[1] \in Warehouses /\ e[2] \in 1..DistrictsPerWarehouse
      /\ d = <<d[1], d[2]>> /\ e = <<e[1], e[2]>>
  BY DEF Districts
<1>2. /\ d[1] \in Int /\ d[2] \in Int /\ e[1] \in Int /\ e[2] \in Int
      /\ o \in Int /\ q \in Int
  BY <1>1, SizesNat DEF Warehouses
<1> DEFINE x == DistrictsBefore(d[1], d[2])
           y == DistrictsBefore(e[1], e[2])
           r == o - 1
           s == q - 1
           n == OrdersPerDistrict
<1>3. x * n + r = y * n + s
  <2> DEFINE K(a, b, c) == DistrictsBefore(a, b) * n + (c - 1)
  <2>1. \A a, b, c \in Int : OrderKey(a, b, c) = K(a, b, c)
    BY OrderKeyDigits
  <2> HIDE DEF K
  <2>2. OrderKey(d[1], d[2], o) = K(d[1], d[2], o)
    BY ONLY <1>2, <2>1
  <2>3. OrderKey(e[1], e[2], q) = K(e[1], e[2], q)
    BY ONLY <1>2, <2>1
  <2>4. K(d[1], d[2], o) = K(e[1], e[2], q)
    BY <2>2, <2>3
  <2> QED
    BY <2>4 DEF K
<1>4. x \in Nat /\ y \in Nat /\ n \in Nat /\ r \in 0..(n - 1) /\ s \in 0..(n - 1)
  BY <1>1, SizesNat, DistrictsBeforeBound
<1> HIDE DEF x, y, r, s, n
<1>5. x = y /\ r = s
  BY <1>3, <1>4, Digits
<1>6. d[1] = e[1] /\ d[2] = e[2]
  BY <1>1, <1>5, DistrictsBeforeInjective DEF x, y
<1>7. o = q
  BY <1>2, <1>5 DEF r, s
<1> QED
  BY <1>1, <1>6, <1>7

(* An order given out is in its table, or a lambda has yet to insert it. *)
Placed(d, o, table) ==
  LET key == OrderKey(d[1], d[2], o) IN
  key \in DOMAIN map[table] /\ map[table][key] = <<d[1], d[2], o>>

Pending(d, o, table) ==
  \E w \in Workers : \E k \in 1..Len(inserts[w]) :
    inserts[w][k].table = table /\ inserts[w][k].row = <<d[1], d[2], o>>

OrdersInv ==
  WithinLimit =>
    \A d \in Districts, table \in {"order", "new_order"} :
      \A o \in Given(d) : Pending(d, o, table) \/ Placed(d, o, table)

LEMMA GivenBelow ==
  ASSUME TypeInv, WithinLimit, NEW d \in Districts, NEW o \in Given(d)
  PROVE  o \in 1..OrdersPerDistrict
<1>1. district[d].d_next_o_id \in Int /\ district[d].d_next_o_id <= OrdersPerDistrict + 1
  BY DEF TypeInv, WithinLimit
<1> QED
  BY <1>1, SizesNat DEF Given

LEMMA OrdersInvStep == Base /\ InsertsInv /\ OrdersInv /\ [Next]_vars => OrdersInv'
<1> SUFFICES ASSUME Base, InsertsInv, OrdersInv, [Next]_vars, WithinLimit',
                    NEW d \in Districts, NEW table \in {"order", "new_order"},
                    NEW o \in Given(d)'
             PROVE  Pending(d, o, table)' \/ Placed(d, o, table)'
  BY DEF OrdersInv
<1>0. TypeInv
  BY DEF Base
<1>1. WithinLimit
  <2> SUFFICES ASSUME NEW e \in Districts
               PROVE  district[e].d_next_o_id <= OrdersPerDistrict + 1
    BY DEF WithinLimit
  <2>1. district'[e].d_next_o_id <= OrdersPerDistrict + 1
    BY DEF WithinLimit
  <2> QED
    BY <2>1, IdsGrow, SizesNat
<1>2. ASSUME o \in Given(d) PROVE Pending(d, o, table) \/ Placed(d, o, table)
  BY <1>1, <1>2 DEF OrdersInv
<1>3. ASSUME NEW w \in Workers, NEW b \in Txns, EnterNewOrder(w, b)
      PROVE  Pending(d, o, table)' \/ Placed(d, o, table)'
  <2>1. PICK n \in 1..Len(Log) : EntryOf(b) = Log[n]
    BY EntryOfInLog
  <2> DEFINE t == Log[n]
             e == <<t.w_id, t.d_id>>
             q == district[e].d_next_o_id
             s == NewOrderInserts(t, q)
             m == Len(t.lines)
  <2>2. /\ e \in Districts /\ q \in Int /\ q = district[e].d_next_o_id
        /\ district'[e].d_next_o_id = q + 1
        /\ \A f \in Districts \ {e} : district'[f] = district[f]
        /\ inserts[w] = <<>>
        /\ inserts'[w] = s /\ \A v \in Workers \ {w} : inserts'[v] = inserts[v]
    BY <1>0, <1>3, <2>1, EnterNewOrderDoes
  <2>3. e[1] = t.w_id /\ e[2] = t.d_id /\ map' = map
    BY <1>3 DEF EnterNewOrder
  <2> HIDE DEF t, e, q
  <2>4. /\ Len(s) = m + 2 /\ m \in 0..15
        /\ s[m + 1] = [table |-> "order", key |-> OrderKey(t.w_id, t.d_id, q),
                       row |-> <<t.w_id, t.d_id, q>>]
        /\ s[m + 2] = [table |-> "new_order", key |-> OrderKey(t.w_id, t.d_id, q),
                       row |-> <<t.w_id, t.d_id, q>>]
    BY <2>2, InsertsOf DEF t
  <2> HIDE DEF s, m
  <2>5. CASE o \in Given(d)
    <3>1. CASE Placed(d, o, table)
      BY <2>3, <3>1 DEF Placed
    <3>2. CASE Pending(d, o, table)
      <4>0. PICK v \in Workers : \E k \in 1..Len(inserts[v]) :
              inserts[v][k].table = table /\ inserts[v][k].row = <<d[1], d[2], o>>
        BY <3>2 DEF Pending
      <4>1. PICK k \in 1..Len(inserts[v]) :
              inserts[v][k].table = table /\ inserts[v][k].row = <<d[1], d[2], o>>
        BY <4>0
      <4>2. v # w
        BY <2>2, <4>1
      <4>3. inserts'[v] = inserts[v]
        BY <2>2, <4>2
      <4> QED
        BY <4>1, <4>3 DEF Pending
    <3> QED
      BY <1>2, <2>5, <3>1, <3>2
  <2>6. CASE o \notin Given(d)
    <3>1. d = e /\ o = q
      BY <2>2, <2>6, SizesNat DEF Given
    <3>2. m + 1 \in 1..Len(inserts'[w]) /\ m + 2 \in 1..Len(inserts'[w])
      BY <2>2, <2>4
    <3>3. Pending(d, o, table)'
      <4>1. CASE table = "order"
        BY <2>2, <2>3, <2>4, <3>1, <3>2, <4>1 DEF Pending
      <4>2. CASE table = "new_order"
        BY <2>2, <2>3, <2>4, <3>1, <3>2, <4>2 DEF Pending
      <4> QED
        BY <4>1, <4>2
    <3> QED
      BY <3>3
  <2> QED
    BY <2>5, <2>6
<1>4. ASSUME NEW w \in Workers, InsertStore(w)
      PROVE  Pending(d, o, table)' \/ Placed(d, o, table)'
  <2> DEFINE s == inserts[w]
             i == s[1]
  <2>1. /\ Len(s) \in Nat /\ Len(s) >= 1 /\ i.table \in Tables
        /\ map'[i.table] = Put(map[i.table], i.key, i.row)
        /\ \A t \in Tables \ {i.table} : map'[t] = map[t]
        /\ Len(inserts'[w]) = Len(s) - 1
        /\ \A k \in 1..(Len(s) - 1) : inserts'[w][k] = s[k + 1]
        /\ \A v \in Workers \ {w} : inserts'[v] = inserts[v]
        /\ UNCHANGED <<runtimeVars, rowVars>>
    BY <1>0, <1>4, InsertStoreDoes
  <2>2. o \in Given(d) /\ table \in Tables
    BY <2>1 DEF Given, rowVars, Tables
  <2>0. PICK e \in Districts : \E q \in Given(e) : IsInsert(i, e, q)
    BY <2>1 DEF InsertsInv
  <2>3. PICK q \in Given(e) : IsInsert(i, e, q)
    BY <2>0
  <2> DEFINE key == OrderKey(d[1], d[2], o)
             row == <<d[1], d[2], o>>
  <2>4. ASSUME Pending(d, o, table), ~ (i.table = table /\ i.row = row)
        PROVE  Pending(d, o, table)'
    <3>0. PICK v \in Workers : \E k \in 1..Len(inserts[v]) :
            inserts[v][k].table = table /\ inserts[v][k].row = row
      BY <2>4 DEF Pending
    <3>1. PICK k \in 1..Len(inserts[v]) :
            inserts[v][k].table = table /\ inserts[v][k].row = row
      BY <3>0
    <3>2. CASE v # w
      <4>1. inserts'[v] = inserts[v]
        BY <2>1, <3>2
      <4> QED
        BY <3>1, <4>1 DEF Pending
    <3>3. CASE v = w
      <4>1. k # 1 /\ k \in 1..Len(s)
        BY <2>4, <3>1, <3>3
      <4>2. ASSUME NEW n \in Nat, NEW l \in 1..n, l # 1
            PROVE  l - 1 \in 1..(n - 1) /\ (l - 1) + 1 = l
        BY <4>2
      <4>3. k - 1 \in 1..(Len(s) - 1) /\ (k - 1) + 1 = k
        BY <2>1, <4>1, <4>2
      <4>4. inserts'[w][k - 1] = s[k] /\ k - 1 \in 1..Len(inserts'[w])
        BY <2>1, <4>3
      <4> QED
        BY <3>1, <3>3, <4>4 DEF Pending
    <3> QED
      BY <3>2, <3>3
  <2>5. CASE i.table = table
    <3>1. i.key = OrderKey(e[1], e[2], q) /\ i.row = <<e[1], e[2], q>>
      BY <2>3, <2>5 DEF IsInsert, OrderInsert, LineInsert
    <3>2. o \in 1..OrdersPerDistrict /\ q \in 1..OrdersPerDistrict
      BY <1>0, <1>1, <2>2, GivenBelow
    <3>3. i.key = key <=> i.row = row
      BY <3>1, <3>2, OrderKeysDiffer
    <3>4. /\ DOMAIN map'[table] = DOMAIN map[table] \cup {i.key}
          /\ \A k \in DOMAIN map'[table] :
               map'[table][k] = IF k = i.key THEN i.row ELSE map[table][k]
      BY <2>1, <2>5 DEF Put
    <3>5. CASE i.row = row \/ Placed(d, o, table)
      <4> HIDE DEF i, key, row
      <4>1. key \in DOMAIN map'[table] /\ map'[table][key] = row
        BY <3>3, <3>4, <3>5 DEF Placed, key, row
      <4> QED
        BY <4>1 DEF Placed, key, row
    <3> QED
      BY <1>2, <2>2, <2>4, <3>5
  <2>6. CASE i.table # table
    <3>1. map'[table] = map[table]
      BY <2>1, <2>2, <2>6
    <3>2. CASE Placed(d, o, table)
      BY <3>1, <3>2 DEF Placed
    <3> QED
      BY <1>2, <2>2, <2>4, <2>6, <3>2
  <2> QED
    BY <2>5, <2>6
<1>5. CASE ~ (\E w \in Workers, b \in Txns : EnterNewOrder(w, b))
           /\ ~ \E w \in Workers : InsertStore(w)
  <2>1. UNCHANGED <<inserts, map>> /\ district'[d].d_next_o_id = district[d].d_next_o_id
    BY <1>5, OtherSteps
  <2>2. o \in Given(d)
    BY <2>1 DEF Given
  <2> QED
    BY <1>2, <2>1, <2>2 DEF Pending, Placed
<1> QED
  BY <1>3, <1>4, <1>5

(* The order ids a district gives out are consecutive, and every one of    *)
(* them is in both tables at its own key, or some lambda is about to put   *)
(* it there, although lambdas insert into the tables without a lock.       *)
THEOREM OrdersCompleteHolds == Spec => []OrdersComplete
<1>1. Init => OrdersInv
  <2> SUFFICES ASSUME Init, NEW d \in Districts PROVE Given(d) = {}
    BY DEF OrdersInv
  <2>1. district[d].d_next_o_id = InitialOrders + 1
    BY DEF Init, LoadedDistrict
  <2> QED
    BY <2>1, SizesNat DEF Given
<1>2. OrdersInv => OrdersComplete
  <2> SUFFICES ASSUME OrdersInv, WithinLimit, NEW d \in Districts,
                      NEW table \in {"order", "new_order"},
                      NEW o \in Given(d) \ Unfinished(d, table)
               PROVE  Placed(d, o, table)
    BY DEF OrdersComplete, WithinLimit, Given, Placed
  <2>1. ~Pending(d, o, table)
    BY DEF Pending, Unfinished, Given
  <2> QED
    BY <2>1 DEF OrdersInv
<1> QED
  BY <1>1, <1>2, OrdersInvStep, InsertsInvariance, PTL DEF Spec

-----------------------------------------------------------------------------
LEMMA BehaviourOfEntry ==
  ASSUME NEW n \in 1..Len(Log)
  PROVE  /\ MainOf(n) \in Txns /\ PayerOf(n) \in Txns
         /\ EntryOf(MainOf(n)) = Log[n] /\ ~IsWarehouseOp(MainOf(n))
         /\ EntryOf(PayerOf(n)) = Log[n]
         /\ \A m \in 1..Len(Log) : MainOf(m) = MainOf(n) => m = n
         /\ \A m \in 1..Len(Log) : PayerOf(m) = PayerOf(n) => m = n
         /\ WarehouseSplit => \A m \in 1..Len(Log) : PayerOf(m) # MainOf(n)
<1>1. WarehouseSplit \in BOOLEAN /\ Len(Log) \in Nat
  BY TpccAssumption
<1>2. CASE WarehouseSplit
  <2>1. /\ (2 * n + 1) \div 2 = n /\ (2 * n) % 2 = 0 /\ ((2 * n - 1) + 1) \div 2 = n
        /\ 2 * n \in 1..(2 * Len(Log)) /\ 2 * n - 1 \in 1..(2 * Len(Log))
    BY <1>1
  <2>2. MainOf(n) = 2 * n /\ PayerOf(n) = 2 * n - 1 /\ NumBehaviours = 2 * Len(Log)
    BY <1>2 DEF MainOf, PayerOf, NumBehaviours
  <2>3. /\ MainOf(n) \in Txns /\ PayerOf(n) \in Txns
        /\ EntryOf(MainOf(n)) = Log[n] /\ EntryOf(PayerOf(n)) = Log[n]
    BY <1>2, <2>1, <2>2 DEF Txns, EntryOf
  <2>4. ~IsWarehouseOp(MainOf(n))
    BY <2>1, <2>2 DEF IsWarehouseOp
  <2>5. \A m \in 1..Len(Log) : /\ 2 * m = 2 * n => m = n
                               /\ 2 * m - 1 = 2 * n - 1 => m = n
                               /\ 2 * m - 1 # 2 * n
    BY <1>1
  <2> QED
    BY <1>2, <2>2, <2>3, <2>4, <2>5 DEF MainOf, PayerOf
<1>3. CASE ~WarehouseSplit
  BY <1>1, <1>3 DEF MainOf, PayerOf, NumBehaviours, Txns, EntryOf, IsWarehouseOp
<1> QED
  BY <1>1, <1>2, <1>3

LEMMA EntryOfBehaviour ==
  ASSUME NEW b \in Txns
  PROVE  \E n \in 1..Len(Log) : /\ EntryOf(b) = Log[n]
                                /\ IsWarehouseOp(b) => WarehouseSplit /\ b = PayerOf(n)
                                /\ ~IsWarehouseOp(b) => b = MainOf(n)
<1>1. WarehouseSplit \in BOOLEAN /\ Len(Log) \in Nat
  BY TpccAssumption
<1>2. CASE WarehouseSplit
  <2>1. b \in 1..(2 * Len(Log))
    BY <1>2 DEF Txns, NumBehaviours
  <2> DEFINE n == (b + 1) \div 2
  <2>2. /\ n \in 1..Len(Log)
        /\ b % 2 = 1 => b = 2 * n - 1
        /\ b % 2 # 1 => b = 2 * n
    BY <1>1, <2>1
  <2>3. EntryOf(b) = Log[n]
    BY <1>2 DEF EntryOf
  <2>4. /\ IsWarehouseOp(b) => b = PayerOf(n)
        /\ ~IsWarehouseOp(b) => b = MainOf(n)
    BY <1>2, <2>2 DEF IsWarehouseOp, MainOf, PayerOf
  <2> HIDE DEF n
  <2> QED
    BY <1>2, <2>2, <2>3, <2>4
<1>3. CASE ~WarehouseSplit
  BY <1>1, <1>3 DEF MainOf, NumBehaviours, Txns, EntryOf, IsWarehouseOp
<1> QED
  BY <1>1, <1>2, <1>3

(* Entering a lambda begins it, and nothing else does. *)
LEMMA StartBegins ==
  ASSUME Base, NEW w \in Workers, NEW b \in Txns, Start(w, b)
  PROVE  ~Begun(b) /\ \A c \in Txns : Begun(c)' <=> (Begun(c) \/ c = b)
<1>1. running[w] = 0 /\ Ready(b) /\ UNCHANGED finished
  BY DEF Start
<1>2. /\ running'[w] = b /\ b # 0 /\ \A v \in Workers \ {w} : running'[v] = running[v]
  BY RunningChanges DEF Base
<1>3. ~Begun(b)
  BY <1>1 DEF Begun, Ready
<1>4. ASSUME NEW c \in Txns PROVE Begun(c)' <=> (Begun(c) \/ c = b)
  <2>1. c # 0
    BY DEF Txns
  <2> QED
    BY <1>1, <1>2, <2>1 DEF Begun
<1> QED
  BY <1>3, <1>4

LEMMA FinishBeginsNone ==
  ASSUME Base, NEW w \in Workers, Finish(w), NEW c \in Txns
  PROVE  Begun(c)' <=> Begun(c)
<1>1. finished' = finished \cup {running[w]}
  BY DEF Finish
<1>2. running'[w] = 0 /\ \A v \in Workers \ {w} : running'[v] = running[v]
  BY RunningChanges DEF Base
<1>3. c # 0
  BY DEF Txns
<1> QED
  BY <1>1, <1>2, <1>3 DEF Begun

(* Steps that enter no lambda. *)
Entering == \E w \in Workers, b \in Txns :
              EnterWarehouse(w, b) \/ EnterNewOrder(w, b) \/ EnterPayment(w, b)

LEMMA NoneBegins ==
  ASSUME Base, [Next]_vars, ~Entering
  PROVE  UNCHANGED <<w_ytd, district>> /\ \A c \in Txns : Begun(c)' <=> Begun(c)
<1>1. ASSUME UNCHANGED <<running, finished>>, NEW c \in Txns PROVE Begun(c)' <=> Begun(c)
  BY <1>1 DEF Begun
<1>2. CASE ParseAndProcess \/ (\E c \in joining : Join(c)) \/ Done \/ UNCHANGED vars
  <2>1. UNCHANGED <<running, finished, w_ytd, district>>
    BY <1>2 DEF ParseAndProcess, Join, Done, Spawn, Exchange, vars, rowVars, runtimeVars
  <2> QED
    BY <1>1, <2>1
<1>3. ASSUME NEW w \in Workers, InsertCheck(w) \/ InsertStore(w)
      PROVE  UNCHANGED <<running, finished, w_ytd, district>>
  BY <1>3 DEF InsertCheck, InsertStore, rowVars, runtimeVars
<1>4. ASSUME NEW w \in Workers, Leave(w)
      PROVE  Finish(w) /\ UNCHANGED <<w_ytd, district>>
  BY <1>4 DEF Leave, rowVars
<1> QED
  BY <1>1, <1>2, <1>3, <1>4, FinishBeginsNone DEF Next, Entering

-----------------------------------------------------------------------------
(* A district has given out as many ids as NewOrders of it have begun. *)
NewOrdersOf(d) ==
  {n \in 1..Len(Log) : Log[n].type = "NewOrder" /\ <<Log[n].w_id, Log[n].d_id>> = d}

BegunOrders(d) == {n \in NewOrdersOf(d) : Begun(MainOf(n))}

IdsInv ==
  \A d \in Districts :
    district[d].d_next_o_id = InitialOrders + 1 + Cardinality(BegunOrders(d))

LEMMA OrdersFinite ==
  ASSUME NEW d
  PROVE  /\ IsFiniteSet(NewOrdersOf(d)) /\ Cardinality(NewOrdersOf(d)) \in Nat
         /\ \A T \in SUBSET NewOrdersOf(d) :
              /\ IsFiniteSet(T) /\ Cardinality(T) \in Nat
              /\ Cardinality(T) <= Cardinality(NewOrdersOf(d))
<1>1. Len(Log) \in Nat
  BY TpccAssumption
<1>2. IsFiniteSet(1..Len(Log))
  BY <1>1, FS_Interval
<1>3. IsFiniteSet(NewOrdersOf(d))
  BY <1>2, FS_Subset DEF NewOrdersOf
<1> QED
  BY <1>3, FS_Subset, FS_CardinalityType

(* The step that begins the order n of district d. *)
LEMMA OrderBegins ==
  ASSUME Base, NEW w \in Workers, NEW b \in Txns, EnterNewOrder(w, b),
         NEW n \in 1..Len(Log), EntryOf(b) = Log[n], b = MainOf(n), NEW d \in Districts
  PROVE  IF <<Log[n].w_id, Log[n].d_id>> = d
         THEN BegunOrders(d)' = BegunOrders(d) \cup {n} /\ n \notin BegunOrders(d)
         ELSE BegunOrders(d)' = BegunOrders(d)
<1>1. Start(w, b) /\ Log[n].type = "NewOrder"
  BY DEF EnterNewOrder
<1>2. ~Begun(b) /\ \A c \in Txns : Begun(c)' <=> (Begun(c) \/ c = b)
  BY <1>1, StartBegins
<1>3. \A m \in NewOrdersOf(d) : Begun(MainOf(m))' <=> (Begun(MainOf(m)) \/ m = n)
  BY <1>2, BehaviourOfEntry DEF NewOrdersOf
<1>4. BegunOrders(d)' = {m \in NewOrdersOf(d) : Begun(MainOf(m)) \/ m = n}
  BY <1>3 DEF BegunOrders
<1>5. n \in NewOrdersOf(d) <=> <<Log[n].w_id, Log[n].d_id>> = d
  BY <1>1 DEF NewOrdersOf
<1>6. n \notin BegunOrders(d)
  BY <1>2 DEF BegunOrders
<1> QED
  BY <1>4, <1>5, <1>6 DEF BegunOrders

LEMMA IdsInvStep == Base /\ IdsInv /\ [Next]_vars => IdsInv'
<1> SUFFICES ASSUME Base, IdsInv, [Next]_vars, NEW d \in Districts
             PROVE  district'[d].d_next_o_id
                      = InitialOrders + 1 + Cardinality(BegunOrders(d)')
  BY DEF IdsInv
<1>0. TypeInv /\ district[d].d_next_o_id = InitialOrders + 1 + Cardinality(BegunOrders(d))
  BY DEF Base, IdsInv
<1>1. ASSUME NEW w \in Workers, NEW b \in Txns, EnterNewOrder(w, b)
      PROVE  district'[d].d_next_o_id = InitialOrders + 1 + Cardinality(BegunOrders(d)')
  <2>1. PICK n \in 1..Len(Log) : EntryOf(b) = Log[n] /\ b = MainOf(n)
    BY <1>1, EntryOfBehaviour DEF EnterNewOrder
  <2> DEFINE e == <<Log[n].w_id, Log[n].d_id>>
  <2>2. /\ e \in Districts /\ district'[e].d_next_o_id = district[e].d_next_o_id + 1
        /\ \A f \in Districts \ {e} : district'[f] = district[f]
    BY <1>0, <1>1, <2>1, EnterNewOrderDoes
  <2>3. IF e = d THEN BegunOrders(d)' = BegunOrders(d) \cup {n} /\ n \notin BegunOrders(d)
        ELSE BegunOrders(d)' = BegunOrders(d)
    BY <1>1, <2>1, OrderBegins
  <2> HIDE DEF e
  <2>4. CASE e = d
    <3>1. IsFiniteSet(BegunOrders(d)) /\ Cardinality(BegunOrders(d)) \in Nat
      BY OrdersFinite DEF BegunOrders
    <3>2. Cardinality(BegunOrders(d)') = Cardinality(BegunOrders(d)) + 1
      BY <2>3, <2>4, <3>1, FS_AddElement
    <3> QED
      BY <1>0, <2>2, <2>4, <3>1, <3>2, SizesNat
  <2>5. CASE e # d
    BY <1>0, <2>2, <2>3, <2>5
  <2> QED
    BY <2>4, <2>5
<1>2. ASSUME \A m \in NewOrdersOf(d) : Begun(MainOf(m))' <=> Begun(MainOf(m)),
             district'[d].d_next_o_id = district[d].d_next_o_id
      PROVE  district'[d].d_next_o_id = InitialOrders + 1 + Cardinality(BegunOrders(d)')
  <2>1. BegunOrders(d)' = BegunOrders(d)
    BY <1>2 DEF BegunOrders
  <2> QED
    BY <1>0, <1>2, <2>1
<1>3. ASSUME NEW w \in Workers, NEW b \in Txns, EnterPayment(w, b)
      PROVE  district'[d].d_next_o_id = InitialOrders + 1 + Cardinality(BegunOrders(d)')
  <2>1. PICK n \in 1..Len(Log) : EntryOf(b) = Log[n] /\ b = MainOf(n)
    BY <1>3, EntryOfBehaviour DEF EnterPayment
  <2>2. Start(w, b) /\ Log[n].type = "Payment"
    BY <1>3, <2>1 DEF EnterPayment
  <2>3. \A c \in Txns : Begun(c)' <=> (Begun(c) \/ c = b)
    BY <2>2, StartBegins
  <2>4. \A m \in NewOrdersOf(d) : MainOf(m) \in Txns /\ MainOf(m) # b
    BY <2>1, <2>2, BehaviourOfEntry DEF NewOrdersOf
  <2>5. district'[d].d_next_o_id = district[d].d_next_o_id
    BY <1>0, <1>3, <2>1, EnterPaymentDoes
  <2> QED
    BY <1>2, <2>3, <2>4, <2>5
<1>4. ASSUME NEW w \in Workers, NEW b \in Txns, EnterWarehouse(w, b)
      PROVE  district'[d].d_next_o_id = InitialOrders + 1 + Cardinality(BegunOrders(d)')
  <2>1. Start(w, b) /\ IsWarehouseOp(b) /\ UNCHANGED district
    BY <1>4 DEF EnterWarehouse
  <2>2. \A c \in Txns : Begun(c)' <=> (Begun(c) \/ c = b)
    BY <2>1, StartBegins
  <2>3. \A m \in NewOrdersOf(d) : MainOf(m) \in Txns /\ MainOf(m) # b
    BY <2>1, BehaviourOfEntry DEF NewOrdersOf
  <2> QED
    BY <1>2, <2>1, <2>2, <2>3
<1>5. CASE ~Entering
  <2>1. \A m \in NewOrdersOf(d) : MainOf(m) \in Txns
    BY BehaviourOfEntry DEF NewOrdersOf
  <2> QED
    BY <1>2, <1>5, <2>1, NoneBegins
<1> QED
  BY <1>1, <1>3, <1>4, <1>5 DEF Entering

LEMMA IdsInvariance == Spec => [](Base /\ IdsInv)
<1>1. Init => IdsInv
  <2> SUFFICES ASSUME Init, NEW d \in Districts
               PROVE  district[d].d_next_o_id
                        = InitialOrders + 1 + Cardinality(BegunOrders(d))
    BY DEF IdsInv
  <2>1. district[d].d_next_o_id = InitialOrders + 1
    BY DEF Init, LoadedDistrict
  <2>2. BegunOrders(d) = {}
    <3> SUFFICES ASSUME NEW m \in NewOrdersOf(d) PROVE ~Begun(MainOf(m))
      BY DEF BegunOrders
    <3>1. MainOf(m) \in Txns /\ MainOf(m) # 0
      BY BehaviourOfEntry DEF NewOrdersOf, Txns
    <3>2. finished = {} /\ \A w \in Workers : running[w] = 0
      BY DEF Init, RtInit
    <3> QED
      BY <3>1, <3>2 DEF Begun
  <2> QED
    BY <2>1, <2>2, FS_EmptySet, SizesNat
<1> QED
  BY <1>1, IdsInvStep, BaseInvariance, PTL DEF Spec

-----------------------------------------------------------------------------
(* The log and the tables: the keys of all orders below the limit of each  *)
(* district, and one more for every entry of the log, fit in the table of  *)
(* new orders, and the loader has no more new orders than orders.  With    *)
(* constants.hpp that is 10 * 6840 and a log of up to 1,353,600 entries.   *)
LogFits ==
  /\ NumDistricts * OrdersPerDistrict + Len(Log) <= TableSize.new_order
  /\ InitialOrders # 0 /\ InitialNewOrders <= InitialOrders

(* A district gives out no more ids than the log has entries. *)
LEMMA GivenByLog ==
  ASSUME TypeInv, IdsInv, NEW d \in Districts, NEW o \in Given(d)
  PROVE  o \in (InitialOrders + 1)..(InitialOrders + Len(Log))
<1>1. district[d].d_next_o_id = InitialOrders + 1 + Cardinality(BegunOrders(d))
  BY DEF IdsInv
<1> DEFINE len == Len(Log)
<1>2. len \in Nat /\ IsFiniteSet(1..len) /\ Cardinality(1..len) = len
  <2>1. len \in Nat
    BY TpccAssumption
  <2> HIDE DEF len
  <2>2. IsFiniteSet(1..len) /\ Cardinality(1..len) = IF 1 > len THEN 0 ELSE len - 1 + 1
    BY <2>1, FS_Interval
  <2> QED
    BY <2>1, <2>2
<1>3. Cardinality(BegunOrders(d)) \in Nat /\ Cardinality(BegunOrders(d)) <= Len(Log)
  <2>1. BegunOrders(d) \subseteq 1..Len(Log)
    BY DEF BegunOrders, NewOrdersOf
  <2> QED
    BY <1>2, <2>1, FS_Subset, FS_CardinalityType
<1> QED
  BY <1>1, <1>2, <1>3, SizesNat DEF Given

(* The sizes of the tables, in terms of the number of keys below every     *)
(* district's limit.                                                       *)
LEMMA TableSizes ==
  ASSUME LogFits
  PROVE  LET all == NumDistricts * OrdersPerDistrict
         IN  /\ all \in Nat
             /\ TableSize.order \in Nat /\ TableSize.order = all * 30
             /\ TableSize.new_order \in Nat /\ TableSize.new_order <= all * 30
             /\ TableSize.order_line \in Nat /\ TableSize.order_line = all * 30 * 30
<1> DEFINE all == NumDistricts * OrdersPerDistrict
           new == InitialNewOrders + MaxOrders
<1>1. /\ NumDistricts \in Nat /\ OrdersPerDistrict \in Nat /\ new \in Nat /\ all \in Nat
      /\ new <= OrdersPerDistrict
  BY SizesNat, TableOrder DEF LogFits, OrdersPerDistrict
<1>2. /\ TableSize.order = all * 30 /\ TableSize.order_line = all * 30 * 30
      /\ TableSize.new_order = NumDistricts * new * 30
  BY DEF TableSize, NumDistricts
<1> HIDE DEF new
<1>3. NumDistricts * new <= all /\ NumDistricts * new \in Nat
  <2>1. ASSUME NEW a \in Nat, NEW b \in Nat, NEW c \in Nat, b <= c
        PROVE  a * b <= a * c /\ a * b \in Nat
    BY <2>1
  <2> QED
    BY <1>1, <2>1
<1> DEFINE m == NumDistricts * new
<1> HIDE DEF m, all
<1>4. /\ m * 30 \in Nat /\ m * 30 <= all * 30 /\ all * 30 \in Nat /\ all * 30 * 30 \in Nat
  BY <1>1, <1>3 DEF m
<1> QED
  BY <1>1, <1>2, <1>4 DEF m, all

(* Below a key of a district are its predecessors' keys. *)
LEMMA KeyOfDistrict ==
  ASSUME NEW d \in Districts, NEW o \in Int
  PROVE  \E y \in Nat : /\ OrderKey(d[1], d[2], o) = y + (o - 1)
                        /\ y + OrdersPerDistrict <= NumDistricts * OrdersPerDistrict
<1> DEFINE x == DistrictsBefore(d[1], d[2])
           n == OrdersPerDistrict
<1>1. d[1] \in Warehouses /\ d[2] \in 1..DistrictsPerWarehouse
  BY DEF Districts
<1>2. d[1] \in Int /\ d[2] \in Int
  BY <1>1, SizesNat DEF Warehouses
<1>3. NumDistricts \in Nat /\ x \in 0..(NumDistricts - 1) /\ n \in Nat
  BY <1>1, SizesNat, DistrictsBeforeBound
<1>4. OrderKey(d[1], d[2], o) = x * n + (o - 1)
  <2>1. ASSUME NEW a \in Int, NEW b \in Int, NEW c \in Int
        PROVE  OrderKey(a, b, c) = DistrictsBefore(a, b) * n + (c - 1)
    BY ONLY <2>1, OrderKeyDigits
  <2> QED
    BY ONLY <1>2, <2>1, o \in Int
<1> HIDE DEF x, n
<1>5. x + 1 \in Nat /\ x + 1 <= NumDistricts /\ x \in Nat
  BY <1>3
<1>6. (x + 1) * n <= NumDistricts * n /\ (x + 1) * n = x * n + n /\ x * n \in Nat
  BY <1>3, <1>5, TimesMonotone
<1>7. x * n + n <= NumDistricts * n
  BY <1>6
<1> QED
  BY <1>4, <1>6, <1>7 DEF n

(* insert_row compares cnt, and not the key, with the size of the table:   *)
(* for a log of the length that LogFits allows, the generator's of         *)
(* 1,000,000 entries included, no lambda of any interleaving writes past   *)
(* the end of a table.  A district may have far more orders than           *)
(* MAX_ORDER_TRANSACTIONS: its keys are then another district's too, but   *)
(* still keys of the table.                                                *)
THEOREM KeysInTableHolds ==
  ASSUME LogFits
  PROVE  Spec => []KeysInTable
<1>1. Base /\ InsertsInv /\ IdsInv => KeysInTable
  <2> SUFFICES ASSUME Base, InsertsInv, IdsInv, NEW w \in Workers,
                      NEW k \in 1..Len(inserts[w])
               PROVE  inserts[w][k].key \in 0..(TableSize[inserts[w][k].table] - 1)
    BY DEF KeysInTable
  <2> DEFINE i == inserts[w][k]
             all == NumDistricts * OrdersPerDistrict
             len == Len(Log)
  <2>1. TypeInv /\ len \in Nat
    BY TpccAssumption DEF Base
  <2>2. PICK d \in Districts : \E o \in Given(d) : IsInsert(i, d, o)
    BY DEF InsertsInv
  <2>3. PICK o \in Given(d) : IsInsert(i, d, o)
    BY <2>2
  <2>4. o \in (InitialOrders + 1)..(InitialOrders + len)
    BY <2>1, GivenByLog
  <2>5. o \in 2..(OrdersPerDistrict + len) /\ OrdersPerDistrict \in Nat
    BY <2>1, <2>4, SizesNat DEF LogFits, OrdersPerDistrict
  <2>6. /\ all \in Nat /\ all + len <= TableSize.new_order
        /\ TableSize.order \in Nat /\ TableSize.order = all * 30
        /\ TableSize.new_order \in Nat /\ TableSize.new_order <= all * 30
        /\ TableSize.order_line \in Nat /\ TableSize.order_line = all * 30 * 30
    BY TableSizes DEF LogFits
  <2> DEFINE h == OrderKey(d[1], d[2], o)
  <2>7. PICK y \in Nat : h = y + (o - 1) /\ y + OrdersPerDistrict <= all
    <3>1. o \in Int
      BY <2>1, <2>5
    <3> QED
      BY <3>1, KeyOfDistrict
  <2> HIDE DEF i, h, all, len
  <2>8. h \in 1..(TableSize.new_order - 1) /\ h \in 1..(all * 30 - 1)
    BY <2>1, <2>5, <2>6, <2>7
  <2>9. CASE OrderInsert(i, d, o)
    <3>1. i.table \in {"order", "new_order"} /\ i.key = h
      BY <2>9 DEF OrderInsert, h
    <3> QED
      BY <2>6, <2>8, <3>1 DEF i
  <2>10. CASE LineInsert(i, d, o)
    <3>1. PICK n \in 1..15 : i.key = OrderLineKey(d[1], d[2], h, n)
      BY <2>10 DEF LineInsert, h
    <3>2. PICK z \in Nat : /\ OrderKey(d[1], d[2], h) = z + (h - 1)
                           /\ z + OrdersPerDistrict <= all
      BY <2>8, KeyOfDistrict DEF all
    <3>3. i.key = (z + (h - 1)) * 15 + (n - 1)
      BY <3>1, <3>2 DEF OrderLineKey
    <3>4. z <= all
      BY <2>5, <2>6, <3>2
    <3>5. (z + (h - 1)) * 15 + (n - 1) \in 0..(all * 30 * 30 - 1)
      BY <2>6, <2>8, <3>4
    <3>6. i.table = "order_line"
      BY <2>10 DEF LineInsert
    <3> QED
      BY <2>6, <3>3, <3>5, <3>6 DEF i
  <2> QED
    BY <2>3, <2>9, <2>10 DEF IsInsert, i
<1> QED
  BY <1>1, InsertsInvariance, IdsInvariance, PTL

-----------------------------------------------------------------------------
(* Transactions of one district conflict, and so begin in the order of the *)
(* log.                                                                    *)
LEMMA SpawnOrderInvariance == Spec => []SpawnOrder
<1>1. RP!SpawnOrder => SpawnOrder
  BY DEF SpawnOrder, RP!SpawnOrder, Conflict, RP!Conflict, Txns, RP!Txns
<1> QED
  BY <1>1, ImplementsRuntime, RuntimeAssumptionHolds, RP!SpawnOrderHolds, PTL

LEMMA BegunSpawned ==
  ASSUME Base, NEW b, b # 0, Begun(b)
  PROVE  b \in 1..spawned
BY DEF Base, RP!RtIInv, RP!RunInv, RP!FinishInv, Begun

LEMMA MainNamesDistrict ==
  ASSUME NEW n \in 1..Len(Log)
  PROVE  RowAddr(Row("district", <<Log[n].w_id, Log[n].d_id>>)) \in When(MainOf(n))
<1>1. EntryOf(MainOf(n)) = Log[n] /\ ~IsWarehouseOp(MainOf(n))
  BY BehaviourOfEntry
<1>2. Row("district", <<Log[n].w_id, Log[n].d_id>>) \in WhenParams(Log[n])
  BY DEF WhenParams
<1>3. WhenParams(Log[n]) \subseteq RowsOf(MainOf(n))
  BY <1>1 DEF RowsOf
<1> QED
  BY <1>2, <1>3 DEF When

LEMMA OneDistrictConflicts ==
  ASSUME Base, NEW k \in 1..Len(Log), NEW n \in 1..Len(Log),
         Log[k].w_id = Log[n].w_id, Log[k].d_id = Log[n].d_id,
         MainOf(k) \in 1..spawned, MainOf(n) \in 1..spawned
  PROVE  Conflict(MainOf(k), MainOf(n))
<1> DEFINE a == RowAddr(Row("district", <<Log[n].w_id, Log[n].d_id>>))
<1>1. a \in When(MainOf(k)) /\ a \in When(MainOf(n))
  BY MainNamesDistrict
<1>2. cownsOf[MainOf(k)] = When(MainOf(k)) /\ cownsOf[MainOf(n)] = When(MainOf(n))
  BY DEF Base, CownsInv
<1> HIDE DEF a
<1> QED
  BY <1>1, <1>2 DEF Conflict

LEMMA MainInOrder ==
  ASSUME NEW k \in 1..Len(Log), NEW n \in 1..Len(Log), k < n
  PROVE  MainOf(k) < MainOf(n) /\ MainOf(k) \in Nat /\ MainOf(n) \in Nat /\ MainOf(k) # 0
<1>1. Len(Log) \in Nat /\ WarehouseSplit \in BOOLEAN
  BY TpccAssumption
<1> QED
  BY <1>1 DEF MainOf

(* When a NewOrder begins, those of its district that have begun are those *)
(* before it in the log.                                                   *)
LEMMA BegunAreEarlier ==
  ASSUME Base, SpawnOrder, SpawnOrder', NEW w \in Workers, NEW b \in Txns, Start(w, b),
         NEW n \in 1..Len(Log), b = MainOf(n),
         NEW d, d = <<Log[n].w_id, Log[n].d_id>>
  PROVE  BegunOrders(d) = {k \in 1..(n - 1) : /\ Log[k].type = "NewOrder"
                                              /\ Log[k].w_id = Log[n].w_id
                                              /\ Log[k].d_id = Log[n].d_id}
<1>0. Len(Log) \in Nat
  BY TpccAssumption
<1>1. b \in 1..spawned /\ b \notin finished /\ ~Begun(b) /\ UNCHANGED <<finished, cownsOf>>
  BY StartBegins DEF Start, Ready
<1>2. \E v \in Workers : running'[v] = b
  BY RunningChanges DEF Base
<1>3. spawned \in Nat
  BY DEF Base, RP!RtIInv, RP!RtTypeOK
<1>4. ASSUME NEW k \in 1..Len(Log), Log[k].w_id = Log[n].w_id, Log[k].d_id = Log[n].d_id,
             k < n
      PROVE  Begun(MainOf(k))
  <2>1. MainOf(k) < b /\ MainOf(k) \in Txns /\ MainOf(k) \in Nat /\ MainOf(k) # 0
    BY <1>4, MainInOrder, BehaviourOfEntry
  <2>2. MainOf(k) \in 1..spawned
    BY <1>1, <1>3, <2>1
  <2>3. Conflict(MainOf(k), b)
    BY <1>1, <1>4, <2>2, OneDistrictConflicts
  <2>4. Conflict(MainOf(k), b)'
    BY <1>1, <2>3 DEF Conflict
  <2>5. MainOf(k) \in finished'
    BY <1>2, <2>1, <2>4 DEF SpawnOrder
  <2> QED
    BY <1>1, <2>5 DEF Begun
<1>5. ASSUME NEW k \in 1..Len(Log), Log[k].w_id = Log[n].w_id, Log[k].d_id = Log[n].d_id,
             Begun(MainOf(k))
      PROVE  k < n
  <2> SUFFICES ASSUME n < k PROVE FALSE
    BY <1>0, <1>1, <1>5
  <2>1. b < MainOf(k) /\ MainOf(k) \in Txns /\ MainOf(k) # 0
    BY MainInOrder, BehaviourOfEntry DEF Txns
  <2>2. MainOf(k) \in 1..spawned
    BY <1>5, <2>1, BegunSpawned
  <2>3. Conflict(b, MainOf(k))
    BY <1>1, <1>5, <2>2, OneDistrictConflicts
  <2>4. b \in finished
    BY <1>5, <2>1, <2>3 DEF SpawnOrder, Begun
  <2> QED
    BY <1>1, <2>4
<1>6. \A k \in 1..Len(Log) : <<Log[k].w_id, Log[k].d_id>> = d
                               <=> Log[k].w_id = Log[n].w_id /\ Log[k].d_id = Log[n].d_id
  OBVIOUS
<1>7. \A k \in 1..Len(Log) : k < n <=> k \in 1..(n - 1)
  BY <1>0
<1>8. 1..(n - 1) \subseteq 1..Len(Log)
  BY <1>0
<1> QED
  BY <1>4, <1>5, <1>6, <1>7, <1>8 DEF BegunOrders, NewOrdersOf

(* The number of the entry that a running behaviour executes. *)
EntryNo(b) == IF WarehouseSplit THEN (b + 1) \div 2 ELSE b

LEMMA EntryNoOfMain ==
  ASSUME NEW n \in 1..Len(Log)
  PROVE  EntryNo(MainOf(n)) = n
<1>1. Len(Log) \in Nat /\ WarehouseSplit \in BOOLEAN
  BY TpccAssumption
<1>2. (2 * n + 1) \div 2 = n
  BY <1>1
<1> QED
  BY <1>1, <1>2 DEF EntryNo, MainOf

LEMMA SameOrderIdsStep ==
  Base /\ IdsInv /\ SpawnOrder /\ SpawnOrder' /\ SameOrderIds /\ [Next]_vars => SameOrderIds'
<1> SUFFICES ASSUME Base, IdsInv, SpawnOrder, SpawnOrder', SameOrderIds, [Next]_vars
             PROVE  SameOrderIds'
  OBVIOUS
<1> DEFINE last(s) == s[Len(s)]
           right(s, b) == last(s).row = <<Log[EntryNo(b)].w_id, Log[EntryNo(b)].d_id,
                                          SerialOrderId(EntryNo(b))>>
<1>0. TypeInv /\ RP!RtIInv
  BY DEF Base
<1>1. \A v \in Workers : running[v] # 0 /\ inserts[v] # <<>> => right(inserts[v], running[v])
  BY DEF SameOrderIds, EntryNo
<1> SUFFICES ASSUME NEW v \in Workers, running'[v] # 0, inserts'[v] # <<>>
             PROVE  right(inserts'[v], running'[v])
  BY DEF SameOrderIds, EntryNo
<1> HIDE DEF right
<1>2. CASE running'[v] = running[v] /\ inserts'[v] = inserts[v]
  BY <1>1, <1>2
<1>3. ASSUME NEW w \in Workers, NEW b \in Txns, EnterNewOrder(w, b)
      PROVE  right(inserts'[v], running'[v])
  <2>1. PICK n \in 1..Len(Log) : EntryOf(b) = Log[n] /\ b = MainOf(n)
    BY <1>3, EntryOfBehaviour DEF EnterNewOrder
  <2> DEFINE t == Log[n]
             d == <<t.w_id, t.d_id>>
             o == district[d].d_next_o_id
             s == NewOrderInserts(t, o)
             m == Len(t.lines)
  <2>2. /\ d \in Districts /\ o \in Int
        /\ inserts'[w] = s /\ \A u \in Workers \ {w} : inserts'[u] = inserts[u]
    BY <1>0, <1>3, <2>1, EnterNewOrderDoes
  <2>3. Start(w, b)
    BY <1>3 DEF EnterNewOrder
  <2>4. running'[w] = b /\ \A u \in Workers \ {w} : running'[u] = running[u]
    BY <1>0, <2>3, RunningChanges
  <2>5. o = SerialOrderId(n)
    <3>1. o = InitialOrders + 1 + Cardinality(BegunOrders(d))
      BY <2>2 DEF IdsInv
    <3>2. BegunOrders(d) = {k \in 1..(n - 1) : /\ Log[k].type = "NewOrder"
                                               /\ Log[k].w_id = Log[n].w_id
                                               /\ Log[k].d_id = Log[n].d_id}
      BY <2>1, <2>3, BegunAreEarlier
    <3> QED
      BY <3>1, <3>2 DEF SerialOrderId
  <2> HIDE DEF o
  <2> HIDE DEF t
  <2>6. last(s).row = <<t.w_id, t.d_id, o>>
    <3>1. /\ Len(s) = m + 2
          /\ s[m + 2] = [table |-> "new_order", key |-> OrderKey(t.w_id, t.d_id, o),
                         row |-> <<t.w_id, t.d_id, o>>]
      BY <2>2, InsertsOf DEF t
    <3> HIDE DEF s, m
    <3> QED
      BY <3>1
  <2> HIDE DEF s
  <2>7. CASE v = w
    <3>1. EntryNo(running'[v]) = n
      BY <2>1, <2>4, <2>7, EntryNoOfMain
    <3> QED
      BY <2>2, <2>5, <2>6, <2>7, <3>1 DEF right, t
  <2>8. CASE v # w
    BY <1>2, <2>2, <2>4, <2>8
  <2> QED
    BY <2>7, <2>8
<1>4. ASSUME NEW w \in Workers, NEW b \in Txns, EnterWarehouse(w, b) \/ EnterPayment(w, b)
      PROVE  right(inserts'[v], running'[v])
  <2>1. Start(w, b) /\ UNCHANGED inserts
    BY <1>4 DEF EnterWarehouse, EnterPayment, tableVars
  <2>2. running[w] = 0 /\ \A u \in Workers \ {w} : running'[u] = running[u]
    BY <1>0, <2>1, RunningChanges DEF Start
  <2>3. v # w
    BY <1>0, <2>1, <2>2 DEF TypeInv
  <2> QED
    BY <1>2, <2>1, <2>2, <2>3
<1>5. ASSUME NEW w \in Workers, InsertStore(w) PROVE right(inserts'[v], running'[v])
  <2>1. /\ inserts[w] # <<>> /\ Len(inserts[w]) \in Nat /\ Len(inserts'[w]) = Len(inserts[w]) - 1
        /\ inserts' \in [Workers -> Seq(InsertRows)]
        /\ \A k \in 1..(Len(inserts[w]) - 1) : inserts'[w][k] = inserts[w][k + 1]
        /\ \A u \in Workers \ {w} : inserts'[u] = inserts[u]
        /\ UNCHANGED running
    BY <1>0, <1>5, InsertStoreDoes DEF runtimeVars
  <2>2. CASE v = w
    <3>1. Len(inserts'[w]) \in Nat /\ Len(inserts'[w]) >= 1
      BY <2>1, <2>2, HeadAndTail
    <3> DEFINE l == Len(inserts[w])
    <3>2. l \in Nat /\ Len(inserts'[w]) = l - 1 /\ l - 1 \in 1..(l - 1) /\ (l - 1) + 1 = l
      BY <2>1, <3>1
    <3>3. inserts'[w][l - 1] = inserts[w][l]
      BY <2>1, <3>2
    <3>4. last(inserts'[w]) = last(inserts[w])
      BY <3>2, <3>3
    <3>5. right(inserts[w], running[w])
      BY <1>1, <2>1, <2>2
    <3> QED
      BY <2>1, <2>2, <3>4, <3>5 DEF right
  <2>3. CASE v # w
    BY <1>2, <2>1, <2>3
  <2> QED
    BY <2>2, <2>3
<1>6. ASSUME NEW w \in Workers, Leave(w) PROVE right(inserts'[v], running'[v])
  <2>1. Finish(w) /\ UNCHANGED inserts
    BY <1>6 DEF Leave, tableVars
  <2>2. running'[w] = 0 /\ \A u \in Workers \ {w} : running'[u] = running[u]
    BY <1>0, <2>1, RunningChanges
  <2> QED
    BY <1>2, <2>1, <2>2
<1>7. CASE ParseAndProcess \/ (\E c \in joining : Join(c)) \/ Done \/ UNCHANGED vars
  <2>1. UNCHANGED <<inserts, running>>
    BY <1>7 DEF ParseAndProcess, Join, Done, Spawn, Exchange, vars, tableVars, runtimeVars
  <2> QED
    BY <1>2, <2>1
<1>8. ASSUME NEW w \in Workers, InsertCheck(w) PROVE right(inserts'[v], running'[v])
  BY <1>2, <1>8 DEF InsertCheck, runtimeVars
<1> QED
  BY <1>3, <1>4, <1>5, <1>6, <1>7, <1>8 DEF Next

(* Whatever the interleaving, every NewOrder inserts the order id that a   *)
(* serial execution of the log gives it: transactions of one district are  *)
(* behaviours on its cown, which begin in the order of the log.            *)
THEOREM SameOrderIdsHolds == Spec => []SameOrderIds
<1>1. Init => SameOrderIds
  BY DEF Init, SameOrderIds
<1> QED
  BY <1>1, SameOrderIdsStep, IdsInvariance, SpawnOrderInvariance, PTL DEF Spec


-----------------------------------------------------------------------------
(* What a warehouse has received are the payments of its entries whose     *)
(* payer has begun, and what its districts have received are those of the  *)
(* entries that have begun themselves.                                     *)
WarehouseInv ==
  \A x \in Warehouses :
    w_ytd[x] = LoadedYtd + SumFunctionOnSet(Amount, PaidToWarehouse(x))

DistrictsInv ==
  \A x \in Warehouses :
    SumFunctionOnSet(DistrictsYtd(x), 1..DistrictsPerWarehouse)
      = SumFunctionOnSet(Amount, PaidToDistricts(x))

LEMMA YtdTyped == LoadedYtd \in Int
  BY SMT DEF LoadedYtd

(* One payment more. *)
LEMMA AmountAdds ==
  ASSUME NEW S \in SUBSET (1..Len(Log)), NEW n \in 1..Len(Log), n \notin S
  PROVE  /\ SumFunctionOnSet(Amount, S) \in Int /\ Log[n].h_amount \in Int
         /\ SumFunctionOnSet(Amount, S \cup {n})
              = SumFunctionOnSet(Amount, S) + Log[n].h_amount
<1>1. Len(Log) \in Nat /\ IsFiniteSet(1..Len(Log))
  BY TpccAssumption, FS_Interval
<1>2. IsFiniteSet(S)
  BY <1>1, FS_Subset
<1>3. \A m \in 1..Len(Log) : Log[m].h_amount \in Int
  BY LogTyped
<1>4. \A m \in S \cup {n} : Amount[m] \in Int
  BY <1>3 DEF Amount
<1>5. Amount[n] = Log[n].h_amount
  BY DEF Amount
<1>6. /\ SumFunctionOnSet(Amount, S) \in Int
      /\ SumFunctionOnSet(Amount, S \cup {n}) = Amount[n] + SumFunctionOnSet(Amount, S)
  BY <1>2, <1>4, SumAdd
<1> QED
  BY <1>3, <1>5, <1>6

(* The entries that have begun, when the behaviour of entry n does. *)
LEMMA MainBegins ==
  ASSUME Base, NEW w \in Workers, NEW n \in 1..Len(Log), Start(w, MainOf(n)), NEW x
  PROVE  IF Log[n].w_id = x
         THEN PaidToDistricts(x)' = PaidToDistricts(x) \cup {n} /\ n \notin PaidToDistricts(x)
         ELSE PaidToDistricts(x)' = PaidToDistricts(x)
<1>1. MainOf(n) \in Txns /\ \A m \in EntriesOf(x) : MainOf(m) \in Txns
                                                    /\ (MainOf(m) = MainOf(n) => m = n)
  BY BehaviourOfEntry DEF EntriesOf
<1>2. ~Begun(MainOf(n)) /\ \A c \in Txns : Begun(c)' <=> (Begun(c) \/ c = MainOf(n))
  BY <1>1, StartBegins
<1>3. \A m \in EntriesOf(x) : Begun(MainOf(m))' <=> (Begun(MainOf(m)) \/ m = n)
  BY <1>1, <1>2
<1>4. PaidToDistricts(x)' = {m \in EntriesOf(x) : Begun(MainOf(m)) \/ m = n}
  BY <1>3 DEF PaidToDistricts
<1>5. n \in EntriesOf(x) <=> Log[n].w_id = x
  BY DEF EntriesOf
<1> QED
  BY <1>2, <1>4, <1>5 DEF PaidToDistricts

LEMMA PayerBegins ==
  ASSUME Base, NEW w \in Workers, NEW n \in 1..Len(Log), Start(w, PayerOf(n)), NEW x
  PROVE  IF Log[n].w_id = x
         THEN PaidToWarehouse(x)' = PaidToWarehouse(x) \cup {n} /\ n \notin PaidToWarehouse(x)
         ELSE PaidToWarehouse(x)' = PaidToWarehouse(x)
<1>1. PayerOf(n) \in Txns /\ \A m \in EntriesOf(x) : PayerOf(m) \in Txns
                                                     /\ (PayerOf(m) = PayerOf(n) => m = n)
  BY BehaviourOfEntry DEF EntriesOf
<1>2. ~Begun(PayerOf(n)) /\ \A c \in Txns : Begun(c)' <=> (Begun(c) \/ c = PayerOf(n))
  BY <1>1, StartBegins
<1>3. \A m \in EntriesOf(x) : Begun(PayerOf(m))' <=> (Begun(PayerOf(m)) \/ m = n)
  BY <1>1, <1>2
<1>4. PaidToWarehouse(x)' = {m \in EntriesOf(x) : Begun(PayerOf(m)) \/ m = n}
  BY <1>3 DEF PaidToWarehouse
<1>5. n \in EntriesOf(x) <=> Log[n].w_id = x
  BY DEF EntriesOf
<1> QED
  BY <1>2, <1>4, <1>5 DEF PaidToWarehouse

(* WAREHOUSE_OP pays the entry that its behaviour stands for. *)
LEMMA WarehousePaid ==
  ASSUME Base, WarehouseInv, NEW w \in Workers, NEW n \in 1..Len(Log),
         Start(w, PayerOf(n)), AddToWarehouse(Log[n])
  PROVE  WarehouseInv'
<1> SUFFICES ASSUME NEW x \in Warehouses
             PROVE  w_ytd'[x] = LoadedYtd + SumFunctionOnSet(Amount, PaidToWarehouse(x)')
  BY DEF WarehouseInv
<1>1. TypeInv /\ Log[n].w_id \in Warehouses /\ Log[n].h_amount \in Int
  BY LogTyped DEF Base
<1>2. IF Log[n].w_id = x
      THEN PaidToWarehouse(x)' = PaidToWarehouse(x) \cup {n} /\ n \notin PaidToWarehouse(x)
      ELSE PaidToWarehouse(x)' = PaidToWarehouse(x)
  BY PayerBegins
<1>3. w_ytd[x] = LoadedYtd + SumFunctionOnSet(Amount, PaidToWarehouse(x))
  BY DEF WarehouseInv
<1>4. CASE Log[n].w_id = x
  <2>1. w_ytd'[x] = w_ytd[x] + Log[n].h_amount
    BY <1>1, <1>4 DEF TypeInv, AddToWarehouse
  <2>2. PaidToWarehouse(x) \in SUBSET (1..Len(Log))
    BY DEF PaidToWarehouse, EntriesOf
  <2>3. /\ SumFunctionOnSet(Amount, PaidToWarehouse(x)) \in Int
        /\ SumFunctionOnSet(Amount, PaidToWarehouse(x)')
             = SumFunctionOnSet(Amount, PaidToWarehouse(x)) + Log[n].h_amount
    BY <1>2, <1>4, <2>2, AmountAdds
  <2> QED
    BY <1>1, <1>3, <2>1, <2>3, YtdTyped
<1>5. CASE Log[n].w_id # x
  <2>1. w_ytd'[x] = w_ytd[x]
    BY <1>1, <1>5 DEF TypeInv, AddToWarehouse
  <2> QED
    BY <1>2, <1>3, <1>5, <2>1
<1> QED
  BY <1>4, <1>5


(* The payers that have begun when no payer begins, and likewise. *)
LEMMA NoPayerBegins ==
  ASSUME NEW x, \A m \in 1..Len(Log) : Begun(PayerOf(m))' <=> Begun(PayerOf(m))
  PROVE  PaidToWarehouse(x)' = PaidToWarehouse(x)
  BY DEF PaidToWarehouse, EntriesOf

LEMMA NoMainBegins ==
  ASSUME NEW x, \A m \in 1..Len(Log) : Begun(MainOf(m))' <=> Begun(MainOf(m))
  PROVE  PaidToDistricts(x)' = PaidToDistricts(x)
  BY DEF PaidToDistricts, EntriesOf

LEMMA WarehouseInvStep == Base /\ WarehouseInv /\ [Next]_vars => WarehouseInv'
<1> SUFFICES ASSUME Base, WarehouseInv, [Next]_vars PROVE WarehouseInv'
  OBVIOUS
<1>1. ASSUME \A m \in 1..Len(Log) : Begun(PayerOf(m))' <=> Begun(PayerOf(m)), UNCHANGED w_ytd
      PROVE  WarehouseInv'
  BY <1>1, NoPayerBegins DEF WarehouseInv
<1>2. ASSUME NEW w \in Workers, NEW b \in Txns, EnterWarehouse(w, b) PROVE WarehouseInv'
  <2>1. Start(w, b) /\ IsWarehouseOp(b) /\ AddToWarehouse(EntryOf(b))
    BY <1>2 DEF EnterWarehouse
  <2>2. PICK n \in 1..Len(Log) : EntryOf(b) = Log[n] /\ b = PayerOf(n)
    BY <2>1, EntryOfBehaviour
  <2>3. Start(w, PayerOf(n)) /\ AddToWarehouse(Log[n])
    BY <2>1, <2>2
  <2> QED
    BY <2>3, WarehousePaid
<1>3. ASSUME NEW w \in Workers, NEW b \in Txns, Start(w, b), ~IsWarehouseOp(b),
             IF WarehouseSplit THEN w_ytd' = w_ytd ELSE AddToWarehouse(EntryOf(b))
      PROVE  WarehouseInv'
  <2>1. PICK n \in 1..Len(Log) : EntryOf(b) = Log[n] /\ b = MainOf(n)
    BY <1>3, EntryOfBehaviour
  <2>2. CASE WarehouseSplit
    <3>1. \A c \in Txns : Begun(c)' <=> (Begun(c) \/ c = b)
      BY <1>3, StartBegins
    <3>2. \A m \in 1..Len(Log) : PayerOf(m) \in Txns /\ PayerOf(m) # b
      BY <2>1, <2>2, BehaviourOfEntry
    <3> QED
      BY <1>1, <1>3, <2>2, <3>1, <3>2
  <2>3. CASE ~WarehouseSplit
    <3>1. b = PayerOf(n)
      BY <2>1, <2>3 DEF MainOf, PayerOf
    <3>2. Start(w, PayerOf(n)) /\ AddToWarehouse(Log[n])
      BY <1>3, <2>1, <2>3, <3>1
    <3> QED
      BY <3>2, WarehousePaid
  <2> QED
    BY <2>2, <2>3
<1>4. ASSUME NEW w \in Workers, NEW b \in Txns, EnterNewOrder(w, b) PROVE WarehouseInv'
  BY <1>3, <1>4 DEF EnterNewOrder
<1>5. ASSUME NEW w \in Workers, NEW b \in Txns, EnterPayment(w, b) PROVE WarehouseInv'
  BY <1>3, <1>5 DEF EnterPayment
<1>6. CASE ~Entering
  <2>1. \A m \in 1..Len(Log) : PayerOf(m) \in Txns
    BY BehaviourOfEntry
  <2> QED
    BY <1>1, <1>6, <2>1, NoneBegins
<1> QED
  BY <1>2, <1>4, <1>5, <1>6 DEF Entering

LEMMA DistrictsInvStep == Base /\ DistrictsInv /\ [Next]_vars => DistrictsInv'
<1> SUFFICES ASSUME Base, DistrictsInv, [Next]_vars, NEW x \in Warehouses
             PROVE  SumFunctionOnSet(DistrictsYtd(x)', 1..DistrictsPerWarehouse)
                      = SumFunctionOnSet(Amount, PaidToDistricts(x)')
  BY DEF DistrictsInv
<1> DEFINE D == 1..DistrictsPerWarehouse
           paid(f) == SumFunctionOnSet(f, D)
<1>0. /\ TypeInv /\ DistrictsPerWarehouse \in Nat /\ IsFiniteSet(D)
      /\ \A k \in D : <<x, k>> \in Districts
  <2>1. TypeInv /\ DistrictsPerWarehouse \in Nat
    BY SizesNat DEF Base
  <2>2. IsFiniteSet(D)
    BY <2>1, FS_Interval
  <2>3. \A k \in D : <<x, k>> \in Districts
    BY DEF Districts
  <2> QED
    BY <2>1, <2>2, <2>3
<1>1. paid(DistrictsYtd(x)) = SumFunctionOnSet(Amount, PaidToDistricts(x))
  BY DEF DistrictsInv
<1>2. PaidToDistricts(x) \in SUBSET (1..Len(Log))
  BY DEF PaidToDistricts, EntriesOf
<1>3. ASSUME \A e \in Districts : district'[e].d_ytd = district[e].d_ytd
      PROVE  DistrictsYtd(x)' = DistrictsYtd(x)
  BY <1>0, <1>3 DEF DistrictsYtd
<1>4. ASSUME NEW w \in Workers, NEW b \in Txns, EnterNewOrder(w, b)
      PROVE  paid(DistrictsYtd(x)') = SumFunctionOnSet(Amount, PaidToDistricts(x)')
  <2>1. PICK n \in 1..Len(Log) : EntryOf(b) = Log[n] /\ b = MainOf(n)
    BY <1>4, EntryOfBehaviour DEF EnterNewOrder
  <2>2. Start(w, MainOf(n)) /\ Log[n].type = "NewOrder"
    BY <1>4, <2>1 DEF EnterNewOrder
  <2>3. Log[n].h_amount = 0
    BY <2>2, TpccAssumption DEF NewOrderParams, PaymentParams
  <2>4. DistrictsYtd(x)' = DistrictsYtd(x)
    BY <1>0, <1>3, <1>4, <2>1, EnterNewOrderDoes
  <2>5. SumFunctionOnSet(Amount, PaidToDistricts(x)') = SumFunctionOnSet(Amount, PaidToDistricts(x))
    <3>1. IF Log[n].w_id = x
          THEN PaidToDistricts(x)' = PaidToDistricts(x) \cup {n} /\ n \notin PaidToDistricts(x)
          ELSE PaidToDistricts(x)' = PaidToDistricts(x)
      BY <2>2, MainBegins
    <3>2. CASE n \notin PaidToDistricts(x) /\ PaidToDistricts(x)' = PaidToDistricts(x) \cup {n}
      <4>1. /\ SumFunctionOnSet(Amount, PaidToDistricts(x)) \in Int
            /\ SumFunctionOnSet(Amount, PaidToDistricts(x)')
                 = SumFunctionOnSet(Amount, PaidToDistricts(x)) + Log[n].h_amount
        BY <1>2, <3>2, AmountAdds
      <4> QED
        BY <2>3, <4>1
    <3> QED
      BY <3>1, <3>2
  <2> QED
    BY <1>1, <2>4, <2>5
<1>5. ASSUME NEW w \in Workers, NEW b \in Txns, EnterPayment(w, b)
      PROVE  paid(DistrictsYtd(x)') = SumFunctionOnSet(Amount, PaidToDistricts(x)')
  <2>1. PICK n \in 1..Len(Log) : EntryOf(b) = Log[n] /\ b = MainOf(n)
    BY <1>5, EntryOfBehaviour DEF EnterPayment
  <2>2. Start(w, MainOf(n))
    BY <1>5, <2>1 DEF EnterPayment
  <2> DEFINE e == <<Log[n].w_id, Log[n].d_id>>
             k == Log[n].d_id
             f == DistrictsYtd(x)
             g == DistrictsYtd(x)'
  <2>3. /\ e \in Districts /\ district[e].d_ytd \in Int
        /\ district'[e].d_ytd = district[e].d_ytd + Log[n].h_amount
        /\ \A i \in Districts \ {e} : district'[i] = district[i]
    BY <1>0, <1>5, <2>1, EnterPaymentDoes
  <2>4. IF Log[n].w_id = x
        THEN PaidToDistricts(x)' = PaidToDistricts(x) \cup {n} /\ n \notin PaidToDistricts(x)
        ELSE PaidToDistricts(x)' = PaidToDistricts(x)
    BY <2>2, MainBegins
  <2>5. k \in D /\ Log[n].h_amount \in Int
    BY LogTyped
  <2>6. \A i \in D : f[i] = district[<<x, i>>].d_ytd - LoadedYtd
                     /\ g[i] = district'[<<x, i>>].d_ytd - LoadedYtd
    BY DEF DistrictsYtd
  <2>7. \A i \in D : f[i] \in Int
    <3>1. \A i \in D : district[<<x, i>>].d_ytd \in Int
      BY <1>0 DEF TypeInv
    <3>2. \A i \in D : district[<<x, i>>].d_ytd - LoadedYtd \in Int
      BY <3>1, YtdTyped
    <3>3. \A i \in D : f[i] = district[<<x, i>>].d_ytd - LoadedYtd
      BY <2>6
    <3> HIDE DEF f, D
    <3> QED
      BY <3>2, <3>3
  <2>8. CASE Log[n].w_id = x
    <3>1. e = <<x, k>>
      BY <2>8
    <3> HIDE DEF e, f, g, k
    <3>2. g[k] = f[k] + Log[n].h_amount /\ g[k] \in Int
      BY <2>3, <2>5, <2>6, <3>1, YtdTyped
    <3>3. \A i \in D \ {k} : <<x, i>> \in Districts \ {e}
      BY <1>0, <3>1
    <3>4. \A i \in D \ {k} : g[i] = f[i]
      BY <2>3, <2>6, <3>3
    <3>5. paid(g) = paid(f) - f[k] + g[k]
      <4> HIDE DEF D
      <4> QED
        BY <1>0, <2>5, <2>7, <3>2, <3>4, SumUpdate
    <3>6. /\ SumFunctionOnSet(Amount, PaidToDistricts(x)) \in Int
          /\ SumFunctionOnSet(Amount, PaidToDistricts(x)')
               = SumFunctionOnSet(Amount, PaidToDistricts(x)) + Log[n].h_amount
      BY <1>2, <2>4, <2>8, AmountAdds
    <3>7. paid(f) = SumFunctionOnSet(Amount, PaidToDistricts(x)) /\ f[k] \in Int
      BY <1>1, <2>5, <2>7 DEF f
    <3> HIDE DEF paid, D
    <3>8. paid(g) = SumFunctionOnSet(Amount, PaidToDistricts(x)')
      BY <2>5, <3>2, <3>5, <3>6, <3>7
    <3> QED
      BY <3>8 DEF g
  <2>9. CASE Log[n].w_id # x
    <3>1. \A i \in D : <<x, i>> \in Districts \ {e}
      BY <1>0, <2>9
    <3>2. g = f
      BY <2>3, <3>1 DEF DistrictsYtd
    <3> QED
      BY <1>1, <2>4, <2>9, <3>2
  <2> QED
    BY <2>8, <2>9
<1>6. ASSUME \A m \in 1..Len(Log) : Begun(MainOf(m))' <=> Begun(MainOf(m)), UNCHANGED district
      PROVE  paid(DistrictsYtd(x)') = SumFunctionOnSet(Amount, PaidToDistricts(x)')
  <2>1. DistrictsYtd(x)' = DistrictsYtd(x) /\ PaidToDistricts(x)' = PaidToDistricts(x)
    BY <1>3, <1>6, NoMainBegins
  <2> QED
    BY <1>1, <2>1
<1>7. ASSUME NEW w \in Workers, NEW b \in Txns, EnterWarehouse(w, b)
      PROVE  paid(DistrictsYtd(x)') = SumFunctionOnSet(Amount, PaidToDistricts(x)')
  <2>1. Start(w, b) /\ IsWarehouseOp(b) /\ UNCHANGED district
    BY <1>7 DEF EnterWarehouse
  <2>2. \A c \in Txns : Begun(c)' <=> (Begun(c) \/ c = b)
    BY <2>1, StartBegins
  <2>3. \A m \in 1..Len(Log) : MainOf(m) \in Txns /\ MainOf(m) # b
    BY <2>1, BehaviourOfEntry
  <2> QED
    BY <1>6, <2>1, <2>2, <2>3
<1>8. CASE ~Entering
  <2>1. \A m \in 1..Len(Log) : MainOf(m) \in Txns
    BY BehaviourOfEntry
  <2> QED
    BY <1>6, <1>8, <2>1, NoneBegins
<1> QED
  BY <1>4, <1>5, <1>7, <1>8 DEF Entering


LEMMA YtdInvariance == Spec => [](Base /\ WarehouseInv /\ DistrictsInv)
<1>1. Init => WarehouseInv /\ DistrictsInv
  <2> SUFFICES ASSUME Init, NEW x \in Warehouses
               PROVE  /\ w_ytd[x] = LoadedYtd + SumFunctionOnSet(Amount, PaidToWarehouse(x))
                      /\ SumFunctionOnSet(DistrictsYtd(x), 1..DistrictsPerWarehouse)
                           = SumFunctionOnSet(Amount, PaidToDistricts(x))
    BY DEF WarehouseInv, DistrictsInv
  <2>1. finished = {} /\ \A w \in Workers : running[w] = 0
    BY DEF Init, RtInit
  <2>2. \A m \in 1..Len(Log) : /\ MainOf(m) \in Txns /\ MainOf(m) # 0
                               /\ PayerOf(m) \in Txns /\ PayerOf(m) # 0
    BY BehaviourOfEntry DEF Txns
  <2>3. PaidToWarehouse(x) = {} /\ PaidToDistricts(x) = {}
    BY <2>1, <2>2 DEF Begun, PaidToWarehouse, PaidToDistricts, EntriesOf
  <2>4. SumFunctionOnSet(Amount, {}) = 0
    BY SumEmpty
  <2>5. w_ytd[x] = LoadedYtd
    BY DEF Init
  <2>6. \A k \in 1..DistrictsPerWarehouse : DistrictsYtd(x)[k] = 0
    <3> SUFFICES ASSUME NEW k \in 1..DistrictsPerWarehouse PROVE DistrictsYtd(x)[k] = 0
      OBVIOUS
    <3>1. <<x, k>> \in Districts
      BY DEF Districts
    <3>2. district[<<x, k>>].d_ytd = LoadedYtd
      BY <3>1 DEF Init, LoadedDistrict
    <3>3. DistrictsYtd(x)[k] = district[<<x, k>>].d_ytd - LoadedYtd
      BY DEF DistrictsYtd
    <3> QED
      BY <3>2, <3>3, YtdTyped
  <2>7. IsFiniteSet(1..DistrictsPerWarehouse)
    BY SizesNat, FS_Interval
  <2>8. SumFunctionOnSet(DistrictsYtd(x), 1..DistrictsPerWarehouse) = 0
    BY <2>6, <2>7, SumZero
  <2> QED
    BY <2>3, <2>4, <2>5, <2>8, YtdTyped
<1> QED
  BY <1>1, WarehouseInvStep, DistrictsInvStep, BaseInvariance, PTL DEF Spec

(* A set and another one, taken apart where they differ. *)
LEMMA AmountsDiffer ==
  ASSUME NEW S \in SUBSET (1..Len(Log)), NEW T \in SUBSET (1..Len(Log))
  PROVE  /\ SumFunctionOnSet(Amount, S) \in Int /\ SumFunctionOnSet(Amount, T) \in Int
         /\ SumFunctionOnSet(Amount, S \ T) \in Int /\ SumFunctionOnSet(Amount, T \ S) \in Int
         /\ SumFunctionOnSet(Amount, S) + SumFunctionOnSet(Amount, T \ S)
              = SumFunctionOnSet(Amount, T) + SumFunctionOnSet(Amount, S \ T)
<1>0. Len(Log) \in Nat
  BY TpccAssumption
<1>1. IsFiniteSet(1..Len(Log))
  BY <1>0, FS_Interval
<1>2. IsFiniteSet(S) /\ IsFiniteSet(T) /\ IsFiniteSet(S \ T) /\ IsFiniteSet(T \ S)
  BY <1>1, FS_Subset
<1>3. \A m \in 1..Len(Log) : Amount[m] \in Int
  BY LogTyped DEF Amount
<1>4. /\ SumFunctionOnSet(Amount, S) \in Int /\ SumFunctionOnSet(Amount, T \ S) \in Int
      /\ SumFunctionOnSet(Amount, S \cup (T \ S))
           = SumFunctionOnSet(Amount, S) + SumFunctionOnSet(Amount, T \ S)
  BY <1>2, <1>3, SumUnion
<1>5. /\ SumFunctionOnSet(Amount, T) \in Int /\ SumFunctionOnSet(Amount, S \ T) \in Int
      /\ SumFunctionOnSet(Amount, T \cup (S \ T))
           = SumFunctionOnSet(Amount, T) + SumFunctionOnSet(Amount, S \ T)
  BY <1>2, <1>3, SumUnion
<1>6. S \cup (T \ S) = T \cup (S \ T)
  OBVIOUS
<1> QED
  BY <1>4, <1>5, <1>6

(* In every state, and whatever order the two behaviours of an entry of    *)
(* the log run in, a warehouse's w_ytd and the d_ytd of its districts      *)
(* differ by the payments of which one half only has been made.            *)
THEOREM YtdConsistentHolds == Spec => []YtdConsistent
<1>1. WarehouseInv /\ DistrictsInv => YtdConsistent
  <2> SUFFICES ASSUME WarehouseInv, DistrictsInv, NEW x \in Warehouses
               PROVE  LET w == PaidToWarehouse(x)
                          d == PaidToDistricts(x)
                      IN  w_ytd[x] - LoadedYtd + SumFunctionOnSet(Amount, d \ w)
                            = SumFunctionOnSet(DistrictsYtd(x), 1..DistrictsPerWarehouse)
                                + SumFunctionOnSet(Amount, w \ d)
    BY DEF YtdConsistent
  <2> DEFINE w == PaidToWarehouse(x)
             d == PaidToDistricts(x)
             sw == SumFunctionOnSet(Amount, w)
             sd == SumFunctionOnSet(Amount, d)
             wd == SumFunctionOnSet(Amount, w \ d)
             dw == SumFunctionOnSet(Amount, d \ w)
  <2>1. w \in SUBSET (1..Len(Log)) /\ d \in SUBSET (1..Len(Log))
    BY DEF PaidToWarehouse, PaidToDistricts, EntriesOf
  <2> HIDE DEF w, d
  <2>2. sw \in Int /\ sd \in Int /\ wd \in Int /\ dw \in Int /\ sw + dw = sd + wd
    BY <2>1, AmountsDiffer
  <2>3. w_ytd[x] = LoadedYtd + sw
    BY DEF WarehouseInv, w
  <2>4. SumFunctionOnSet(DistrictsYtd(x), 1..DistrictsPerWarehouse) = sd
    BY DEF DistrictsInv, d
  <2> HIDE DEF sw, sd, wd, dw
  <2>5. w_ytd[x] - LoadedYtd + dw
          = SumFunctionOnSet(DistrictsYtd(x), 1..DistrictsPerWarehouse) + wd
    BY <2>2, <2>3, <2>4, YtdTyped
  <2> QED
    BY <2>5 DEF w, d, wd, dw
<1> QED
  BY <1>1, YtdInvariance, PTL

-----------------------------------------------------------------------------
(* The inserts into a table that are left of a lambda's. *)
LeftOf(s, table) == {k \in 1..Len(s) : s[k].table = table}

LEMMA LeftFinite ==
  ASSUME NEW s \in Seq(InsertRows), NEW table
  PROVE  IsFiniteSet(LeftOf(s, table)) /\ Cardinality(LeftOf(s, table)) \in Nat
<1>1. Len(s) \in Nat
  BY LenProperties
<1>2. IsFiniteSet(1..Len(s))
  BY <1>1, FS_Interval
<1>3. IsFiniteSet(LeftOf(s, table))
  BY <1>2, FS_Subset DEF LeftOf
<1> QED
  BY <1>3, FS_CardinalityType

(* A NewOrder has an insert for every line, and one for each other table. *)
LEMMA LeftAtFirst ==
  ASSUME NEW n \in 1..Len(Log), NEW o \in Int, NEW table \in Tables
  PROVE  Cardinality(LeftOf(NewOrderInserts(Log[n], o), table))
           = IF table = "order_line" THEN Len(Log[n].lines) ELSE 1
<1> DEFINE t == Log[n]
           s == NewOrderInserts(t, o)
           m == Len(t.lines)
           hash == OrderKey(t.w_id, t.d_id, o)
<1>1. /\ Len(s) = m + 2 /\ m \in 0..15
      /\ \A k \in 1..m : s[k] = InsertOrderLine(t, hash, k)
      /\ s[m + 1] = [table |-> "order", key |-> hash, row |-> <<t.w_id, t.d_id, o>>]
      /\ s[m + 2] = [table |-> "new_order", key |-> hash, row |-> <<t.w_id, t.d_id, o>>]
  BY InsertsOf
<1> HIDE DEF s, hash, t, m
<1>2. /\ s[m + 1].table = "order" /\ s[m + 2].table = "new_order"
      /\ \A k \in 1..m : s[k].table = "order_line"
  <2>1. \A k \in 1..m : InsertOrderLine(t, hash, k).table = "order_line"
    BY DEF InsertOrderLine
  <2>2. \A k \in 1..m : s[k].table = "order_line"
    BY <1>1, <2>1
  <2>3. s[m + 1].table = "order" /\ s[m + 2].table = "new_order"
    BY <1>1
  <2> QED
    BY <2>2, <2>3
<1>3. CASE table = "order_line"
  <2>1. LeftOf(s, table) = 1..m
    BY <1>1, <1>2, <1>3 DEF LeftOf
  <2>2. Cardinality(1..m) = m
    <3>1. Cardinality(1..m) = IF 1 > m THEN 0 ELSE m - 1 + 1
      BY <1>1, FS_Interval
    <3> QED
      BY <1>1, <3>1
  <2> QED
    BY <1>3, <2>1, <2>2 DEF s, t, m
<1>4. CASE table = "order"
  <2>1. LeftOf(s, table) = {m + 1}
    BY <1>1, <1>2, <1>4 DEF LeftOf
  <2> QED
    BY <1>4, <2>1, FS_Singleton DEF s, t
<1>5. CASE table = "new_order"
  <2>1. LeftOf(s, table) = {m + 2}
    BY <1>1, <1>2, <1>5 DEF LeftOf
  <2> QED
    BY <1>5, <2>1, FS_Singleton DEF s, t
<1> QED
  BY <1>3, <1>4, <1>5 DEF Tables

(* Doing the first insert leaves one fewer of its table's. *)
LEMMA LeftAfter ==
  ASSUME NEW s \in Seq(InsertRows), NEW r \in Seq(InsertRows), NEW table,
         Len(s) >= 1, Len(r) = Len(s) - 1, \A k \in 1..(Len(s) - 1) : r[k] = s[k + 1]
  PROVE  Cardinality(LeftOf(r, table))
           = Cardinality(LeftOf(s, table)) - IF s[1].table = table THEN 1 ELSE 0
<1> DEFINE l == Len(s)
           A == LeftOf(s, table)
           B == LeftOf(r, table)
           f == [k \in B |-> k + 1]
<1>1. l \in Nat /\ l >= 1 /\ Len(r) = l - 1
  BY LenProperties
<1>2. IsFiniteSet(A) /\ IsFiniteSet(B) /\ Cardinality(A) \in Nat /\ Cardinality(B) \in Nat
  BY LeftFinite
<1>3. /\ A = {k \in 1..l : s[k].table = table}
      /\ B = {k \in 1..(l - 1) : s[k + 1].table = table}
  BY <1>1 DEF LeftOf
<1> HIDE DEF l, A, B
<1>4. f \in Bijection(B, A \ {1})
  <2>1. f \in [B -> A \ {1}]
    BY <1>1, <1>3
  <2>2. \A i, j \in B : f[i] = f[j] => i = j
    BY <1>1, <1>3
  <2>3. ASSUME NEW k \in A \ {1} PROVE \E i \in B : f[i] = k
    <3>1. k - 1 \in B /\ f[k - 1] = k
      BY <1>1, <1>3
    <3> QED
      BY <3>1
  <2> HIDE DEF f
  <2> QED
    BY <2>1, <2>2, <2>3 DEF Bijection, Injection, Surjection, IsInjective
<1>5. Cardinality(A \ {1}) = Cardinality(B)
  BY <1>2, <1>4, FS_Bijection DEF ExistsBijection
<1>6. 1 \in A <=> s[1].table = table
  BY <1>1, <1>3
<1>7. CASE 1 \in A
  <2>1. Cardinality(A \ {1}) = Cardinality(A) - 1
    BY <1>2, <1>7, FS_RemoveElement
  <2> QED
    BY <1>2, <1>5, <1>6, <1>7, <2>1 DEF A, B
<1>8. CASE 1 \notin A
  <2>1. A \ {1} = A
    BY <1>8
  <2>2. Cardinality(B) = Cardinality(A)
    BY <1>5, <2>1
  <2>3. Cardinality(A) = Cardinality(A) - 0
    BY <1>2
  <2>4. s[1].table # table
    BY <1>6, <1>8
  <2> QED
    BY <2>2, <2>3, <2>4 DEF A, B
<1> QED
  BY <1>7, <1>8


(* The insert_rows that a behaviour does in all, and the cases of          *)
(* InsertedBy, in a state given by its running, finished and inserts.      *)
IsNewOrder(b) == ~IsWarehouseOp(b) /\ EntryOf(b).type = "NewOrder"
AllOf(b, table) == IF table = "order_line" THEN Len(EntryOf(b).lines) ELSE 1

DoneOn(ws, b, table, fin, ins) ==
  IF IsWarehouseOp(b) \/ EntryOf(b).type # "NewOrder" THEN 0
  ELSE IF b \in fin THEN AllOf(b, table)
  ELSE IF ws = {} THEN 0
  ELSE AllOf(b, table) - Cardinality(LeftOf(ins[CHOOSE w \in ws : TRUE], table))

DoneBy(b, table, run, fin, ins) ==
  DoneOn({w \in Workers : run[w] = b}, b, table, fin, ins)

LEMMA InsertedByIs ==
  ASSUME NEW b, NEW table
  PROVE  /\ InsertedBy(b, table) = DoneBy(b, table, running, finished, inserts)
         /\ InsertedBy(b, table)' = DoneBy(b, table, running', finished', inserts')
BY DEF InsertedBy, DoneOn, DoneBy, AllOf, LeftOf

LEMMA AllOfTyped ==
  ASSUME NEW b \in Txns, NEW table
  PROVE  AllOf(b, table) \in Int
<1>1. PICK n \in 1..Len(Log) : EntryOf(b) = Log[n]
  BY EntryOfBehaviour
<1>2. Len(Log[n].lines) \in 0..15
  BY LogTyped
<1> QED
  BY <1>1, <1>2 DEF AllOf

LEMMA DoneByTyped ==
  ASSUME NEW b \in Txns, NEW table, NEW run, NEW fin, NEW ins \in [Workers -> Seq(InsertRows)]
  PROVE  DoneBy(b, table, run, fin, ins) \in Int
<1> DEFINE ws == {w \in Workers : run[w] = b}
           v == CHOOSE w \in ws : TRUE
<1>1. AllOf(b, table) \in Int
  BY AllOfTyped
<1>2. CASE ws # {}
  <2>1. v \in Workers
    BY <1>2
  <2> HIDE DEF v
  <2>2. ins[v] \in Seq(InsertRows)
    BY <2>1
  <2>3. Cardinality(LeftOf(ins[v], table)) \in Nat
    BY <2>2, LeftFinite
  <2>4. AllOf(b, table) - Cardinality(LeftOf(ins[v], table)) \in Int
    BY <1>1, <2>3
  <2> QED
    BY <1>1, <2>4 DEF DoneOn, DoneBy, v
<1>3. CASE ws = {}
  BY <1>1, <1>3 DEF DoneOn, DoneBy
<1> QED
  BY <1>2, <1>3

(* A behaviour that runs on one worker has done what is not left. *)
LEMMA DoneByRunning ==
  ASSUME NEW b, NEW table, NEW run, NEW fin, NEW ins, NEW w \in Workers,
         IsNewOrder(b), b \notin fin, run[w] = b, \A v \in Workers : run[v] = b => v = w
  PROVE  DoneBy(b, table, run, fin, ins) = AllOf(b, table) - Cardinality(LeftOf(ins[w], table))
<1>1. {v \in Workers : run[v] = b} = {w}
  OBVIOUS
<1>2. (CHOOSE v \in {w} : TRUE) = w
  OBVIOUS
<1> QED
  BY <1>1, <1>2 DEF DoneOn, DoneBy, IsNewOrder

(* What happens to other behaviours does not count. *)
LEMMA DoneBySame ==
  ASSUME NEW b, NEW table, NEW run, NEW fin, NEW ins, NEW run2, NEW fin2, NEW ins2,
         b \in fin <=> b \in fin2, \A w \in Workers : run[w] = b <=> run2[w] = b,
         \A w \in Workers : run[w] = b => ins2[w] = ins[w]
  PROVE  DoneBy(b, table, run, fin, ins) = DoneBy(b, table, run2, fin2, ins2)
<1> DEFINE ws == {w \in Workers : run[w] = b}
           v == CHOOSE w \in ws : TRUE
<1>1. ws = {w \in Workers : run2[w] = b}
  OBVIOUS
<1>2. ws # {} => v \in Workers /\ run[v] = b
  OBVIOUS
<1>3. ws # {} => ins2[v] = ins[v]
  BY <1>2
<1>4. /\ DoneBy(b, table, run, fin, ins) = DoneOn(ws, b, table, fin, ins)
      /\ DoneBy(b, table, run2, fin2, ins2) = DoneOn(ws, b, table, fin2, ins2)
  BY <1>1 DEF DoneBy
<1> HIDE DEF ws
<1>5. DoneOn(ws, b, table, fin, ins) = DoneOn(ws, b, table, fin2, ins2)
  BY <1>3 DEF DoneOn, v
<1> QED
  BY <1>4, <1>5


LEMMA InsertedTyped ==
  ASSUME Base, NEW table
  PROVE  /\ \A b \in Txns : InsertedBy(b, table) \in Int
         /\ Inserted(table) \in Int /\ IsFiniteSet(Txns) /\ Txns = 1..NumBehaviours
<1>1. Txns = 1..NumBehaviours /\ NumBehaviours \in Nat
  BY TpccAssumption DEF Txns, NumBehaviours
<1>2. IsFiniteSet(Txns)
  BY <1>1, FS_Interval
<1>3. \A b \in Txns : InsertedBy(b, table) \in Int
  BY InsertedByIs, DoneByTyped DEF Base, TypeInv
<1> DEFINE f == [b \in Txns |-> InsertedBy(b, table)]
<1>4. \A b \in Txns : f[b] \in Int /\ f[b] <= f[b]
  BY <1>3
<1>5. Inserted(table) = SumFunctionOnSet(f, Txns)
  BY <1>1 DEF Inserted
<1> HIDE DEF f
<1>6. SumFunctionOnSet(f, Txns) \in Int
  BY <1>2, <1>4, SumMonotone
<1> QED
  BY <1>1, <1>2, <1>3, <1>5, <1>6

LEMMA InsertedSame ==
  ASSUME NEW table, \A b \in Txns : InsertedBy(b, table)' = InsertedBy(b, table)
  PROVE  Inserted(table)' = Inserted(table)
BY DEF Inserted, Txns

LEMMA InsertedOneMore ==
  ASSUME Base, NEW table, NEW b \in Txns, InsertedBy(b, table)' = InsertedBy(b, table) + 1,
         \A c \in Txns \ {b} : InsertedBy(c, table)' = InsertedBy(c, table)
  PROVE  Inserted(table)' = Inserted(table) + 1
<1> DEFINE f == [c \in Txns |-> InsertedBy(c, table)]
           g == [c \in Txns |-> InsertedBy(c, table)']
<1>1. /\ \A c \in Txns : InsertedBy(c, table) \in Int
      /\ Inserted(table) \in Int /\ IsFiniteSet(Txns) /\ Txns = 1..NumBehaviours
  BY InsertedTyped
<1>2. Inserted(table) = SumFunctionOnSet(f, Txns) /\ Inserted(table)' = SumFunctionOnSet(g, Txns)
  BY <1>1 DEF Inserted
<1>3. /\ \A c \in Txns : f[c] \in Int
      /\ g[b] = f[b] + 1 /\ g[b] \in Int /\ \A c \in Txns \ {b} : g[c] = f[c]
  BY <1>1
<1> HIDE DEF f, g
<1>4. SumFunctionOnSet(g, Txns) = SumFunctionOnSet(f, Txns) - f[b] + g[b]
  <2>1. IsFiniteSet(Txns)
    BY <1>1
  <2>2. \A c \in Txns : f[c] \in Int
    BY <1>3
  <2>3. g[b] \in Int
    BY <1>3
  <2>4. \A c \in Txns \ {b} : g[c] = f[c]
    BY <1>3
  <2> QED
    BY ONLY <2>1, <2>2, <2>3, <2>4, b \in Txns, SumUpdate
<1>5. f[b] \in Int
  BY <1>3
<1> QED
  BY <1>1, <1>2, <1>3, <1>4, <1>5

(* Entering a lambda does no insert, and neither does returning from it. *)
LEMMA StartInsertsNone ==
  ASSUME Base, Base', NEW w \in Workers, NEW b \in Txns, Start(w, b), NEW table \in Tables,
         \A v \in Workers \ {w} : inserts'[v] = inserts[v],
         IsNewOrder(b) => Cardinality(LeftOf(inserts'[w], table)) = AllOf(b, table)
  PROVE  Inserted(table)' = Inserted(table)
<1>1. /\ running[w] = 0 /\ UNCHANGED finished /\ b \notin finished
      /\ \A v \in Workers : running[v] # b
  BY DEF Start, Ready
<1>2. running'[w] = b /\ b # 0 /\ \A v \in Workers \ {w} : running'[v] = running[v]
  BY RunningChanges DEF Base
<1> SUFFICES ASSUME NEW c \in Txns PROVE InsertedBy(c, table)' = InsertedBy(c, table)
  BY InsertedSame
<1>3. /\ InsertedBy(c, table) = DoneBy(c, table, running, finished, inserts)
      /\ InsertedBy(c, table)' = DoneBy(c, table, running', finished', inserts')
  BY InsertedByIs
<1>4. CASE c # b
  <2>1. c # 0
    BY DEF Txns
  <2>2. /\ \A v \in Workers : running[v] = c <=> running'[v] = c
        /\ \A v \in Workers : running[v] = c => inserts'[v] = inserts[v]
        /\ c \in finished <=> c \in finished'
    BY <1>1, <1>2, <1>4, <2>1
  <2>3. DoneBy(c, table, running, finished, inserts)
          = DoneBy(c, table, running', finished', inserts')
    BY <2>2, DoneBySame
  <2> QED
    BY <1>3, <2>3
<1>5. CASE c = b
  <2>1. DoneBy(b, table, running, finished, inserts) = 0
    <3>1. {v \in Workers : running[v] = b} = {}
      BY <1>1
    <3> QED
      BY <1>1, <3>1 DEF DoneBy, DoneOn
  <2>2. CASE ~IsNewOrder(b)
    BY <1>3, <1>5, <2>1, <2>2 DEF DoneBy, DoneOn, IsNewOrder
  <2>3. CASE IsNewOrder(b)
    <3>1. \A v \in Workers : running'[v] = b => v = w
      BY <1>1, <1>2
    <3>2. DoneBy(b, table, running', finished', inserts')
            = AllOf(b, table) - Cardinality(LeftOf(inserts'[w], table))
      BY <1>1, <1>2, <2>3, <3>1, DoneByRunning
    <3>3. AllOf(b, table) \in Int
      BY AllOfTyped
    <3> QED
      BY <1>3, <1>5, <2>1, <2>3, <3>2, <3>3
  <2> QED
    BY <2>2, <2>3
<1> QED
  BY <1>4, <1>5

LEMMA FinishInsertsNone ==
  ASSUME Base, NEW w \in Workers, Finish(w), running[w] # 0, inserts[w] = <<>>,
         UNCHANGED inserts, NEW table \in Tables
  PROVE  Inserted(table)' = Inserted(table)
<1> DEFINE b == running[w]
<1>1. finished' = finished \cup {b}
  BY DEF Finish
<1>2. running'[w] = 0 /\ \A v \in Workers \ {w} : running'[v] = running[v]
  BY RunningChanges DEF Base
<1>3. b \notin finished /\ \A v \in Workers : running[v] = b => v = w
  BY DEF Base, RP!RtIInv, RP!RunInv
<1> SUFFICES ASSUME NEW c \in Txns PROVE InsertedBy(c, table)' = InsertedBy(c, table)
  BY InsertedSame
<1>4. /\ InsertedBy(c, table) = DoneBy(c, table, running, finished, inserts)
      /\ InsertedBy(c, table)' = DoneBy(c, table, running', finished', inserts')
  BY InsertedByIs
<1>5. CASE c # b
  <2>1. c # 0
    BY DEF Txns
  <2>2. /\ \A v \in Workers : running[v] = c <=> running'[v] = c
        /\ \A v \in Workers : running[v] = c => inserts'[v] = inserts[v]
        /\ c \in finished <=> c \in finished'
    BY <1>1, <1>2, <1>5, <2>1
  <2>3. DoneBy(c, table, running, finished, inserts)
          = DoneBy(c, table, running', finished', inserts')
    BY <2>2, DoneBySame
  <2> QED
    BY <1>4, <2>3
<1>6. CASE c = b
  <2>1. CASE ~IsNewOrder(c)
    BY <1>4, <2>1 DEF DoneBy, DoneOn, IsNewOrder
  <2>2. CASE IsNewOrder(c)
    <3>1. DoneBy(c, table, running, finished, inserts)
            = AllOf(c, table) - Cardinality(LeftOf(inserts[w], table))
      <4>1. c \notin finished /\ running[w] = c /\ \A v \in Workers : running[v] = c => v = w
        BY <1>3, <1>6
      <4> QED
        BY ONLY <2>2, <4>1, w \in Workers, DoneByRunning
    <3>2. LeftOf(inserts[w], table) = {}
      BY DEF LeftOf
    <3>3. AllOf(c, table) \in Int
      BY AllOfTyped
    <3>4. DoneBy(c, table, running, finished, inserts) = AllOf(c, table)
      <4>1. Cardinality(LeftOf(inserts[w], table)) = 0
        BY <3>2, FS_EmptySet
      <4> QED
        BY <3>1, <3>3, <4>1
    <3>5. DoneBy(c, table, running', finished', inserts') = AllOf(c, table)
      BY <1>1, <1>6, <2>2 DEF DoneBy, DoneOn, IsNewOrder
    <3> QED
      BY <1>4, <3>4, <3>5
  <2> QED
    BY <2>1, <2>2
<1> QED
  BY <1>5, <1>6


(* Storing a row is one insert more of its table, of the lambda's. *)
LEMMA StoreInsertsOne ==
  ASSUME Base, NEW w \in Workers, InsertStore(w), IsNewOrder(running[w]), NEW table \in Tables
  PROVE  Inserted(table)'
           = IF inserts[w][1].table = table THEN Inserted(table) + 1 ELSE Inserted(table)
<1> DEFINE s == inserts[w]
           r == inserts'[w]
           i == s[1]
<1>1. /\ s \in Seq(InsertRows) /\ s # <<>> /\ Len(s) \in Nat /\ Len(s) >= 1
      /\ r \in Seq(InsertRows) /\ Len(r) = Len(s) - 1
      /\ \A k \in 1..(Len(s) - 1) : r[k] = s[k + 1]
      /\ \A v \in Workers \ {w} : inserts'[v] = inserts[v]
      /\ UNCHANGED <<running, finished>>
  <2>1. TypeInv
    BY DEF Base
  <2>2. /\ s \in Seq(InsertRows) /\ s # <<>> /\ Len(s) \in Nat /\ Len(s) >= 1
        /\ inserts' \in [Workers -> Seq(InsertRows)] /\ Len(r) = Len(s) - 1
        /\ \A k \in 1..(Len(s) - 1) : r[k] = s[k + 1]
        /\ \A v \in Workers \ {w} : inserts'[v] = inserts[v]
        /\ UNCHANGED runtimeVars
    BY <2>1, InsertStoreDoes
  <2>3. r \in Seq(InsertRows)
    BY <2>2
  <2> QED
    BY <2>2, <2>3 DEF runtimeVars
<1>2. running[w] # 0
  BY <1>1 DEF Base, TypeInv
<1>3. PICK b \in Txns : /\ b = running[w] /\ b \notin finished
                       /\ \A v \in Workers : running[v] = b => v = w
  <2>1. running \in [Workers -> 0..NumBehaviours]
    BY RunningChanges DEF Base
  <2>2. running[w] \in Txns
    BY <1>2, <2>1 DEF Txns
  <2>3. running[w] \notin finished /\ \A v \in Workers : running[v] = running[w] => v = w
    BY <1>2 DEF Base, RP!RtIInv, RP!RunInv
  <2> QED
    BY <2>2, <2>3
<1> HIDE DEF s, r
<1>4. \A c \in Txns : /\ InsertedBy(c, table) = DoneBy(c, table, running, finished, inserts)
                      /\ InsertedBy(c, table)' = DoneBy(c, table, running', finished', inserts')
  BY InsertedByIs
<1>5. ASSUME NEW c \in Txns \ {b} PROVE InsertedBy(c, table)' = InsertedBy(c, table)
  <2>1. /\ \A v \in Workers : running[v] = c <=> running'[v] = c
        /\ \A v \in Workers : running[v] = c => inserts'[v] = inserts[v]
        /\ c \in finished <=> c \in finished'
    BY <1>1, <1>3
  <2>2. DoneBy(c, table, running, finished, inserts)
          = DoneBy(c, table, running', finished', inserts')
    BY <2>1, DoneBySame
  <2> QED
    BY <1>4, <2>2
<1> DEFINE left == Cardinality(LeftOf(s, table))
           one == IF i.table = table THEN 1 ELSE 0
<1>6. InsertedBy(b, table) = AllOf(b, table) - left
  <2>1. DoneBy(b, table, running, finished, inserts)
          = AllOf(b, table) - Cardinality(LeftOf(inserts[w], table))
    <3>1. running[w] = b /\ IsNewOrder(b)
      BY <1>3
    <3> QED
      BY ONLY <1>3, <3>1, w \in Workers, DoneByRunning
  <2> QED
    BY <1>3, <1>4, <2>1 DEF s
<1>7. InsertedBy(b, table)' = AllOf(b, table) - Cardinality(LeftOf(r, table))
  <2>1. DoneBy(b, table, running', finished', inserts')
          = AllOf(b, table) - Cardinality(LeftOf(inserts'[w], table))
    <3>1. /\ running'[w] = b /\ IsNewOrder(b) /\ b \notin finished'
          /\ \A v \in Workers : running'[v] = b => v = w
      BY <1>1, <1>3
    <3> QED
      BY ONLY <3>1, w \in Workers, DoneByRunning
  <2> QED
    BY <1>3, <1>4, <2>1 DEF r
<1>8. Cardinality(LeftOf(r, table)) = left - one /\ left \in Int
  <2>1. left \in Nat
    BY <1>1, LeftFinite
  <2>2. Cardinality(LeftOf(r, table)) = left - one
    BY <1>1, LeftAfter
  <2> QED
    BY <2>1, <2>2
<1>9. AllOf(b, table) \in Int
  BY <1>3, AllOfTyped
<1> HIDE DEF left
<1>10. InsertedBy(b, table)' = IF i.table = table THEN InsertedBy(b, table) + 1
                               ELSE InsertedBy(b, table)
  BY <1>6, <1>7, <1>8, <1>9
<1> HIDE DEF i
<1>11. CASE i.table = table
  <2>1. Inserted(table)' = Inserted(table) + 1
    BY <1>3, <1>5, <1>10, <1>11, InsertedOneMore
  <2> QED
    BY <1>11, <2>1 DEF i, s
<1>12. CASE i.table # table
  <2>1. \A c \in Txns : InsertedBy(c, table)' = InsertedBy(c, table)
    BY <1>5, <1>10, <1>12
  <2>2. Inserted(table)' = Inserted(table)
    BY <2>1, InsertedSame
  <2> QED
    BY <1>12, <2>2 DEF i, s
<1> QED
  BY <1>11, <1>12

(* cnt is at most the rows inserted, and so is a cnt that an insert_row    *)
(* has read: the rows inserted since have only become more.                *)
Bound(table) == LoadedCnt[table] + Inserted(table)

CntInv ==
  /\ \A w \in Workers : inserts[w] # <<>> => IsNewOrder(running[w])
  /\ \A table \in Tables : cnt[table] <= Bound(table)
  /\ \A w \in Workers, table \in Tables :
       seen[w] # -1 /\ inserts[w][1].table = table => seen[w] <= Bound(table)

LEMMA LoadedCntTyped == LoadedCnt \in [Tables -> Int]
<1>1. NumWarehouses \in Int /\ DistrictsPerWarehouse \in Int /\ InitialOrders \in Int
      /\ InitialLines \in Int
  BY TpccAssumption
<1>2. /\ NumWarehouses * DistrictsPerWarehouse * InitialOrders \in Int
      /\ NumWarehouses * DistrictsPerWarehouse * InitialOrders * InitialLines \in Int
  BY <1>1
<1> QED
  BY <1>2 DEF LoadedCnt, Tables

(* The steps that store no row: nothing is inserted, whatever they do. *)
LEMMA NothingInserted ==
  ASSUME Base, Base', CntInv, [Next]_vars, ~ \E w \in Workers : InsertStore(w),
         NEW table \in Tables
  PROVE  Inserted(table)' = Inserted(table)
<1>0. TypeInv
  BY DEF Base
<1>1. ASSUME UNCHANGED <<running, finished, inserts>> PROVE Inserted(table)' = Inserted(table)
  BY <1>1 DEF Inserted, InsertedBy
<1>2. CASE ParseAndProcess \/ (\E c \in joining : Join(c)) \/ Done \/ UNCHANGED vars
  <2>1. UNCHANGED <<running, finished, inserts>>
    BY <1>2 DEF ParseAndProcess, Join, Done, Spawn, Exchange, vars, tableVars, runtimeVars
  <2> QED
    BY <1>1, <2>1
<1>3. ASSUME NEW w \in Workers, InsertCheck(w) PROVE UNCHANGED <<running, finished, inserts>>
  BY <1>3 DEF InsertCheck, runtimeVars
<1>4. ASSUME NEW w \in Workers, Leave(w) PROVE Inserted(table)' = Inserted(table)
  <2>1. Finish(w) /\ running[w] # 0 /\ inserts[w] = <<>> /\ UNCHANGED inserts
    BY <1>4 DEF Leave, tableVars
  <2> QED
    BY <2>1, FinishInsertsNone
<1>5. ASSUME NEW w \in Workers, NEW b \in Txns, EnterWarehouse(w, b) \/ EnterPayment(w, b)
      PROVE  Inserted(table)' = Inserted(table)
  <2>1. Start(w, b) /\ ~IsNewOrder(b) /\ UNCHANGED inserts
    BY <1>5 DEF EnterWarehouse, EnterPayment, IsNewOrder, tableVars
  <2> QED
    BY <2>1, StartInsertsNone
<1>6. ASSUME NEW w \in Workers, NEW b \in Txns, EnterNewOrder(w, b)
      PROVE  Inserted(table)' = Inserted(table)
  <2>1. PICK n \in 1..Len(Log) : EntryOf(b) = Log[n]
    BY <1>6, EntryOfBehaviour
  <2> DEFINE o == district[<<Log[n].w_id, Log[n].d_id>>].d_next_o_id
  <2>2. /\ o \in Int /\ inserts'[w] = NewOrderInserts(Log[n], o)
        /\ \A v \in Workers \ {w} : inserts'[v] = inserts[v]
    BY <1>0, <1>6, <2>1, EnterNewOrderDoes
  <2> HIDE DEF o
  <2>3. Cardinality(LeftOf(inserts'[w], table)) = AllOf(b, table)
    BY <2>1, <2>2, LeftAtFirst DEF AllOf
  <2>4. Start(w, b)
    BY <1>6 DEF EnterNewOrder
  <2> QED
    BY <2>2, <2>3, <2>4, StartInsertsNone
<1> QED
  BY <1>1, <1>2, <1>3, <1>4, <1>5, <1>6 DEF Next


(* A lambda that inserts is a NewOrder's. *)
LEMMA InsertersStep ==
  ASSUME Base, CntInv, [Next]_vars, NEW v \in Workers, inserts'[v] # <<>>
  PROVE  IsNewOrder(running'[v])
<1>0. /\ TypeInv /\ RP!RtIInv /\ (inserts[v] # <<>> => IsNewOrder(running[v]))
      /\ \A w \in Workers : running[w] = 0 => inserts[w] = <<>>
  BY DEF Base, CntInv, TypeInv
<1>1. CASE inserts'[v] = inserts[v] /\ running'[v] = running[v]
  BY <1>0, <1>1
<1>2. ASSUME NEW w \in Workers, NEW b \in Txns, EnterNewOrder(w, b) PROVE IsNewOrder(running'[v])
  <2>1. Start(w, b) /\ IsNewOrder(b)
    BY <1>2 DEF EnterNewOrder, IsNewOrder
  <2>2. running'[w] = b /\ \A u \in Workers \ {w} : running'[u] = running[u]
    BY <1>0, <2>1, RunningChanges
  <2>3. \A u \in Workers \ {w} : inserts'[u] = inserts[u]
    <3>1. PICK n \in 1..Len(Log) : EntryOf(b) = Log[n]
      BY EntryOfBehaviour
    <3> QED
      BY <1>0, <1>2, <3>1, EnterNewOrderDoes
  <2> QED
    BY <1>1, <2>1, <2>2, <2>3
<1>3. ASSUME NEW w \in Workers, NEW b \in Txns, EnterWarehouse(w, b) \/ EnterPayment(w, b)
      PROVE  IsNewOrder(running'[v])
  <2>1. Start(w, b) /\ UNCHANGED inserts /\ running[w] = 0
    BY <1>3 DEF EnterWarehouse, EnterPayment, Start, tableVars
  <2>2. \A u \in Workers \ {w} : running'[u] = running[u]
    BY <1>0, <2>1, RunningChanges
  <2>3. inserts'[w] = <<>>
    BY <1>0, <2>1
  <2> QED
    BY <1>1, <2>1, <2>2, <2>3
<1>4. ASSUME NEW w \in Workers, InsertStore(w) PROVE IsNewOrder(running'[v])
  <2>1. /\ inserts[w] # <<>> /\ \A u \in Workers \ {w} : inserts'[u] = inserts[u]
        /\ UNCHANGED runtimeVars
    BY <1>0, <1>4, InsertStoreDoes
  <2>2. inserts[v] # <<>> /\ running'[v] = running[v]
    BY <2>1 DEF runtimeVars
  <2> QED
    BY <1>0, <2>2
<1>5. ASSUME NEW w \in Workers, Leave(w) PROVE IsNewOrder(running'[v])
  <2>1. Finish(w) /\ UNCHANGED inserts /\ inserts[w] = <<>>
    BY <1>5 DEF Leave, tableVars
  <2>2. \A u \in Workers \ {w} : running'[u] = running[u]
    BY <1>0, <2>1, RunningChanges
  <2> QED
    BY <1>1, <2>1, <2>2
<1>6. CASE ParseAndProcess \/ (\E c \in joining : Join(c)) \/ Done \/ UNCHANGED vars
  <2>1. UNCHANGED <<running, inserts>>
    BY <1>6 DEF ParseAndProcess, Join, Done, Spawn, Exchange, vars, tableVars, runtimeVars
  <2> QED
    BY <1>1, <2>1
<1>7. ASSUME NEW w \in Workers, InsertCheck(w) PROVE UNCHANGED <<running, inserts>>
  BY <1>7 DEF InsertCheck, runtimeVars
<1> QED
  BY <1>1, <1>2, <1>3, <1>4, <1>5, <1>6, <1>7 DEF Next

(* Steps other than insert_row's leave every cnt, and what was read of it. *)
LEMMA CntsSame ==
  ASSUME Base, [Next]_vars, ~ \E w \in Workers : InsertStore(w) \/ InsertCheck(w)
  PROVE  /\ UNCHANGED <<cnt, seen>>
         /\ \A w \in Workers : seen[w] # -1 => inserts'[w] = inserts[w]
<1>0. TypeInv
  BY DEF Base
<1>1. CASE UNCHANGED <<cnt, seen, inserts>>
  BY <1>1
<1>2. CASE ParseAndProcess \/ (\E c \in joining : Join(c)) \/ Done \/ UNCHANGED vars
  BY <1>1, <1>2 DEF ParseAndProcess, Join, Done, vars, tableVars
<1>3. ASSUME NEW w \in Workers, NEW b \in Txns, EnterWarehouse(w, b) \/ EnterPayment(w, b)
      PROVE  UNCHANGED <<cnt, seen, inserts>>
  BY <1>3 DEF EnterWarehouse, EnterPayment, tableVars
<1>4. ASSUME NEW w \in Workers, Leave(w) PROVE UNCHANGED <<cnt, seen, inserts>>
  BY <1>4 DEF Leave, tableVars
<1>5. ASSUME NEW w \in Workers, NEW b \in Txns, EnterNewOrder(w, b)
      PROVE  /\ UNCHANGED <<cnt, seen>>
             /\ \A v \in Workers : seen[v] # -1 => inserts'[v] = inserts[v]
  <2>1. PICK n \in 1..Len(Log) : EntryOf(b) = Log[n]
    BY EntryOfBehaviour
  <2>2. seen[w] = -1 /\ \A v \in Workers \ {w} : inserts'[v] = inserts[v]
    BY <1>0, <1>5, <2>1, EnterNewOrderDoes
  <2> QED
    BY <1>5, <2>2 DEF EnterNewOrder
<1> QED
  BY <1>1, <1>2, <1>3, <1>4, <1>5 DEF Next

LEMMA CntInvStep == Base /\ Base' /\ CntInv /\ [Next]_vars => CntInv'
<1> SUFFICES ASSUME Base, Base', CntInv, [Next]_vars
             PROVE  /\ \A t \in Tables : cnt'[t] <= Bound(t)'
                    /\ \A v \in Workers, t \in Tables :
                         seen'[v] # -1 /\ inserts'[v][1].table = t => seen'[v] <= Bound(t)'
  BY InsertersStep DEF CntInv
<1>0. TypeInv /\ LoadedCnt \in [Tables -> Int]
  BY LoadedCntTyped DEF Base
<1>1. /\ \A t \in Tables : cnt[t] <= Bound(t)
      /\ \A v \in Workers, t \in Tables :
           seen[v] # -1 /\ inserts[v][1].table = t => seen[v] <= Bound(t)
  BY DEF CntInv
<1>2. ASSUME ~ \E w \in Workers : InsertStore(w)
      PROVE  \A t \in Tables : Bound(t)' = Bound(t)
  BY <1>2, NothingInserted DEF Bound
<1>3. CASE ~ \E w \in Workers : InsertStore(w) \/ InsertCheck(w)
  <2>1. \A t \in Tables : Bound(t)' = Bound(t)
    BY <1>2, <1>3
  <2>2. /\ UNCHANGED <<cnt, seen>>
        /\ \A v \in Workers : seen[v] # -1 => inserts'[v] = inserts[v]
    BY <1>3, CntsSame
  <2> QED
    BY <1>1, <2>1, <2>2
<1>4. ASSUME NEW w \in Workers, InsertCheck(w), ~ \E u \in Workers : InsertStore(u)
      PROVE  /\ \A t \in Tables : cnt'[t] <= Bound(t)'
             /\ \A v \in Workers, t \in Tables :
                  seen'[v] # -1 /\ inserts'[v][1].table = t => seen'[v] <= Bound(t)'
  <2>1. \A t \in Tables : Bound(t)' = Bound(t)
    BY <1>2, <1>4
  <2>2. /\ inserts[w] # <<>> /\ seen'[w] = cnt[Head(inserts[w]).table]
        /\ \A v \in Workers \ {w} : seen'[v] = seen[v]
        /\ UNCHANGED <<cnt, inserts>>
    BY <1>0, <1>4, InsertCheckDoes
  <2>3. inserts[w] \in Seq(InsertRows)
    BY <1>0 DEF TypeInv
  <2>4. Head(inserts[w]) = inserts[w][1]
    BY <2>2, <2>3, HeadAndTail
  <2>5. ASSUME NEW v \in Workers, NEW t \in Tables, seen'[v] # -1, inserts'[v][1].table = t
        PROVE  seen'[v] <= Bound(t)
    <3>1. CASE v = w
      BY <1>1, <2>2, <2>4, <2>5, <3>1
    <3>2. CASE v # w
      BY <1>1, <2>2, <2>5, <3>2
    <3> QED
      BY <3>1, <3>2
  <2>6. \A t \in Tables : cnt'[t] <= Bound(t)
    BY <1>1, <2>2
  <2> QED
    BY <2>1, <2>5, <2>6
<1>5. ASSUME NEW w \in Workers, InsertStore(w)
      PROVE  /\ \A t \in Tables : cnt'[t] <= Bound(t)'
             /\ \A v \in Workers, t \in Tables :
                  seen'[v] # -1 /\ inserts'[v][1].table = t => seen'[v] <= Bound(t)'
  <2> DEFINE i == inserts[w][1]
  <2>1. /\ inserts[w] # <<>> /\ i.table \in Tables
        /\ cnt'[i.table] = seen[w] + 1 /\ \A t \in Tables \ {i.table} : cnt'[t] = cnt[t]
        /\ seen'[w] = -1 /\ \A v \in Workers \ {w} : seen'[v] = seen[v] /\ inserts'[v] = inserts[v]
    BY <1>0, <1>5, InsertStoreDoes
  <2>2. IsNewOrder(running[w])
    BY <2>1 DEF CntInv
  <2>3. seen[w] # -1 /\ seen \in [Workers -> Int] /\ cnt \in [Tables -> Int]
    BY <1>0, <1>5 DEF InsertStore, TypeInv
  <2>4. \A t \in Tables : Bound(t) \in Int /\ LoadedCnt[t] \in Int /\ Inserted(t) \in Int
    BY <1>0, InsertedTyped DEF Bound
  <2>5. \A t \in Tables : Inserted(t)' = IF i.table = t THEN Inserted(t) + 1 ELSE Inserted(t)
    BY <1>5, <2>2, StoreInsertsOne
  <2>6. \A t \in Tables : Bound(t)' = IF i.table = t THEN Bound(t) + 1 ELSE Bound(t)
    BY <2>4, <2>5 DEF Bound
  <2> HIDE DEF i
  <2>7. ASSUME NEW t \in Tables PROVE cnt'[t] <= Bound(t)'
    <3>1. CASE i.table = t
      <4>1. seen[w] <= Bound(t) /\ seen[w] \in Int
        BY <1>1, <2>3, <3>1 DEF i
      <4> QED
        BY <2>1, <2>4, <2>6, <3>1, <4>1
    <3>2. CASE i.table # t
      BY <1>1, <2>1, <2>6, <3>2
    <3> QED
      BY <3>1, <3>2
  <2>8. ASSUME NEW v \in Workers, NEW t \in Tables, seen'[v] # -1, inserts'[v][1].table = t
        PROVE  seen'[v] <= Bound(t)'
    <3>1. v # w
      BY <2>1, <2>8
    <3>2. seen'[v] = seen[v] /\ seen[v] <= Bound(t) /\ seen[v] \in Int
      BY <1>1, <2>1, <2>3, <2>8, <3>1
    <3>3. Bound(t) <= Bound(t)' /\ Bound(t)' \in Int
      BY <2>4, <2>6
    <3> QED
      BY <2>4, <3>2, <3>3
  <2> QED
    BY <2>7, <2>8
<1> QED
  BY <1>3, <1>4, <1>5


LEMMA CntInvariance == Spec => [](Base /\ CntInv)
<1>1. Init /\ Base => CntInv
  <2> SUFFICES ASSUME Init, Base PROVE CntInv
    OBVIOUS
  <2>1. /\ finished = {} /\ inserts = [w \in Workers |-> <<>>] /\ seen = [w \in Workers |-> -1]
        /\ cnt = LoadedCnt /\ \A w \in Workers : running[w] = 0
    BY DEF Init, RtInit
  <2>2. ASSUME NEW table \in Tables PROVE cnt[table] <= Bound(table)
    <3>1. ASSUME NEW b \in Txns PROVE InsertedBy(b, table) = 0
      <4>1. {w \in Workers : running[w] = b} = {}
        BY <2>1 DEF Txns
      <4>2. DoneBy(b, table, running, finished, inserts) = 0
        BY <2>1, <4>1 DEF DoneBy, DoneOn
      <4> QED
        BY <4>2, InsertedByIs
    <3> DEFINE f == [b \in Txns |-> InsertedBy(b, table)]
    <3>2. IsFiniteSet(Txns) /\ Txns = 1..NumBehaviours
      BY InsertedTyped
    <3>3. Inserted(table) = SumFunctionOnSet(f, Txns)
      BY <3>2 DEF Inserted
    <3>4. \A b \in Txns : f[b] = 0
      BY <3>1
    <3> HIDE DEF f
    <3>5. Inserted(table) = 0
      BY <3>2, <3>3, <3>4, SumZero
    <3>6. LoadedCnt[table] \in Int
      BY LoadedCntTyped
    <3> QED
      BY <2>1, <3>5, <3>6 DEF Bound
  <2> QED
    BY <2>1, <2>2 DEF CntInv
<1> QED
  BY <1>1, CntInvStep, BaseInvariance, PTL DEF Spec

(* insert_row's increments of cnt race and may be lost, but a table's cnt  *)
(* is never more than the rows that were inserted into it: an insert_row   *)
(* that reads cnt and stores it later, plus one, stores no more than what  *)
(* was inserted meanwhile and its own row.                                 *)
THEOREM CntAtMostInsertedHolds == Spec => []CntAtMostInserted
<1>1. Base /\ CntInv => CntAtMostInserted
  BY DEF Base, TypeInv, CntInv, CntAtMostInserted, Bound
<1> QED
  BY <1>1, CntInvariance, PTL

=============================================================================
