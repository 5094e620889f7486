SPECIFICATION Spec
CONSTANTS
  NumWarehouses = 2
  DistrictsPerWarehouse = 1
  InitialOrders = 1
  InitialNewOrders = 0
  MaxOrders = 2
  InitialLines = 1
  CustomersPerDistrict = 2
  NumItems = 2
  StockPerWarehouse = 2
  InitialQuantities = {10, 29}
  WarehouseSplit = FALSE
  Workers = {w1, w2}
  Log <- TwoWarehouses
INVARIANTS
  StockInRange
  OrdersComplete
  KeysInTable
  ConflictsShareRows
