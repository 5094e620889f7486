SPECIFICATION Spec
CONSTANTS
  NumWarehouses = 1
  DistrictsPerWarehouse = 2
  InitialOrders = 1
  InitialNewOrders = 0
  MaxOrders = 2
  InitialLines = 1
  CustomersPerDistrict = 2
  NumItems = 2
  StockPerWarehouse = 2
  InitialQuantities = {10}
  WarehouseSplit = TRUE
  Workers = {w1, w2}
  Log <- TwoDistricts
INVARIANTS
  CntAtMostInserted
  YtdConsistent
  SameOrderIds
