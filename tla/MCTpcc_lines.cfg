SPECIFICATION Spec
CONSTANTS
  NumWarehouses = 1
  DistrictsPerWarehouse = 3
  InitialOrders = 1
  InitialNewOrders = 0
  MaxOrders = 1
  InitialLines = 1
  CustomersPerDistrict = 2
  NumItems = 2
  StockPerWarehouse = 2
  InitialQuantities = {10}
  WarehouseSplit = FALSE
  Workers = {w1, w2}
  Log <- TwoDistricts
INVARIANT
  OrderLinesKept
