\* A SKU that is listed without a sale.
SPECIFICATION BridgeSpec
CONSTANTS
  SkuIds = {1, 2}
  Lines <- MCLines
  Drivers = {"advertising"}
  Effects = {0}
  Parts = 2
  Tolerance = 1
  Unknown = Unknown
  NoRows = NoRows
INVARIANT BridgeIsBuilt
CHECK_DEADLOCK FALSE
