SPECIFICATION FairSpec
CONSTANTS
  a1 = a1
  x1 = x1
  x2 = x2
  x3 = x3
  Entry <- MCOneEntry
  Exit = {x1, x2}
  Asset = {a1}
  AssetOf <- MCAssetOf
  LotQty = 1
  HoldSettle = 0
  ExitOrphanHorizon = 1
  DriftAge = 1
  AgeCap = 2
  MaxRestarts = 1
  Unreliable = TRUE
  LateArrival = FALSE
  Brackets = FALSE
  OutsideSales = TRUE
  Rollover = FALSE
PROPERTIES
  SoldEntryIsAccounted
  DuePositionIsSold
