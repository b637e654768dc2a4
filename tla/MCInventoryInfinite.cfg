SPECIFICATION Spec
CONSTANTS
  v1 = v1
  r1 = r1
  r2 = r2
  r3 = r3
  Variants = {v1}
  Reservations = {r1, r2, r3}
  VariantOf <- MCVariantOf
  MaxQuantity = 2
  MaxPurchase <- MCMaxPurchase
  OpeningStock <- MCOpeningStock
  Targets = {1}
  MaxRestocks = 1
PROPERTIES InfiniteStockStands
