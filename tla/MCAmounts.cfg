SPECIFICATION AmountsSpec
CONSTANTS
  o1 = o1
  o2 = o2
  o3 = o3
  Orders = {o1, o2, o3}
  Unlimited = Unlimited
  Idle = Idle
  Quotas = {1, 2}
  Lifetime = 2
  MaxNow = 3
  Amounts = {1, 3, 100}
  MaxLines = 3
  Percentages = {10, 50}
  Fixed = {2, 150}
  Skus = {1, 2}
  Sides = {1, 2, 3}
  Weights = {2}
  MaxOfSku = 2
  Boxes <- SmallBoxes
SYMMETRY Interchangeable
INVARIANTS PlaceIsHonoured PricingIsSound PackingIsSound
PROPERTIES JoinsWithinQuota
CHECK_DEADLOCK FALSE
