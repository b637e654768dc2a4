SPECIFICATION Spec
CONSTANTS
  p1 = p1
  p2 = p2
  k1 = k1
  k2 = k2
  None = None
  MaxAttempts = 2
  Payments = {p1, p2}
  Keys = {k1, k2}
  Workers = 2
  OpeningStock = 2
SYMMETRY Interchangeable
INVARIANTS RestoredOnce
