SPECIFICATION PurchaseSpec
CONSTANTS
  pa = pa
  pb = pb
  l1 = l1
  q1 = q1
  t1 = t1
  o1 = o1
  Products = {pa, pb}
  Places = {l1}
  Asks = {q1}
  Quotes = {t1}
  Bought = {o1}
  MaxUnits = 1
  MaxEdits = 3
  MaxTries = 1
  NoQuote = NoQuote
  NoPlace = NoPlace
INVARIANTS ReservedAreItsItems
CHECK_DEADLOCK FALSE
