SPECIFICATION BoSpec
CONSTANTS
  task = task
  staff = staff
  a1 = a1
  a2 = a2
  s1 = s1
  b1 = b1
  b2 = b2
  r1 = r1
  o1 = o1
  o2 = o2
  v1 = v1
  None = None
  NumParcels = 2
  Requests = {task}
  Panel = {staff}
  MaxFaults = 1
  Nobody = Nobody
  Own = a1
  Accounts = {a1, a2}
  States = {s1}
  Callbacks = {b1, b2}
  Readers = {r1}
  Sold = {o1, o2}
  Attempts = 1
  Sessions = {v1}
  Ticker = Ticker
  NoVisit = NoVisit
  Gone = Gone
  MaxLost = 1
INVARIANTS BoTypeOK ImportedIsWhole OneCarrierOrder AuthorisedOnce
PROPERTIES ImportingIsSettled ConversionIsRecorded
CHECK_DEADLOCK FALSE
