SPECIFICATION PubSpec
CONSTANTS
  e1 = e1
  e2 = e2
  Writers = {e1, e2}
  LastNumber = 2
INVARIANTS NumbersAreNotReused
CHECK_DEADLOCK FALSE
