SPECIFICATION Spec
CONSTANTS
  r1 = r1
  r2 = r2
  Items <- MCItems
  Pages = 2
  PageOf <- MCPageOf
  MaxChanges = 3
  MaxPushes = 2
INVARIANTS Mirrors
PROPERTIES NoFalseExpiry Quiesces
CHECK_DEADLOCK FALSE
