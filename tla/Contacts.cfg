SPECIFICATION ContactsSpec
CONSTANTS
  c1 = c1
  c2 = c2
  Items <- MCItems
  Pages = 2
  PageOf <- MCPageOf
  MaxCalls = 3
INVARIANTS ShowsAccount
PROPERTIES Reinstated
CHECK_DEADLOCK FALSE
