SPECIFICATION Spec
CONSTANTS
  Reqs = {r1}
  Lists = {rooms}
  Renewals = {n1, n2}
  MaxToken = 2
  MaxPages = 1
  Register = register
  JuggKey = juggkey
INVARIANTS
  Ownership
  ConnectedOnce
PROPERTIES
  FreshResend
  KeepsPromise
  NoRevival
  ReliesOnChannel
  Settled
CHECK_DEADLOCK FALSE
