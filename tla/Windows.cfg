SPECIFICATION Spec
CONSTANTS
  Contacts = {m1}
  MaxOpenings = 2
  MaxChanges = 2
  Views = {v1, v2}
  Shares = {s1}
  None = None
  Presenters = {me, p1, p2}
  Me = me
  MaxJoins = 1
SYMMETRY Symmetry
CHECK_DEADLOCK FALSE
INVARIANTS MembersSound CallServed
