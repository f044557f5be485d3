SPECIFICATION Spec
CONSTANTS
  m1 = m1
  m2 = m2
  Meetings <- MCMeetings
  MaxAsks = 2
  MaxChanges = 2
  MaxPushes = 1
SYMMETRY Alike
INVARIANTS CallAccounted WaitsForNews ListsCurrent
CHECK_DEADLOCK FALSE
