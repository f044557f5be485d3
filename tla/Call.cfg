SPECIFICATION Spec
CONSTANTS
  MaxOrphans = 1
  MaxOpens = 2
  Views = {v1, v2}
  Shares = {s1, s2}
  None = None
SYMMETRY Symmetry
INVARIANTS Carried TimersOwned OneSender ScreenSound
