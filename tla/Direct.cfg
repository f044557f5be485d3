SPECIFICATION Spec
CONSTANTS
  ann = ann
  ann2 = ann2
  a = a
  m = m
  Direct = {d1, d2}
  Groups = {g}
  Me = me
  Profiles = {me, ann, ann2}
  Named = {me, ann}
  Emails = {a, m}
  Email <- MCEmail
  None = None
  MaxPushes = 2
  MaxSends = 2
SYMMETRY Symmetry
CHECK_DEADLOCK FALSE
INVARIANTS Listened Accounted TablesAgree 
