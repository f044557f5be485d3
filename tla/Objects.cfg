SPECIFICATION CollectionSpec
CONSTANTS
  o1 = o1
  o2 = o2
  o3 = o3
  n1 = n1
  n2 = n2
  Objects <- MCObjects
  Names <- MCNames
  Nobody = Nobody
  MaxHolds = 1
SYMMETRY Symmetry
INVARIANTS TablesSound
PROPERTIES IsLiveList
CHECK_DEADLOCK FALSE
