SPECIFICATION DataSpec
CONSTANTS
  Width = 2
  Ids <- MCIds
  Streams <- MCIds
  Size = 4
  Fragments <- MCFragments
  MaxSeq = 4
INVARIANTS AcksOwed Reassembled
