--------------------------- MODULE MCDataMessages ----------------------------
\* DataMessages for TLC: messages may be cut into any ranges.
EXTENDS DataMessages

MCIds       == 0 .. 1
MCFragments == {r \in [start : 0 .. Size, end : 0 .. Size] : r.start < r.end}
=============================================================================
