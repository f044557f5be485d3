--------------------------- MODULE MCDirectMessages -----------------------------
\* DirectMessages with two profiles, one of them without a name, at the same address.
EXTENDS DirectMessages, TLC

CONSTANTS ann, ann2, a, m

MCEmail == [x \in Profiles |-> IF x = Me THEN m ELSE a]
Symmetry == Permutations(Direct)
=============================================================================
