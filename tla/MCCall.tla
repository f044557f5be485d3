------------------------------- MODULE MCCall --------------------------------
\* Call with interchangeable elements.
EXTENDS Call, TLC

Symmetry == Permutations(Views) \cup Permutations(Shares)
=============================================================================
