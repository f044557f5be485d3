-------------------------- MODULE MCObjectCollection -------------------------
(* Objects and names are interchangeable. *)
EXTENDS ObjectCollection, TLC

CONSTANTS o1, o2, o3, n1, n2

MCObjects == {o1, o2, o3}
MCNames == {n1, n2}
Symmetry == Permutations(MCObjects) \cup Permutations(MCNames)
==============================================================================
