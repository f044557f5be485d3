---------------------------- MODULE MCJuggernaut -----------------------------
(***************************************************************************)
(* Instances of Juggernaut for TLC.                                        *)
(***************************************************************************)
EXTENDS Juggernaut, TLC

Symmetry == Permutations(Channels) \cup Permutations(Subscribers)
=============================================================================
