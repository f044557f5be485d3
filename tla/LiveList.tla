------------------------------ MODULE LiveList -------------------------------
(***************************************************************************)
(* What a ChimeObjectCollection promises the code that fills it: objects   *)
(* that are hashed live stay so until they are unhashed, or expired        *)
(* because the current generation did not hash them again.                 *)
(***************************************************************************)
CONSTANT Items

VARIABLES
  live,   \* the objects that are hashed and not dead
  fresh   \* those of them with the generation of the collection

Empty == live = {} /\ fresh = {}

Hash(S) == live' = live \cup S /\ fresh' = fresh \cup S
Unhash(S) == live' = live \ S /\ fresh' = fresh \ S
NewGeneration == fresh' = {} /\ UNCHANGED live
Expire == live' = fresh /\ UNCHANGED fresh
Clear == live' = {} /\ fresh' = {}

LiveNext ==
  \/ \E i \in Items : Hash({i}) \/ Unhash({i})
  \/ NewGeneration \/ Expire \/ Clear

LiveSpec == Empty /\ [][LiveNext]_<<live, fresh>>
==============================================================================
