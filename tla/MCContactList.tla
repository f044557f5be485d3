---------------------------- MODULE MCContactList ----------------------------
(* Two contacts, each on a page of its own. *)
EXTENDS ContactList, TLC

CONSTANTS c1, c2

MCItems == {c1, c2}
MCPageOf == c1 :> 1 @@ c2 :> 2
==============================================================================
