----------------------------- MODULE MCRoomList ------------------------------
(* Two rooms, each on a page of its own. *)
EXTENDS RoomList, TLC

CONSTANTS r1, r2

MCItems == {r1, r2}
MCPageOf == r1 :> 1 @@ r2 :> 2
==============================================================================
