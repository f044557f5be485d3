---------------------------- MODULE SocketPromise ----------------------------
(***************************************************************************)
(* A websocket as its users see it (Juggernaut.tla, and the transport of a *)
(* call): it opens once and is open until it begins to close; nothing more *)
(* is taken to be sent from then on; and that it has closed is told once.  *)
(***************************************************************************)
EXTENDS Naturals

VARIABLES
  state,  \* none, open, closing, closed
  told,   \* how often the user has been told that the websocket is closed
  taken   \* messages the user has given and the websocket has taken

Init == state = "none" /\ told = 0 /\ taken = 0

Opens == state = "none" /\ state' = "open" /\ UNCHANGED <<told, taken>>

Takes ==
  /\ state = "open"
  /\ taken' = taken + 1
  /\ UNCHANGED <<state, told>>

Closing == state = "open" /\ state' = "closing" /\ UNCHANGED <<told, taken>>

Closed ==
  /\ state = "closing" /\ told = 0
  /\ state' = "closed" /\ told' = 1
  /\ UNCHANGED <<taken>>

Next == Opens \/ Takes \/ Closing \/ Closed

Spec == Init /\ [][Next]_<<state, told, taken>>
=============================================================================
