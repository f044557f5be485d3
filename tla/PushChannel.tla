----------------------------- MODULE PushChannel -----------------------------
(***************************************************************************)
(* The push channel as the rest of a ChimeConnection sees it: it is set    *)
(* up once with a request for a key, it is up after the service's "1::",   *)
(* it is set up anew when it is lost while up, and any other loss ends it  *)
(* together with the connection.                                           *)
(***************************************************************************)
VARIABLES
  chan,    \* none, opening, or up
  key,     \* the request for the key is under way
  online   \* the channel counts as online for the start-up of the connection

Init == chan = "none" /\ key = FALSE /\ online = FALSE

Open ==
  /\ chan = "none" /\ ~online
  /\ chan' = "opening" /\ key' = TRUE
  /\ UNCHANGED online

KeyAnswered ==
  /\ chan # "none" /\ key
  /\ key' = FALSE
  /\ UNCHANGED <<chan, online>>

Up ==
  /\ chan # "none" /\ ~key
  /\ chan' = "up" /\ online' = TRUE
  /\ UNCHANGED key

Lost ==
  /\ chan = "up" /\ ~key
  /\ chan' = "opening" /\ key' = TRUE
  /\ UNCHANGED online

\* The connection goes down, for whatever reason; only the service's own "0::",
\* which arrives on an established channel, takes the channel offline.
Ended ==
  /\ chan # "none"
  /\ chan' = "none" /\ key' = FALSE
  /\ \/ UNCHANGED online
     \/ ~key /\ online' = FALSE

Next == Open \/ KeyAnswered \/ Up \/ Lost \/ Ended

Spec == Init /\ [][Next]_<<chan, key, online>>
=============================================================================
